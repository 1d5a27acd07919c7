--------------------------- MODULE ProjectProofs -----------------------------
(***************************************************************************)
(* What holds of the files of every project: that the walks of Expansion   *)
(* reach the least closed set in every graph; that a project is loaded as  *)
(* its files say, or refused for a reason in them, whatever order they are *)
(* read in; that the context of an image has what the image reads; and     *)
(* that what is set in several places comes to what it should.             *)
(***************************************************************************)
EXTENDS MCProject, FiniteSetTheorems, WellFoundedInduction, SequenceTheorems, TLAPS

-----------------------------------------------------------------------------
(* Proofs: the walks reach the least closed set, in every graph. *)

\* What a walk has reached and expanded has its neighbours in the result; and
\* the result is within every closed set that contains the targets.
Expanded == \A s \in result \ queue : Step(g, depType, walk, s) \cap AllServices \subseteq result
Within == \A S \in SUBSET Name : filtered \subseteq S /\ Closed(S) => result \subseteq S
IInv == TypeOK /\ filtered \subseteq result /\ Expanded /\ Within

\* The inputs of a walk are given, so its edges do not change.
LEMMA SameEdges ==
  ASSUME UNCHANGED inputs
  PROVE  /\ \A s : Step(g, depType, walk, s)' = Step(g, depType, walk, s)
         /\ \A S : Closed(S)' <=> Closed(S)
<1>1. g' = g /\ depType' = depType /\ walk' = walk
  BY DEF inputs
<1>2. \A s : Step(g, depType, walk, s)' = Step(g, depType, walk, s)
  BY <1>1 DEF Step, buildDependantsMap, getDepsForDependantsWalk, getDeps
<1>3. QED
  BY <1>2 DEF Closed

\* A walk starts within the invariant.
LEMMA InitIInv == Init => IInv
BY DEF Init, Start, IInv, TypeOK, Expanded, Within

\* One iteration of the loop keeps it.
LEMMA NextIInv == IInv /\ [Next]_vars => IInv'
<1>1. SUFFICES ASSUME IInv, [Next]_vars PROVE IInv'
  OBVIOUS
<1>2. CASE UNCHANGED vars
  <2>1. UNCHANGED inputs /\ queue' = queue /\ result' = result /\ filtered' = filtered
    BY <1>2 DEF vars, inputs
  <2>2. TypeOK'
    BY <1>1, <2>1 DEF IInv, TypeOK, inputs, GraphOK
  <2>3. Expanded'
    BY <1>1, <2>1, SameEdges DEF IInv, Expanded
  <2>4. Within'
    BY <1>1, <2>1, SameEdges DEF IInv, Within
  <2>5. QED
    BY <1>1, <2>1, <2>2, <2>3, <2>4 DEF IInv
<1>3. CASE Next
  <2>1. PICK current \in queue : Expand(current)
    BY <1>3 DEF Next
  <2>2. UNCHANGED inputs
    BY <1>3 DEF Next
  <2> DEFINE new == (Step(g, depType, walk, current) \cap AllServices) \ result
  <2>3. /\ queue' = (queue \ {current}) \cup new
        /\ result' = result \cup new
    BY <2>1 DEF Expand
  <2>4. new \subseteq Name /\ current \in result /\ current \in Name
    BY <1>1, <2>1, AllServicesAssumption DEF IInv, TypeOK
  <2>5. TypeOK'
    BY <1>1, <2>2, <2>3, <2>4 DEF IInv, TypeOK, inputs, GraphOK
  <2>6. (filtered \subseteq result)'
    BY <1>1, <2>2, <2>3 DEF IInv, inputs
  <2>7. Expanded'
    <3>1. SUFFICES ASSUME NEW s \in result' \ queue'
                   PROVE  Step(g, depType, walk, s) \cap AllServices \subseteq result'
      BY <2>2, SameEdges DEF Expanded
    <3>2. CASE s = current
      BY <2>3, <3>2
    <3>3. CASE s # current
      BY <1>1, <2>3, <3>1, <3>3 DEF IInv, Expanded
    <3>4. QED
      BY <3>2, <3>3
  <2>8. Within'
    <3>1. SUFFICES ASSUME NEW S \in SUBSET Name, filtered \subseteq S, Closed(S)
                   PROVE  result' \subseteq S
      BY <2>2, SameEdges DEF Within, inputs
    <3>2. result \subseteq S
      BY <1>1, <3>1 DEF IInv, Within
    <3>3. new \subseteq S
      BY <2>4, <3>1, <3>2 DEF Closed
    <3>4. QED
      BY <2>3, <3>2, <3>3
  <2>9. QED
    BY <2>5, <2>6, <2>7, <2>8 DEF IInv
<1>4. QED
  BY <1>1, <1>2, <1>3

\* With an empty queue everything is expanded.
LEMMA IInvLeast == IInv => LeastClosedSet
BY DEF IInv, Expanded, Within, Closed, LeastClosedSet

\* The walks keep to registered names and never queue what is not reached.
THEOREM ExpansionTypeOK == Spec => []TypeOK
<1>1. IInv => TypeOK
  BY DEF IInv
<1>2. QED
  BY <1>1, InitIInv, NextIInv, PTL DEF Spec

\* Whatever the graph, cyclic or naming unknown services, a walk that ends has
\* found the least closed set around its targets.
THEOREM ExpansionLeastClosedSet == Spec => []LeastClosedSet
BY InitIInv, NextIInv, IInvLeast, PTL DEF Spec

\* Where the edges are those of a graph, so are the walks.
LEMMA BackwardsOnly == IInv => SystemOnlyBackwards
BY DEF IInv, TypeOK, GraphOK, SystemOnlyBackwards, Step, buildDependantsMap,
       getDepsForDependantsWalk, getDeps

\* In every graph the system dependencies are followed backwards only.
THEOREM ExpansionSystemOnlyBackwards == Spec => []SystemOnlyBackwards
BY BackwardsOnly, InitIInv, NextIInv, PTL DEF Spec

\* Every nonempty set of naturals has a least element.
LEMMA LeastElement ==
  ASSUME NEW T, T \subseteq Nat, T # {}
  PROVE  \E x \in T : \A y \in T : x <= y
<1>1. IsWellFoundedOn(OpToRel(<, Nat), Nat)
  BY NatLessThanWellFounded
<1>2. PICK x \in T : \A y \in T : <<y, x>> \notin OpToRel(<, Nat)
  BY <1>1, WFMin
<1>3. \A y \in T : ~(y < x)
  BY <1>2 DEF OpToRel
<1> QED
  BY <1>3

\* A set that holds 0 and is closed under successor holds every natural.
LEMMA SetInduction ==
  ASSUME NEW S, 0 \in S, \A n \in Nat : n \in S => n + 1 \in S
  PROVE  Nat \subseteq S
<1> DEFINE T == Nat \ S
<1> SUFFICES ASSUME T # {} PROVE FALSE
  OBVIOUS
<1>1. PICK x \in T : \A y \in T : x <= y
  BY LeastElement
<1>2. x # 0 /\ x - 1 \in Nat /\ x - 1 \notin T
  BY <1>1
<1> QED
  BY <1>1, <1>2

\* Induction up to a bound: the form the loop lemmas use.
LEMMA BoundedInduction ==
  ASSUME NEW n \in Nat, NEW S, 0 \in S,
         \A k \in 0 .. (n - 1) : k \in S => k + 1 \in S
  PROVE  0 .. n \subseteq S
<1> DEFINE T == {k \in Nat : k <= n => k \in S}
<1>1. 0 \in T
  OBVIOUS
<1>2. \A k \in Nat : k \in T => k + 1 \in T
  OBVIOUS
<1>3. Nat \subseteq T
  BY <1>1, <1>2, SetInduction
<1> QED
  BY <1>3

\* The managers that are run for the targets, those that ran and those to come.
Managers == UNION {Loading!Range(v5[id].managers) : id \in v6}
\* What was refused ends there; all else that is done with the files is not.
Refused == v2 = "end" /\ v9 \notin {Loading!None, "output"}
Injected == v2 \in {"install", "installing", "end"}
Rooted == v2 \in {"system", "install", "installing", "end"} /\ v1.root # {}

\* An entry that is made of a file, and the root's, by the system dependencies
\* that they have.
EntryOf(f, system) ==
  [dir |-> f[1], build |-> v1.files[f].build, runtime |-> v1.files[f].runtime, system |-> system,
   commands |-> v1.files[f].commands, managers |-> v1.files[f].managers]
RootWith(system) ==
  [dir |-> 0, build |-> {}, runtime |-> {}, system |-> system, commands |-> v1.root,
   managers |-> <<>>]
SystemOf(id) == IF Injected THEN v1.system \ {id} ELSE {}

\* The files that were read: those of the directories that are not to be searched
\* any more, and those that are no children of the first that is.
ReadFiles ==
  {f \in Loading!SearchedFiles :
     f[1] \in v3 => f[1] = Loading!Min(v3) /\ f[2] \notin v4}

\* While directories are searched, the children are files of the first.
Searching ==
  /\ v2 = "discover" <=> v3 # {}
  /\ v2 = "discover" => \A d \in v3 : Loading!Searched(d)
  /\ v2 = "discover" => \A id \in v4 : <<Loading!Min(v3), id>> \in DOMAIN v1.files
\* The entries are those of the files that were read, all of them sound.
EntriesAreRead ==
  /\ v1.root \cap Loading!RESERVED_COMMAND_NAMES = {} /\ Loading!Missing(v1) = {}
  /\ \A f \in ReadFiles : ~Loading!Bad(f)
  /\ \A f, h \in ReadFiles : f[2] = h[2] => f = h
  /\ DOMAIN v5 = {f[2] : f \in ReadFiles} \cup (IF Rooted THEN {RootName} ELSE {})
  /\ \A f \in ReadFiles : v5[f[2]] = EntryOf(f, SystemOf(f[2]))
  /\ Rooted => /\ v5[RootName] = RootWith(SystemOf(RootName))
               /\ \A f \in ReadFiles : f[2] # RootName
  /\ Injected => v1.system \subseteq DOMAIN v5
\* What ran and what is still to run is what the targets need, in order.
Running ==
  /\ v2 \in {"installing", "end"} /\ ~Refused =>
       /\ v6 \subseteq DOMAIN v5
       /\ v7 \in Seq(Managers) /\ v8 \in Seq(Managers)
       /\ v8 \o v7 = Loading!getAllPackageManagers(v6)
  /\ v2 \notin {"installing", "end"} \/ Refused => v6 = {} /\ v7 = <<>> /\ v8 = <<>>
  /\ v2 # "end" => v9 = Loading!None
  /\ v2 = "end" /\ v9 = Loading!None => v7 = <<>>

LoadInv ==
  /\ v1 \in LoadedProjects /\ v2 \in Loading!Phases
  /\ v3 \subseteq v1.existing /\ v4 \subseteq Loading!Id
  /\ DOMAIN v5 \subseteq Loading!Id
  /\ \A id \in DOMAIN v5 : v5[id].dir \in {0} \cup v1.existing
  /\ v2 = "resolve" => v3 = {} /\ v4 = {} /\ v5 = <<>>
  /\ v2 # "resolve" /\ ~Refused => Searching /\ EntriesAreRead
  /\ Refused => ~Loading!FilesAreSound
  /\ Running

-----------------------------------------------------------------------------
(* The loading of a project. *)

\* The managers of the targets are gathered name by name.
LEMMA WantedUnfolds ==
  ASSUME LastId \in Nat, NEW ts
  PROVE  \E u : /\ u[0] = <<>> /\ Loading!Wanted(ts) = u[LastId]
                /\ \A k \in 0 .. LastId - 1 :
                     u[k + 1] = IF k + 1 \in ts THEN u[k] \o v5[k + 1].managers ELSE u[k]
<1> DEFINE Add(x, k) == IF k \in ts THEN x \o v5[k].managers ELSE x
           Body(h, n) == [k \in 0 .. n |-> IF k = 0 THEN <<>> ELSE Add(h[k - 1], k)]
           E == {n \in Nat : \E h : h = Body(h, n)}
           R == CHOOSE h : h = Body(h, LastId)
<1>1. Loading!Wanted(ts) = R[LastId]
  BY DEF Loading!Wanted
<1> HIDE DEF Add
<1>2. R = Body(R, LastId)
  <2>1. 0 \in E
    <3>1. Body([k \in 0 .. 0 |-> <<>>], 0) = [k \in 0 .. 0 |-> <<>>]
      OBVIOUS
    <3> QED
      BY <3>1
  <2>2. ASSUME NEW n \in Nat, n \in E
        PROVE  n + 1 \in E
    <3>1. PICK h : h = Body(h, n)
      BY <2>2
    <3> DEFINE i == [k \in 0 .. n + 1 |-> IF k <= n THEN h[k] ELSE Add(h[n], n + 1)]
    <3>2. i = Body(i, n + 1)
      BY <3>1
    <3> HIDE DEF i, Body
    <3>3. \E f : f = Body(f, n + 1)
      BY <3>2
    <3> QED
      BY <3>3
  <2>3. LastId \in E
    BY <2>1, <2>2, SetInduction
  <2> QED
    BY <2>3
<1> HIDE DEF R
<1>3. R[0] = <<>>
  BY <1>2
<1>4. ASSUME NEW k \in 0 .. LastId - 1
      PROVE  R[k + 1] = Add(R[k], k + 1)
  <2>1. k + 1 \in 0 .. LastId /\ k + 1 # 0 /\ (k + 1) - 1 = k
    OBVIOUS
  <2> QED
    BY <1>2, <2>1
<1> QED
  BY <1>1, <1>3, <1>4 DEF Add

\* A list of managers holds those of the targets, in an order that is theirs.
ManagersOf(ts) == UNION {Loading!Range(v5[id].managers) : id \in ts}

LEMMA WantedIs ==
  ASSUME LastId \in Nat, NEW ts \in SUBSET Loading!Id,
         \A id \in ts : v5[id].managers \in Seq(Loading!Range(v5[id].managers))
  PROVE  /\ Loading!Wanted(ts) \in Seq(ManagersOf(ts))
         /\ \A m \in ManagersOf(ts) :
              \E i \in 1 .. Len(Loading!Wanted(ts)) : Loading!Wanted(ts)[i] = m
<1> DEFINE W == Loading!Wanted(ts)  M == ManagersOf(ts)
<1>1. PICK u : /\ u[0] = <<>> /\ W = u[LastId]
               /\ \A k \in 0 .. LastId - 1 :
                    u[k + 1] = IF k + 1 \in ts THEN u[k] \o v5[k + 1].managers ELSE u[k]
  BY WantedUnfolds
<1> HIDE DEF W
<1> DEFINE Has(q, m) == \E i \in 1 .. Len(q) : q[i] = m
           Holds(k) == /\ u[k] \in Seq(M)
                       /\ \A id \in ts : id <= k =>
                            \A m \in Loading!Range(v5[id].managers) : Has(u[k], m)
           S == {k \in 0 .. LastId : Holds(k)}
<1>2. 0 \in S
  <2>1. u[0] \in Seq(M)
    BY <1>1
  <2>2. \A id \in ts : ~(id <= 0)
    BY DEF Loading!Id
  <2> QED
    BY <2>1, <2>2
<1>3. ASSUME NEW k \in 0 .. LastId - 1, k \in S
      PROVE  k + 1 \in S
  <2>1. k + 1 \in 0 .. LastId /\ Holds(k) /\ u[k] \in Seq(M)
    BY <1>3
  <2>2. CASE k + 1 \notin ts
    <3>1. u[k + 1] = u[k]
      BY <1>1, <2>2
    <3>2. \A id \in ts : id <= k + 1 => id <= k
      BY <2>2 DEF Loading!Id
    <3> QED
      BY <2>1, <3>1, <3>2
  <2>3. CASE k + 1 \in ts
    <3> DEFINE q == v5[k + 1].managers  r == u[k]
    <3>1. u[k + 1] = r \o q
      BY <1>1, <2>3
    <3>2. q \in Seq(M)
      <4>1. Loading!Range(q) \subseteq M
        BY <2>3 DEF ManagersOf
      <4> QED
        BY <2>3, <4>1
    <3>3. r \in Seq(M)
      BY <2>1
    <3> HIDE DEF q, M
    <3>4. /\ r \o q \in Seq(M) /\ Len(r \o q) = Len(r) + Len(q)
          /\ \A i \in 1 .. Len(r) : (r \o q)[i] = r[i]
          /\ \A i \in 1 .. Len(q) : (r \o q)[Len(r) + i] = q[i]
      BY <3>2, <3>3
    <3>5. Len(r) \in Nat /\ Len(q) \in Nat /\ DOMAIN q = 1 .. Len(q)
      BY <3>2, <3>3
    <3>6. ASSUME NEW m, Has(r, m)
          PROVE  Has(r \o q, m)
      <4>1. PICK i \in 1 .. Len(r) : r[i] = m
        BY <3>6
      <4>2. i \in 1 .. Len(r \o q)
        BY <3>4, <3>5
      <4> QED
        BY <3>4, <4>1, <4>2
    <3>7. ASSUME NEW m \in Loading!Range(q)
          PROVE  Has(r \o q, m)
      <4>1. PICK i \in 1 .. Len(q) : q[i] = m
        BY <3>5 DEF Loading!Range
      <4>2. Len(r) + i \in 1 .. Len(r \o q)
        BY <3>4, <3>5
      <4> QED
        BY <3>4, <4>1, <4>2
    <3>8. \A id \in ts : id <= k + 1 => id <= k \/ id = k + 1
      BY DEF Loading!Id
    <3> QED
      BY <2>1, <3>1, <3>4, <3>6, <3>7, <3>8 DEF q
  <2> QED
    BY <2>2, <2>3
<1>4. LastId \in S
  <2> HIDE DEF S
  <2>1. 0 .. LastId \subseteq S
    BY <1>2, <1>3, BoundedInduction
  <2> QED
    BY <2>1
<1>5. \A id \in ts : id <= LastId
  BY DEF Loading!Id
<1>6. Holds(LastId)
  BY <1>4
<1>7. W \in Seq(M)
  BY <1>1, <1>6
<1>8. ASSUME NEW m \in M
      PROVE  Has(W, m)
  <2>1. PICK id \in ts : m \in Loading!Range(v5[id].managers)
    BY DEF ManagersOf
  <2> HIDE DEF Has
  <2> QED
    BY <1>1, <1>5, <1>6, <2>1
<1>9. W = Loading!Wanted(ts)
  BY DEF W
<1> HIDE DEF M
<1>10. M = ManagersOf(ts)
  BY DEF M
<1> QED
  BY <1>7, <1>8, <1>9, <1>10

\* The first manager of each lockfile is kept, manager by manager.
LEMMA UniqueUnfolds ==
  ASSUME NEW ts, Len(Loading!Wanted(ts)) \in Nat
  PROVE  \E u : /\ u[0] = <<>>
                /\ Loading!getAllPackageManagers(ts) = u[Len(Loading!Wanted(ts))]
                /\ \A k \in 0 .. Len(Loading!Wanted(ts)) - 1 :
                     u[k + 1] = IF Loading!Seen(u[k], Loading!Wanted(ts)[k + 1]) THEN u[k]
                                ELSE Append(u[k], Loading!Wanted(ts)[k + 1])
<1> DEFINE W == Loading!Wanted(ts)
           Add(x, k) == IF Loading!Seen(x, W[k]) THEN x ELSE Append(x, W[k])
           Body(h, n) == [k \in 0 .. n |-> IF k = 0 THEN <<>> ELSE Add(h[k - 1], k)]
           E == {n \in Nat : \E h : h = Body(h, n)}
           R == CHOOSE h : h = Body(h, Len(W))
<1>1. Loading!getAllPackageManagers(ts) = R[Len(W)]
  BY DEF Loading!getAllPackageManagers
<1> HIDE DEF Add
<1>2. R = Body(R, Len(W))
  <2>1. 0 \in E
    <3>1. Body([k \in 0 .. 0 |-> <<>>], 0) = [k \in 0 .. 0 |-> <<>>]
      OBVIOUS
    <3> QED
      BY <3>1
  <2>2. ASSUME NEW n \in Nat, n \in E
        PROVE  n + 1 \in E
    <3>1. PICK h : h = Body(h, n)
      BY <2>2
    <3> DEFINE i == [k \in 0 .. n + 1 |-> IF k <= n THEN h[k] ELSE Add(h[n], n + 1)]
    <3>2. i = Body(i, n + 1)
      BY <3>1
    <3> HIDE DEF i, Body
    <3>3. \E f : f = Body(f, n + 1)
      BY <3>2
    <3> QED
      BY <3>3
  <2>3. Len(W) \in E
    BY <2>1, <2>2, SetInduction
  <2> QED
    BY <2>3
<1> HIDE DEF R
<1>3. R[0] = <<>>
  BY <1>2
<1>4. ASSUME NEW k \in 0 .. Len(W) - 1
      PROVE  R[k + 1] = Add(R[k], k + 1)
  <2>1. k + 1 \in 0 .. Len(W) /\ k + 1 # 0 /\ (k + 1) - 1 = k
    OBVIOUS
  <2> QED
    BY <1>2, <2>1
<1> QED
  BY <1>1, <1>3, <1>4 DEF Add

\* What an install runs: managers of the targets, one for each of their lockfiles.
LEMMA PackageManagersAre ==
  ASSUME LastId \in Nat, NEW ts \in SUBSET Loading!Id,
         \A id \in ts : v5[id].managers \in Seq(Loading!Range(v5[id].managers))
  PROVE  LET q == Loading!getAllPackageManagers(ts)
         IN  /\ q \in Seq(ManagersOf(ts))
             /\ \A i, j \in 1 .. Len(q) : q[i].lockfile = q[j].lockfile => i = j
             /\ \A m \in ManagersOf(ts) : \E i \in 1 .. Len(q) : q[i].lockfile = m.lockfile
<1> DEFINE W == Loading!Wanted(ts)  M == ManagersOf(ts)  Q == Loading!getAllPackageManagers(ts)
<1>1. /\ W \in Seq(M) /\ Len(W) \in Nat
      /\ \A m \in M : \E i \in 1 .. Len(W) : W[i] = m
  BY WantedIs
<1>2. PICK u : /\ u[0] = <<>> /\ Q = u[Len(W)]
               /\ \A k \in 0 .. Len(W) - 1 :
                    u[k + 1] = IF Loading!Seen(u[k], W[k + 1]) THEN u[k]
                               ELSE Append(u[k], W[k + 1])
  BY <1>1, UniqueUnfolds
<1> HIDE DEF W, M, Q
<1> DEFINE Has(q, m) == \E i \in 1 .. Len(q) : q[i].lockfile = m.lockfile
           Once(q) == \A i, j \in 1 .. Len(q) : q[i].lockfile = q[j].lockfile => i = j
           Holds(k) == u[k] \in Seq(M) /\ Once(u[k]) /\ \A i \in 1 .. k : Has(u[k], W[i])
           S == {k \in 0 .. Len(W) : Holds(k)}
<1>3. 0 \in S
  <2>1. u[0] = <<>> /\ <<>> \in Seq(M) /\ Len(<<>>) = 0
    BY <1>2
  <2>2. 1 .. 0 = {}
    OBVIOUS
  <2>3. Once(u[0]) /\ \A i \in 1 .. 0 : Has(u[0], W[i])
    BY <2>1, <2>2
  <2>4. Holds(0)
    BY <2>1, <2>3
  <2> HIDE DEF Holds
  <2> QED
    BY <1>1, <2>4
<1>4. ASSUME NEW k \in 0 .. Len(W) - 1, k \in S
      PROVE  k + 1 \in S
  <2> DEFINE m == W[k + 1]  q == u[k]
  <2>1. k + 1 \in 0 .. Len(W) /\ k + 1 \in 1 .. Len(W) /\ Holds(k) /\ q \in Seq(M)
    BY <1>1, <1>4
  <2>2. m \in M
    BY <1>1, <2>1
  <2>3. Loading!Seen(q, m) <=> Has(q, m)
    BY <2>1 DEF Loading!Seen
  <2>4. CASE Has(q, m)
    <3>1. u[k + 1] = q
      BY <1>2, <2>3, <2>4
    <3>2. \A i \in 1 .. k + 1 : i \in 1 .. k \/ i = k + 1
      OBVIOUS
    <3> HIDE DEF Has, Once
    <3> QED
      BY <2>1, <2>4, <3>1, <3>2
  <2>5. CASE ~Has(q, m)
    <3>1. u[k + 1] = Append(q, m)
      BY <1>2, <2>3, <2>5
    <3>2. Len(q) \in Nat
      BY <2>1
    <3> HIDE DEF q, m
    <3>3. /\ Append(q, m) \in Seq(M) /\ Len(Append(q, m)) = Len(q) + 1
          /\ \A i \in 1 .. Len(q) : Append(q, m)[i] = q[i]
          /\ Append(q, m)[Len(q) + 1] = m
      BY <2>1, <2>2 DEF q
    <3>4. Once(Append(q, m))
      <4> SUFFICES ASSUME NEW i \in 1 .. Len(q) + 1, NEW j \in 1 .. Len(q) + 1,
                          Append(q, m)[i].lockfile = Append(q, m)[j].lockfile
                   PROVE  i = j
        BY <3>3
      <4>1. Once(q)
        BY <2>1 DEF q
      <4> QED
        BY <2>5, <3>2, <3>3, <4>1
    <3>5. \A x : Has(q, x) => Has(Append(q, m), x)
      BY <3>2, <3>3
    <3>6. Has(Append(q, m), m)
      BY <3>2, <3>3
    <3>7. \A i \in 1 .. k + 1 : i \in 1 .. k \/ i = k + 1
      OBVIOUS
    <3> HIDE DEF Has, Once
    <3> QED
      BY <2>1, <3>1, <3>3, <3>4, <3>5, <3>6, <3>7 DEF q, m
  <2> QED
    BY <2>4, <2>5
<1>5. Len(W) \in S
  <2> HIDE DEF S
  <2>1. 0 .. Len(W) \subseteq S
    BY <1>1, <1>3, <1>4, BoundedInduction
  <2> QED
    BY <1>1, <2>1
<1>6. Q \in Seq(M) /\ Once(Q) /\ \A i \in 1 .. Len(W) : Has(Q, W[i])
  BY <1>2, <1>5
<1>7. \A m \in M : Has(Q, m)
  <2> HIDE DEF Has
  <2> QED
    BY <1>1, <1>6
<1> QED
  BY <1>6, <1>7 DEF Q, M

\* The directories that are searched are those some pattern names and none excludes.
LEMMA DirectoriesAre ==
  ASSUME \A q \in Loading!Range(Loading!DirsOf(v1)) : q.exclude \in BOOLEAN
  PROVE  /\ Loading!resolveDirectoryPatterns(v1) \subseteq v1.existing
         /\ \A d : d \in Loading!resolveDirectoryPatterns(v1) <=> Loading!Searched(d)
<1> DEFINE D == Loading!Range(Loading!DirsOf(v1))
<1>1. \A q \in D : q.exclude = TRUE <=> q.exclude
  OBVIOUS
<1>2. \A q \in D : q.exclude = FALSE <=> ~q.exclude
  OBVIOUS
<1> HIDE DEF D
<1>3. \A x, d : d \in Loading!Found(v1, x) <=>
                 d \in v1.existing /\ \E q \in D : q.exclude = x /\ d \in q.names
  BY DEF Loading!Found, Loading!Patterns, D
<1>4. \A d : d \in Loading!Found(v1, FALSE) <=>
             d \in v1.existing /\ \E q \in D : ~q.exclude /\ d \in q.names
  BY <1>2, <1>3
<1>5. \A d : d \in Loading!Found(v1, TRUE) <=>
             d \in v1.existing /\ \E q \in D : q.exclude /\ d \in q.names
  BY <1>1, <1>3
<1>6. \A d : Loading!Searched(d) <=>
        /\ d \in v1.existing
        /\ \E q \in D : ~q.exclude /\ d \in q.names
        /\ \A q \in D : q.exclude => d \notin q.names
  BY DEF Loading!Searched, D
<1> QED
  BY <1>4, <1>5, <1>6 DEF Loading!resolveDirectoryPatterns

\* The next directory is one of them.
LEMMA NextIs ==
  ASSUME NEW S \in SUBSET Nat, S # {}
  PROVE  Loading!Min(S) \in S
<1>1. \E x \in S : \A y \in S : x <= y
  BY LeastElement
<1> QED
  BY <1>1 DEF Loading!Min

\* What there is to read, and to refuse, is that of the files alone.
LEMMA SameFiles ==
  ASSUME v1' = v1
  PROVE  /\ \A d : Loading!Searched(d)' <=> Loading!Searched(d)
         /\ Loading!SearchedFiles' = Loading!SearchedFiles
         /\ \A f : Loading!Bad(f)' <=> Loading!Bad(f)
         /\ Loading!FilesAreSound' <=> Loading!FilesAreSound
         /\ \A f, s : EntryOf(f, s)' = EntryOf(f, s)
         /\ \A s : RootWith(s)' = RootWith(s)
         /\ Loading!Missing(v1)' = Loading!Missing(v1)
<1>1. \A d : Loading!Searched(d)' <=> Loading!Searched(d)
  BY DEF Loading!Searched
<1>2. Loading!SearchedFiles' = Loading!SearchedFiles
  BY <1>1 DEF Loading!SearchedFiles
<1>3. \A f : Loading!Bad(f)' <=> Loading!Bad(f)
  BY DEF Loading!Bad
<1>4. Loading!FilesAreSound' <=> Loading!FilesAreSound
  BY <1>2, <1>3 DEF Loading!FilesAreSound
<1>5. \A f, s : EntryOf(f, s)' = EntryOf(f, s)
  BY DEF EntryOf
<1>6. \A s : RootWith(s)' = RootWith(s)
  BY DEF RootWith
<1>7. Loading!Missing(v1)' = Loading!Missing(v1)
  BY DEF Loading!Missing
<1> QED
  BY <1>1, <1>2, <1>3, <1>4, <1>5, <1>6, <1>7

\* What LoadAssumption says of a project that is loaded.
LEMMA TreeIs ==
  ASSUME Loading!LoadAssumption, v1 \in LoadedProjects
  PROVE  /\ v1.existing \subseteq Nat \ {0}
         /\ \A q \in Loading!Range(Loading!DirsOf(v1)) : q.exclude \in BOOLEAN
         /\ \A f \in DOMAIN v1.files :
              /\ f \in Nat \X Loading!Id
              /\ v1.files[f].managers \in Seq(Loading!Range(v1.files[f].managers))
<1>1. ASSUME NEW q \in Loading!Range(Loading!DirsOf(v1))
      PROVE  q.exclude \in BOOLEAN
  <2>1. CASE v1.dirs = <<>>
    <3>1. q = [exclude |-> FALSE, glob |-> FALSE, names |-> {DefaultDir}]
      BY <1>1, <2>1 DEF Loading!Range, Loading!DirsOf
    <3> QED
      BY <3>1
  <2>2. CASE v1.dirs # <<>>
    BY <1>1, <2>2 DEF Loading!DirsOf, Loading!LoadAssumption
  <2> QED
    BY <2>1, <2>2
<1> QED
  BY <1>1 DEF Loading!LoadAssumption

\* Of the files that a search is for, those of directories that are still to be
\* searched are not read.
LEMMA SearchReads ==
  ASSUME Loading!LoadAssumption, v1 \in LoadedProjects, v1' = v1,
         NEW ds \in SUBSET v1.existing, Loading!Search(ds)
  PROVE  /\ ReadFiles' = {f \in Loading!SearchedFiles : f[1] \notin ds}
         /\ v4' \subseteq Loading!Id
         /\ ds # {} => \A id \in v4' : <<Loading!Min(v3'), id>> \in DOMAIN v1.files
<1>1. v3' = ds /\ (ds # {} => v4' = Loading!FilesIn(Loading!Min(ds))) /\ (ds = {} => v4' = {})
  BY DEF Loading!Search
<1>2. v4' \subseteq Loading!Id
  BY <1>1 DEF Loading!FilesIn
<1>3. ds # {} => \A id \in v4' : <<Loading!Min(v3'), id>> \in DOMAIN v1.files
  BY <1>1 DEF Loading!FilesIn
<1>4. ASSUME NEW f \in Loading!SearchedFiles, f[1] \in ds, f[1] = Loading!Min(ds)
      PROVE  f[2] \in v4'
  <2>1. f \in DOMAIN v1.files /\ f \in Nat \X Loading!Id
    BY TreeIs DEF Loading!SearchedFiles
  <2>2. f = <<f[1], f[2]>> /\ f[2] \in Loading!Id
    BY <2>1
  <2> QED
    BY <1>1, <1>4, <2>1, <2>2 DEF Loading!FilesIn
<1>5. ReadFiles' = {f \in Loading!SearchedFiles :
                      f[1] \in ds => f[1] = Loading!Min(ds) /\ f[2] \notin v4'}
  BY <1>1, SameFiles DEF ReadFiles
<1> QED
  BY <1>2, <1>3, <1>4, <1>5

\* Where nothing is left to be searched, every file was read.
LEMMA AllRead ==
  ASSUME v3 = {}
  PROVE  ReadFiles = Loading!SearchedFiles
BY DEF ReadFiles

\* A load begins with nothing.
LEMMA LoadInitially ==
  ASSUME Loading!Init
  PROVE  LoadInv
BY DEF Loading!Init, LoadInv, Loading!Phases, Refused, Running, Loading!None

\* A refusal, for a cause that is in the files, of what is still being loaded.
LEMMA RefuseKeeps ==
  ASSUME LoadInv, ~Loading!FilesAreSound, v2 \in {"resolve", "discover", "root", "system"},
         NEW why, why # "none", why # "output", Loading!Refuse(why),
         UNCHANGED <<v1, v3, v4, v5, v6, v7, v8>>
  PROVE  LoadInv'
<1>1. v2' = "end" /\ v9' = why /\ Refused'
  BY DEF Loading!Refuse, Refused, Loading!None
<1>2. ~Loading!FilesAreSound'
  BY SameFiles
<1>3. v6 = {} /\ v7 = <<>> /\ v8 = <<>>
  BY DEF LoadInv, Running
<1>4. Running'
  BY <1>1, <1>3 DEF Running, Loading!None
<1>5. /\ v1' \in LoadedProjects /\ v2' \in Loading!Phases
      /\ v3' \subseteq v1'.existing /\ v4' \subseteq Loading!Id
      /\ DOMAIN v5' \subseteq Loading!Id
      /\ \A id \in DOMAIN v5' : v5'[id].dir \in {0} \cup v1'.existing
  BY <1>1 DEF LoadInv, Loading!Phases
<1> QED
  BY <1>1, <1>2, <1>4, <1>5 DEF LoadInv

\* While a project is being loaded, nothing is installed.
LEMMA NotYet ==
  ASSUME LoadInv, v2 \in {"resolve", "discover", "root", "system"},
         v2' \in {"discover", "root", "system", "install"}, UNCHANGED <<v6, v7, v8, v9>>
  PROVE  Running' /\ ~Refused /\ ~Refused'
<1>1. v6 = {} /\ v7 = <<>> /\ v8 = <<>> /\ v9 = Loading!None
  BY DEF LoadInv, Running
<1> QED
  BY <1>1 DEF Running, Refused

\* The directories are resolved; the first one is read.
LEMMA ResolveKeeps ==
  ASSUME Loading!LoadAssumption, LoadInv, Loading!Resolve
  PROVE  LoadInv'
<1>1. /\ v2 = "resolve" /\ v1' = v1 /\ v1 \in LoadedProjects /\ v5 = <<>>
      /\ UNCHANGED <<v5, v6, v7, v8>>
  BY DEF LoadInv, Loading!Resolve
<1>2. CASE v1.root \cap Loading!RESERVED_COMMAND_NAMES # {}
  <2>1. ~Loading!FilesAreSound
    BY <1>2 DEF Loading!FilesAreSound
  <2>2. Loading!Refuse("reserved") /\ UNCHANGED <<v3, v4>>
    BY <1>2 DEF Loading!Resolve
  <2> QED
    BY <1>1, <2>1, <2>2, RefuseKeeps
<1>3. CASE v1.root \cap Loading!RESERVED_COMMAND_NAMES = {} /\ Loading!Missing(v1) # {}
  <2>1. PICK q \in Loading!Range(Loading!DirsOf(v1)) :
          q.exclude = FALSE /\ ~q.glob /\ ~(q.names \subseteq v1.existing)
    BY <1>3 DEF Loading!Missing, Loading!Patterns
  <2>2. ~Loading!FilesAreSound
    BY <2>1 DEF Loading!FilesAreSound
  <2>3. Loading!Refuse("missing") /\ UNCHANGED <<v3, v4>>
    BY <1>3 DEF Loading!Resolve
  <2> QED
    BY <1>1, <2>2, <2>3, RefuseKeeps
<1>4. CASE v1.root \cap Loading!RESERVED_COMMAND_NAMES = {} /\ Loading!Missing(v1) = {}
  <2> DEFINE ds == Loading!resolveDirectoryPatterns(v1)
  <2>1. Loading!Search(ds) /\ v9' = v9
    BY <1>4 DEF Loading!Resolve
  <2>2. ds \subseteq v1.existing /\ \A d : d \in ds <=> Loading!Searched(d)
    BY <1>1, DirectoriesAre, TreeIs
  <2>3. /\ v3' = ds
        /\ v2' = IF ds = {} THEN "root" ELSE "discover"
    BY <2>1 DEF Loading!Search
  <2> HIDE DEF ds
  <2>4. /\ ReadFiles' = {f \in Loading!SearchedFiles : f[1] \notin ds}
        /\ v4' \subseteq Loading!Id
        /\ ds # {} => \A id \in v4' : <<Loading!Min(v3'), id>> \in DOMAIN v1.files
    BY <1>1, <2>1, <2>2, SearchReads
  <2>5. ReadFiles' = {}
    BY <2>2, <2>4 DEF Loading!SearchedFiles
  <2>6. Searching'
    BY <1>1, <2>2, <2>3, <2>4, SameFiles DEF Searching
  <2>7. ~Rooted' /\ ~Injected'
    BY <2>3 DEF Rooted, Injected
  <2>8. EntriesAreRead'
    BY <1>1, <1>4, <2>5, <2>7, SameFiles DEF EntriesAreRead
  <2>9. Running' /\ ~Refused'
    BY <1>1, <2>1, <2>3, NotYet
  <2> QED
    BY <1>1, <2>2, <2>3, <2>4, <2>6, <2>8, <2>9 DEF LoadInv, Loading!Phases
<1> QED
  BY <1>2, <1>3, <1>4

\* The next directory.
LEMMA NextDirKeeps ==
  ASSUME Loading!LoadAssumption, LoadInv, Loading!NextDir
  PROVE  LoadInv'
<1> DEFINE ds == v3 \ {Loading!Min(v3)}
<1>1. /\ v2 = "discover" /\ v4 = {} /\ Loading!Search(ds)
      /\ UNCHANGED <<v1, v5, v6, v7, v8, v9>> /\ v1 \in LoadedProjects /\ ~Refused
      /\ ds \subseteq v1.existing
  BY DEF LoadInv, Loading!NextDir, Refused
<1>2. Searching /\ EntriesAreRead
  BY <1>1 DEF LoadInv
<1>3. /\ v3' = ds
      /\ v2' = IF ds = {} THEN "root" ELSE "discover"
  BY <1>1 DEF Loading!Search
<1>4. ReadFiles = {f \in Loading!SearchedFiles : f[1] \notin ds}
  BY <1>1 DEF ReadFiles
<1>5. \A d \in ds : Loading!Searched(d)
  BY <1>1, <1>2 DEF Searching
<1> HIDE DEF ds
<1>6. /\ ReadFiles' = {f \in Loading!SearchedFiles : f[1] \notin ds}
      /\ v4' \subseteq Loading!Id
      /\ ds # {} => \A id \in v4' : <<Loading!Min(v3'), id>> \in DOMAIN v1.files
  BY <1>1, SearchReads
<1>7. Searching'
  BY <1>1, <1>3, <1>5, <1>6, SameFiles DEF Searching
<1>8. ~Rooted /\ ~Injected /\ ~Rooted' /\ ~Injected' /\ \A id : SystemOf(id)' = SystemOf(id)
  BY <1>1, <1>3 DEF Rooted, Injected, SystemOf
<1>9. EntriesAreRead'
  BY <1>1, <1>2, <1>4, <1>6, <1>8, SameFiles DEF EntriesAreRead
<1>10. Running' /\ ~Refused'
  BY <1>1, <1>3, NotYet
<1> QED
  BY <1>1, <1>3, <1>6, <1>7, <1>9, <1>10 DEF LoadInv, Loading!Phases

\* A file is read: it becomes an entry, or is refused.
LEMMA DiscoverKeeps ==
  ASSUME Loading!LoadAssumption, LoadInv, NEW id \in Loading!Id, Loading!Discover(id)
  PROVE  LoadInv'
<1> DEFINE d == Loading!Min(v3)  f == <<d, id>>  file == v1.files[f]
           wrong == Loading!Wrong(id, file)
<1>1. /\ v2 = "discover" /\ id \in v4 /\ UNCHANGED <<v1, v3, v6, v7, v8>>
      /\ v1 \in LoadedProjects /\ ~Refused /\ v3 \subseteq v1.existing
  BY DEF LoadInv, Loading!Discover, Refused
<1>2. Searching /\ EntriesAreRead
  BY <1>1 DEF LoadInv
<1>3. d \in v3
  <2>1. v3 \in SUBSET Nat /\ v3 # {}
    BY <1>1, <1>2, TreeIs DEF Searching
  <2> QED
    BY <2>1, NextIs
<1>4. /\ f \in Loading!SearchedFiles /\ f \notin ReadFiles
      /\ f[1] = d /\ f[2] = id /\ d \in v1.existing
  BY <1>1, <1>2, <1>3 DEF Searching, Loading!SearchedFiles, ReadFiles
<1>5. ReadFiles \subseteq Loading!SearchedFiles
  BY DEF ReadFiles
<1>6. ~Rooted /\ ~Injected /\ \A x : SystemOf(x) = {}
  BY <1>1 DEF Rooted, Injected, SystemOf
<1>7. DOMAIN v5 = {h[2] : h \in ReadFiles}
  BY <1>2, <1>6 DEF EntriesAreRead
<1>8. /\ wrong # Loading!None =>
           Loading!Refuse(wrong) /\ UNCHANGED <<v4, v5>>
      /\ wrong = Loading!None =>
           /\ v5' = Loading!Registered(id, Loading!Entry(file, d))
           /\ v4' = v4 \ {id} /\ UNCHANGED <<v2, v9>>
  BY DEF Loading!Discover
<1>9. CASE wrong # Loading!None
  <2>1. \/ wrong = "reserved" /\ file.commands \cap Loading!RESERVED_COMMAND_NAMES # {}
        \/ wrong = "root dependency" /\ RootName \in file.build \cup file.runtime
        \/ wrong = "unknown manager" /\ Loading!Unknown(file) # {}
        \/ wrong = "duplicate" /\ id \in DOMAIN v5
    BY <1>9 DEF Loading!Wrong
  <2>2. ~Loading!FilesAreSound
    <3>1. CASE Loading!Bad(f)
      BY <1>4, <3>1 DEF Loading!FilesAreSound
    <3>2. CASE id \in DOMAIN v5
      <4>1. PICK h \in ReadFiles : h[2] = id
        BY <1>7, <3>2
      <4> HIDE DEF f
      <4> QED
        BY <1>4, <1>5, <4>1 DEF Loading!FilesAreSound
    <3> QED
      BY <2>1, <3>1, <3>2 DEF Loading!Bad, Loading!Unknown
  <2>3. wrong # "none" /\ wrong # "output"
    BY <2>1
  <2> HIDE DEF wrong
  <2> QED
    BY <1>1, <1>8, <1>9, <2>2, <2>3, RefuseKeeps
<1>10. CASE wrong = Loading!None
  <2>1. /\ ~Loading!Bad(f) /\ id \notin DOMAIN v5
    BY <1>10 DEF Loading!Wrong, Loading!Bad, Loading!Unknown, Loading!None
  <2>2. /\ v4' = v4 \ {id} /\ UNCHANGED <<v2, v9>>
        /\ v5' = [i \in DOMAIN v5 \cup {id} |-> IF i = id THEN EntryOf(f, {}) ELSE v5[i]]
    BY <1>8, <1>10 DEF Loading!Registered, Loading!Entry, EntryOf
  <2> HIDE DEF wrong, file
  <2>3. ReadFiles' = ReadFiles \cup {f}
    <3>1. \A h \in Loading!SearchedFiles : h \in DOMAIN v1.files /\ h \in Nat \X Loading!Id
      BY <1>1, TreeIs DEF Loading!SearchedFiles
    <3>2. \A h \in Loading!SearchedFiles : h[1] = d /\ h[2] = id => h = f
      BY <3>1
    <3>3. ReadFiles' = {h \in Loading!SearchedFiles :
                          h[1] \in v3 => h[1] = d /\ h[2] \notin v4 \ {id}}
      BY <1>1, <2>2, SameFiles DEF ReadFiles
    <3>4. ReadFiles = {h \in Loading!SearchedFiles : h[1] \in v3 => h[1] = d /\ h[2] \notin v4}
      BY DEF ReadFiles
    <3> HIDE DEF d, f
    <3> QED
      BY <1>1, <1>3, <1>4, <3>2, <3>3, <3>4
  <2>4. ~Rooted' /\ ~Injected' /\ \A x : SystemOf(x)' = {}
    BY <1>1, <2>2 DEF Rooted, Injected, SystemOf
  <2>5. Searching'
    BY <1>1, <1>2, <2>2, SameFiles DEF Searching
  <2> HIDE DEF d, f
  <2>6. EntriesAreRead'
    <3>1. \A h \in ReadFiles' : ~Loading!Bad(h)'
      BY <1>1, <1>2, <2>1, <2>3, SameFiles DEF EntriesAreRead
    <3>2. \A h, i \in ReadFiles' : h[2] = i[2] => h = i
      BY <1>2, <1>4, <1>7, <2>1, <2>3 DEF EntriesAreRead
    <3>3. DOMAIN v5' = {h[2] : h \in ReadFiles'}
      BY <1>4, <1>7, <2>2, <2>3
    <3>4. \A h \in ReadFiles' : v5'[h[2]] = EntryOf(h, {})'
      <4>1. \A h \in ReadFiles : v5[h[2]] = EntryOf(h, {}) /\ h[2] \in DOMAIN v5 /\ h[2] # id
        BY <1>2, <1>6, <1>7, <2>1 DEF EntriesAreRead
      <4>2. \A h \in ReadFiles' : h \in ReadFiles \/ h = f
        BY <2>3
      <4>3. \A h : EntryOf(h, {})' = EntryOf(h, {})
        BY <1>1, SameFiles
      <4> HIDE DEF EntryOf
      <4> QED
        BY <1>4, <2>2, <4>1, <4>2, <4>3
    <3> QED
      BY <1>1, <1>2, <2>4, <3>1, <3>2, <3>3, <3>4, SameFiles DEF EntriesAreRead
  <2>7. Running' /\ ~Refused'
    BY <1>1, <2>2, NotYet
  <2>8. v4' \subseteq Loading!Id /\ DOMAIN v5' \subseteq Loading!Id
    BY <2>2 DEF LoadInv
  <2>9. \A i \in DOMAIN v5' : v5'[i].dir \in {0} \cup v1.existing
    <3>1. EntryOf(f, {}).dir = d
      BY <1>4 DEF EntryOf
    <3> QED
      BY <1>4, <2>2, <3>1 DEF LoadInv
  <2> QED
    BY <1>1, <2>2, <2>5, <2>6, <2>7, <2>8, <2>9 DEF LoadInv, Loading!Phases
<1> QED
  BY <1>9, <1>10

\* The root is registered, unless a service has its name.
LEMMA AddRootKeeps ==
  ASSUME Loading!LoadAssumption, LoadInv, Loading!AddRoot
  PROVE  LoadInv'
<1>1. /\ v2 = "root" /\ UNCHANGED <<v1, v3, v4, v6, v7, v8>> /\ v1 \in LoadedProjects
      /\ ~Refused
  BY DEF LoadInv, Loading!AddRoot, Refused
<1>2. Searching /\ EntriesAreRead
  BY <1>1 DEF LoadInv
<1>3. v3 = {} /\ v3' = {}
  BY <1>1, <1>2 DEF Searching
<1>4. ReadFiles = Loading!SearchedFiles /\ ReadFiles' = Loading!SearchedFiles
  <2>1. ReadFiles' = Loading!SearchedFiles'
    BY <1>3 DEF ReadFiles
  <2> QED
    BY <1>1, <1>3, <2>1, AllRead, SameFiles
<1>5. ~Rooted /\ ~Injected /\ \A x : SystemOf(x) = {}
  BY <1>1 DEF Rooted, Injected, SystemOf
<1>6. DOMAIN v5 = {h[2] : h \in ReadFiles}
  BY <1>2, <1>5 DEF EntriesAreRead
<1>7. CASE v1.root # {} /\ RootName \in DOMAIN v5
  <2>1. PICK h \in ReadFiles : h[2] = RootName
    BY <1>6, <1>7
  <2>2. ~Loading!FilesAreSound
    BY <1>4, <1>7, <2>1 DEF Loading!FilesAreSound
  <2>3. Loading!Refuse("root conflict") /\ UNCHANGED v5
    BY <1>7 DEF Loading!AddRoot
  <2> QED
    BY <1>1, <2>2, <2>3, RefuseKeeps
<1>8. CASE v1.root = {} \/ RootName \notin DOMAIN v5
  <2>1. v2' = "system" /\ v9' = v9
    BY <1>8 DEF Loading!AddRoot
  <2>2. Running' /\ ~Refused'
    BY <1>1, <2>1, NotYet
  <2>3. Searching'
    BY <1>1, <1>3, <2>1 DEF Searching
  <2>4. ~Injected' /\ (Rooted' <=> v1.root # {}) /\ \A x : SystemOf(x)' = {}
    BY <1>1, <2>1 DEF Rooted, Injected, SystemOf
  <2>5. \A h \in ReadFiles : v5[h[2]] = EntryOf(h, {}) /\ h[2] \in DOMAIN v5
    BY <1>2, <1>5, <1>6 DEF EntriesAreRead
  <2>6. \A h, s : EntryOf(h, s)' = EntryOf(h, s) /\ RootWith(s)' = RootWith(s)
    BY <1>1, SameFiles
  <2>7. CASE v1.root = {}
    <3>1. v5' = v5
      BY <2>7 DEF Loading!AddRoot
    <3>2. EntriesAreRead'
      <4> HIDE DEF EntryOf, RootWith
      <4> QED
        BY <1>1, <1>2, <1>4, <1>5, <1>6, <2>4, <2>5, <2>6, <2>7, <3>1, SameFiles
           DEF EntriesAreRead
    <3> QED
      BY <1>1, <1>3, <2>1, <2>2, <2>3, <3>1, <3>2 DEF LoadInv, Loading!Phases
  <2>8. CASE v1.root # {} /\ RootName \notin DOMAIN v5
    <3>1. v5' = [i \in DOMAIN v5 \cup {RootName} |->
                   IF i = RootName THEN RootWith({}) ELSE v5[i]]
      BY <2>8 DEF Loading!AddRoot, Loading!Registered, Loading!RootEntry, RootWith
    <3>2. \A h \in ReadFiles : h[2] # RootName /\ v5'[h[2]] = EntryOf(h, {})
      BY <2>5, <2>8, <3>1
    <3>3. DOMAIN v5' = {h[2] : h \in ReadFiles} \cup {RootName} /\ v5'[RootName] = RootWith({})
      BY <1>6, <3>1
    <3>4. EntriesAreRead'
      <4> HIDE DEF EntryOf, RootWith
      <4> QED
        BY <1>1, <1>2, <1>4, <2>4, <2>6, <2>8, <3>2, <3>3, SameFiles DEF EntriesAreRead
    <3>5. DOMAIN v5' \subseteq Loading!Id
      BY <3>1 DEF LoadInv, Loading!LoadAssumption
    <3>6. \A i \in DOMAIN v5' : v5'[i].dir \in {0} \cup v1.existing
      <4>1. RootWith({}).dir = 0
        BY DEF RootWith
      <4> QED
        BY <3>1, <4>1 DEF LoadInv
    <3> QED
      BY <1>1, <1>3, <2>1, <2>2, <2>3, <3>4, <3>5, <3>6 DEF LoadInv, Loading!Phases
  <2> QED
    BY <1>8, <2>7, <2>8
<1> QED
  BY <1>7, <1>8

\* The system dependencies, if all of them are there, reach every entry.
LEMMA AddSystemKeeps ==
  ASSUME Loading!LoadAssumption, LoadInv, Loading!AddSystem
  PROVE  LoadInv'
<1>1. /\ v2 = "system" /\ UNCHANGED <<v1, v3, v4, v6, v7, v8>> /\ v1 \in LoadedProjects
      /\ ~Refused
  BY DEF LoadInv, Loading!AddSystem, Refused
<1>2. Searching /\ EntriesAreRead
  BY <1>1 DEF LoadInv
<1>3. v3 = {} /\ v3' = {}
  BY <1>1, <1>2 DEF Searching
<1>4. ReadFiles = Loading!SearchedFiles /\ ReadFiles' = Loading!SearchedFiles
  <2>1. ReadFiles' = Loading!SearchedFiles'
    BY <1>3 DEF ReadFiles
  <2> QED
    BY <1>1, <1>3, <2>1, AllRead, SameFiles
<1>5. ~Injected /\ (Rooted <=> v1.root # {}) /\ \A x : SystemOf(x) = {}
  BY <1>1 DEF Rooted, Injected, SystemOf
<1>6. CASE ~(v1.system \subseteq DOMAIN v5)
  <2>1. DOMAIN v5 = {h[2] : h \in ReadFiles} \cup (IF v1.root # {} THEN {RootName} ELSE {})
    BY <1>2, <1>5 DEF EntriesAreRead
  <2>2. ~Loading!FilesAreSound
    BY <1>4, <1>6, <2>1 DEF Loading!FilesAreSound
  <2>3. Loading!Refuse("unknown system dependency") /\ UNCHANGED v5
    BY <1>6 DEF Loading!AddSystem
  <2> QED
    BY <1>1, <2>2, <2>3, RefuseKeeps
<1>7. CASE v1.system \subseteq DOMAIN v5
  <2>1. v2' = "install" /\ v9' = v9 /\ v5' = Loading!Injected
    BY <1>7 DEF Loading!AddSystem
  <2>2. Running' /\ ~Refused'
    BY <1>1, <2>1, NotYet
  <2>3. Searching'
    BY <1>1, <1>3, <2>1 DEF Searching
  <2>4. Injected' /\ (Rooted' <=> v1.root # {}) /\ \A x : SystemOf(x)' = v1.system \ {x}
    BY <1>1, <2>1 DEF Rooted, Injected, SystemOf
  <2>5. DOMAIN v5' = DOMAIN v5
    BY <2>1 DEF Loading!Injected
  <2>6. \A i \in DOMAIN v5 : v5'[i] = [v5[i] EXCEPT !.system = @ \cup (v1.system \ {i})]
    BY <2>1 DEF Loading!Injected, Loading!Inject
  <2>7. \A h, s : [EntryOf(h, {}) EXCEPT !.system = @ \cup s] = EntryOf(h, s)
    BY DEF EntryOf
  <2>8. \A s : [RootWith({}) EXCEPT !.system = @ \cup s] = RootWith(s)
    <3>1. \A c, q, s : [[dir |-> 0, build |-> {}, runtime |-> {}, system |-> {}, commands |-> c,
                         managers |-> q] EXCEPT !.system = @ \cup s]
                       = [dir |-> 0, build |-> {}, runtime |-> {}, system |-> s, commands |-> c,
                          managers |-> q]
      OBVIOUS
    <3> QED
      BY <3>1 DEF RootWith
  <2>9. \A h, s : EntryOf(h, s)' = EntryOf(h, s) /\ RootWith(s)' = RootWith(s)
    BY <1>1, SameFiles
  <2>10. /\ \A h \in ReadFiles : v5[h[2]] = EntryOf(h, {}) /\ h[2] \in DOMAIN v5
         /\ Rooted => v5[RootName] = RootWith({}) /\ RootName \in DOMAIN v5
    BY <1>2, <1>5 DEF EntriesAreRead
  <2> HIDE DEF EntryOf, RootWith
  <2>11. \A h \in ReadFiles : v5'[h[2]] = EntryOf(h, v1.system \ {h[2]})
    BY <2>6, <2>7, <2>10
  <2>12. Rooted => v5'[RootName] = RootWith(v1.system \ {RootName})
    BY <2>6, <2>8, <2>10
  <2>13. EntriesAreRead'
    BY <1>1, <1>2, <1>4, <1>5, <1>7, <2>4, <2>5, <2>9, <2>11, <2>12, SameFiles
       DEF EntriesAreRead
  <2>14. \A i \in DOMAIN v5' : v5'[i].dir \in {0} \cup v1.existing
    <3>1. \A i \in DOMAIN v5 : v5'[i].dir = v5[i].dir
      <4> SUFFICES ASSUME NEW i \in DOMAIN v5
                   PROVE  v5'[i].dir = v5[i].dir
        OBVIOUS
      <4>1. (\E h \in ReadFiles : h[2] = i) \/ (Rooted /\ i = RootName)
        BY <1>2 DEF EntriesAreRead
      <4>2. \A h, s : EntryOf(h, s).dir = h[1]
        BY DEF EntryOf
      <4>3. \A s : RootWith(s).dir = 0
        BY DEF RootWith
      <4>4. CASE Rooted /\ i = RootName
        BY <2>10, <2>12, <4>3, <4>4
      <4>5. ASSUME NEW h \in ReadFiles, h[2] = i
            PROVE  v5'[i].dir = v5[i].dir
        <5>1. v5[i] = EntryOf(h, {}) /\ v5'[i] = EntryOf(h, v1.system \ {i})
          BY <2>10, <2>11, <4>5
        <5> QED
          BY <4>2, <5>1
      <4> QED
        BY <4>1, <4>4, <4>5
    <3> QED
      BY <2>5, <3>1 DEF LoadInv
  <2> QED
    BY <1>1, <2>1, <2>2, <2>3, <2>5, <2>13, <2>14 DEF LoadInv, Loading!Phases
<1> QED
  BY <1>6, <1>7

\* The managers of an entry are a list.
LEMMA ManagersAreLists ==
  ASSUME Loading!LoadAssumption, v1 \in LoadedProjects, EntriesAreRead, NEW id \in DOMAIN v5
  PROVE  v5[id].managers \in Seq(Loading!Range(v5[id].managers))
<1>1. CASE \E f \in ReadFiles : f[2] = id
  <2>1. PICK f \in ReadFiles : f[2] = id
    BY <1>1
  <2>2. f \in DOMAIN v1.files
    BY <2>1 DEF ReadFiles, Loading!SearchedFiles
  <2>3. v5[id] = EntryOf(f, SystemOf(id))
    BY <2>1 DEF EntriesAreRead
  <2>4. v5[id].managers = v1.files[f].managers
    BY <2>3 DEF EntryOf
  <2> QED
    BY <2>2, <2>4, TreeIs
<1>2. CASE Rooted /\ id = RootName
  <2>1. v5[id].managers = <<>>
    BY <1>2 DEF EntriesAreRead, RootWith
  <2> QED
    BY <2>1
<1> QED
  BY <1>1, <1>2 DEF EntriesAreRead

\* What is done after a project is loaded leaves what is loaded as it is.
LEMMA LoadedStays ==
  ASSUME LoadInv, ~Refused, v2 \in {"install", "installing"},
         v2' \in {"installing", "end"}, UNCHANGED <<v1, v3, v4, v5>>
  PROVE  Searching' /\ EntriesAreRead'
<1>1. Searching /\ EntriesAreRead
  BY DEF LoadInv
<1>2. Searching'
  BY <1>1 DEF Searching
<1>3. ReadFiles' = ReadFiles
  BY SameFiles DEF ReadFiles
<1>4. Injected /\ Injected' /\ (Rooted' <=> Rooted) /\ \A x : SystemOf(x)' = SystemOf(x)
  BY DEF Rooted, Injected, SystemOf
<1>5. EntriesAreRead'
  BY <1>1, <1>3, <1>4, SameFiles DEF EntriesAreRead
<1> QED
  BY <1>2, <1>5

\* An install begins with what its targets need.
LEMMA InstallKeeps ==
  ASSUME Loading!LoadAssumption, LoadInv, NEW ts \in SUBSET DOMAIN v5, Loading!Install(ts)
  PROVE  LoadInv'
<1>1. /\ v2 = "install" /\ v2' = "installing" /\ v6' = ts /\ v9' = v9
      /\ v7' = Loading!getAllPackageManagers(ts) /\ UNCHANGED <<v1, v3, v4, v5, v8>>
  BY DEF Loading!Install
<1>2. ~Refused /\ ~Refused' /\ v8 = <<>> /\ v1 \in LoadedProjects /\ DOMAIN v5 \subseteq Loading!Id
      /\ v9 = Loading!None
  BY <1>1 DEF LoadInv, Running, Refused
<1>3. Searching' /\ EntriesAreRead' /\ EntriesAreRead
  BY <1>1, <1>2, LoadedStays DEF LoadInv
<1>4. LastId \in Nat
  BY DEF Loading!LoadAssumption
<1>5. v7' \in Seq(ManagersOf(ts))
  BY <1>1, <1>2, <1>3, <1>4, ManagersAreLists, PackageManagersAre
<1>6. Managers' = ManagersOf(ts)
  BY <1>1 DEF Managers, ManagersOf
<1>7. Loading!getAllPackageManagers(v6)' = Loading!getAllPackageManagers(ts)
  <2>1. v6' = ts
    BY <1>1
  <2>2. v5' = v5
    BY <1>1
  <2> QED
    BY <2>1, <2>2 DEF Loading!getAllPackageManagers, Loading!Wanted, Loading!Seen
<1>8. <<>> \o v7' = v7'
  BY <1>5
<1>9. Running'
  BY <1>1, <1>2, <1>5, <1>6, <1>7, <1>8 DEF Running
<1> QED
  BY <1>1, <1>2, <1>3, <1>9 DEF LoadInv, Loading!Phases

\* A manager is run.
LEMMA RunOneKeeps ==
  ASSUME Loading!LoadAssumption, LoadInv, NEW code, Loading!RunOne(code)
  PROVE  LoadInv'
<1>1. /\ v2 = "installing" /\ v7 # <<>> /\ v8' = Append(v8, Head(v7)) /\ v7' = Tail(v7)
      /\ (v2' = v2 /\ v9' = v9) \/ (v2' = "end" /\ v9' = "output")
      /\ UNCHANGED <<v1, v3, v4, v5, v6>>
  BY DEF Loading!RunOne, Loading!Refuse
<1>2. ~Refused /\ ~Refused' /\ v9 = Loading!None
  BY <1>1 DEF LoadInv, Running, Refused
<1>3. Searching' /\ EntriesAreRead'
  BY <1>1, <1>2, LoadedStays
<1>4. /\ v6 \subseteq DOMAIN v5 /\ v7 \in Seq(Managers) /\ v8 \in Seq(Managers)
      /\ v8 \o v7 = Loading!getAllPackageManagers(v6)
  BY <1>1, <1>2 DEF LoadInv, Running
<1>5. Managers' = Managers
  BY <1>1 DEF Managers
<1>6. Loading!getAllPackageManagers(v6)' = Loading!getAllPackageManagers(v6)
  BY <1>1 DEF Loading!getAllPackageManagers, Loading!Wanted, Loading!Seen
<1>7. /\ v7' \in Seq(Managers) /\ v8' \in Seq(Managers) /\ v8' \o v7' = v8 \o v7
  <2> HIDE DEF Managers
  <2>1. Head(v7) \in Managers /\ Tail(v7) \in Seq(Managers)
    BY <1>1, <1>4
  <2>2. Append(v8, Head(v7)) \o Tail(v7) = v8 \o v7
    <3>1. ASSUME NEW S, NEW p \in Seq(S), NEW q \in Seq(S), q # <<>>
          PROVE  Append(p, Head(q)) \o Tail(q) = p \o q
      BY <3>1
    <3> QED
      BY <1>1, <1>4, <3>1
  <2> QED
    BY <1>1, <1>4, <2>1, <2>2
<1>8. Running'
  BY <1>1, <1>2, <1>4, <1>5, <1>6, <1>7 DEF Running, Loading!None
<1> QED
  BY <1>1, <1>2, <1>3, <1>8 DEF LoadInv, Loading!Phases

\* The install is over.
LEMMA InstalledKeeps ==
  ASSUME LoadInv, Loading!Installed
  PROVE  LoadInv'
<1>1. /\ v2 = "installing" /\ v7 = <<>> /\ v2' = "end"
      /\ UNCHANGED <<v1, v3, v4, v5, v6, v7, v8, v9>>
  BY DEF Loading!Installed
<1>2. ~Refused /\ ~Refused' /\ v9 = Loading!None
  BY <1>1 DEF LoadInv, Running, Refused
<1>3. Searching' /\ EntriesAreRead'
  BY <1>1, <1>2, LoadedStays
<1>4. Managers' = Managers
  BY <1>1 DEF Managers
<1>5. Loading!getAllPackageManagers(v6)' = Loading!getAllPackageManagers(v6)
  BY <1>1 DEF Loading!getAllPackageManagers, Loading!Wanted, Loading!Seen
<1>6. Running'
  BY <1>1, <1>2, <1>4, <1>5 DEF LoadInv, Running
<1> QED
  BY <1>1, <1>2, <1>3, <1>6 DEF LoadInv, Loading!Phases

\* Nothing happens.
LEMMA StutterKeeps ==
  ASSUME LoadInv, UNCHANGED <<v1, v2, v3, v4, v5, v6, v7, v8, v9>>
  PROVE  LoadInv'
<1>1. (Refused' <=> Refused) /\ (Searching' <=> Searching)
  BY SameFiles DEF Refused, Searching
<1>2. /\ ReadFiles' = ReadFiles /\ (Injected' <=> Injected) /\ (Rooted' <=> Rooted)
      /\ \A x : SystemOf(x)' = SystemOf(x)
  BY SameFiles DEF ReadFiles, Injected, Rooted, SystemOf
<1>3. EntriesAreRead' <=> EntriesAreRead
  BY <1>2, SameFiles DEF EntriesAreRead
<1>4. /\ Managers' = Managers
      /\ Loading!getAllPackageManagers(v6)' = Loading!getAllPackageManagers(v6)
  BY DEF Managers, Loading!getAllPackageManagers, Loading!Wanted, Loading!Seen
<1>5. Running' <=> Running
  BY <1>1, <1>4 DEF Running
<1> QED
  BY <1>1, <1>3, <1>5, SameFiles DEF LoadInv

-----------------------------------------------------------------------------
(* What a loaded project can rely on. *)

\* What an install runs is one manager for each lockfile of its targets.
LEMMA InstallsOnce ==
  ASSUME Loading!LoadAssumption, LoadInv
  PROVE  Loading!OnePerLockfile
<1>1. CASE v8 = <<>> /\ ~(v2 = "end" /\ v9 = Loading!None)
  <2>1. DOMAIN v8 = {}
    BY <1>1
  <2> QED
    BY <1>1, <2>1 DEF Loading!OnePerLockfile
<1>2. CASE v2 \in {"installing", "end"} /\ ~Refused
  <2>1. /\ v6 \subseteq DOMAIN v5 /\ v7 \in Seq(Managers) /\ v8 \in Seq(Managers)
        /\ v8 \o v7 = Loading!getAllPackageManagers(v6)
        /\ v2 = "end" /\ v9 = Loading!None => v7 = <<>>
    BY <1>2 DEF LoadInv, Running
  <2>2. v6 \in SUBSET Loading!Id /\ LastId \in Nat
    BY <2>1 DEF LoadInv, Loading!LoadAssumption
  <2>3. \A id \in v6 : v5[id].managers \in Seq(Loading!Range(v5[id].managers))
    BY <1>2, <2>1, ManagersAreLists DEF LoadInv
  <2> DEFINE q == Loading!getAllPackageManagers(v6)
  <2>4. /\ \A i, j \in 1 .. Len(q) : q[i].lockfile = q[j].lockfile => i = j
        /\ \A m \in ManagersOf(v6) : \E i \in 1 .. Len(q) : q[i].lockfile = m.lockfile
    BY <2>2, <2>3, PackageManagersAre
  <2>5. q = v8 \o v7 /\ ManagersOf(v6) = Managers
    BY <2>1 DEF ManagersOf, Managers
  <2> HIDE DEF q
  <2>6. /\ DOMAIN v8 = 1 .. Len(v8) /\ Len(v8) \in Nat /\ Len(v7) \in Nat
        /\ Len(q) = Len(v8) + Len(v7) /\ \A i \in 1 .. Len(v8) : q[i] = v8[i]
        /\ \A i \in 1 .. Len(v8) : v8[i] \in Managers
    <3> HIDE DEF Managers
    <3> QED
      BY <2>1, <2>5
  <2>7. \A i, j \in DOMAIN v8 : v8[i].lockfile = v8[j].lockfile => i = j
    BY <2>4, <2>6
  <2>8. \A i \in DOMAIN v8 : \E id \in v6 : v8[i] \in Loading!Range(v5[id].managers)
    BY <2>6 DEF Managers
  <2>9. ASSUME v2 = "end", v9 = Loading!None, NEW id \in v6,
               NEW m \in Loading!Range(v5[id].managers)
        PROVE  \E i \in DOMAIN v8 : v8[i].lockfile = m.lockfile
    <3>1. Len(v7) = 0
      BY <2>1, <2>9
    <3>2. m \in Managers
      BY <2>9 DEF Managers
    <3>3. PICK i \in 1 .. Len(q) : q[i].lockfile = m.lockfile
      BY <2>4, <2>5, <3>2
    <3> QED
      BY <2>6, <3>1, <3>3
  <2> QED
    BY <2>7, <2>8, <2>9 DEF Loading!OnePerLockfile
<1> QED
  BY <1>1, <1>2 DEF LoadInv, Running, Refused

\* What is invariant of a load is well typed.
LEMMA LoadTypeOK ==
  ASSUME LoadInv
  PROVE  Loading!TypeOK
<1>1. v6 \subseteq DOMAIN v5
  BY DEF LoadInv, Running
<1>2. Loading!Range(v8) \cup Loading!Range(v7) \subseteq Managers
  <2>1. v7 \in Seq(Managers) /\ v8 \in Seq(Managers)
    <3>1. <<>> \in Seq(Managers)
      OBVIOUS
    <3> HIDE DEF Managers
    <3> QED
      BY <3>1 DEF LoadInv, Running
  <2> HIDE DEF Managers
  <2>2. /\ \A i \in DOMAIN v7 : v7[i] \in Managers
        /\ \A i \in DOMAIN v8 : v8[i] \in Managers
    BY <2>1
  <2> QED
    BY <2>2 DEF Loading!Range
<1> QED
  BY <1>1, <1>2 DEF LoadInv, Loading!TypeOK, Managers

\* A project that is loaded has the entries its files make, and no others.
LEMMA LoadedIs ==
  ASSUME LoadInv, Loading!Loaded
  PROVE  /\ v3 = {} /\ EntriesAreRead /\ ReadFiles = Loading!SearchedFiles /\ Injected
         /\ \A x : SystemOf(x) = v1.system \ {x}
         /\ Rooted <=> v1.root # {}
<1>1. v2 \in {"install", "installing", "end"} /\ ~Refused
  BY DEF Loading!Loaded, Refused
<1>2. Searching /\ EntriesAreRead /\ v3 = {}
  BY <1>1 DEF LoadInv, Searching
<1> QED
  BY <1>1, <1>2, AllRead DEF Injected, SystemOf, Rooted

\* The properties of a loaded project.
LEMMA LoadIsSound ==
  ASSUME Loading!LoadAssumption, LoadInv
  PROVE  /\ Loading!EntriesAreTheFiles /\ Loading!NobodyNeedsTheRoot
         /\ Loading!SystemReachesAll /\ Loading!RefusedForCause
<1>1. ASSUME Loading!Loaded
      PROVE  /\ \A f \in Loading!SearchedFiles :
                  f[2] \in DOMAIN v5 /\ v5[f[2]] = EntryOf(f, v1.system \ {f[2]})
             /\ \A id \in DOMAIN v5 :
                  \/ \E f \in Loading!SearchedFiles : f[2] = id
                  \/ id = RootName /\ v1.root # {}
                     /\ v5[id] = RootWith(v1.system \ {RootName})
             /\ v1.system \subseteq DOMAIN v5
             /\ \A f \in Loading!SearchedFiles : ~Loading!Bad(f)
  <2> HIDE DEF EntryOf, RootWith
  <2>1. DOMAIN v5 = {f[2] : f \in Loading!SearchedFiles} \cup (IF Rooted THEN {RootName} ELSE {})
    BY <1>1, LoadedIs DEF EntriesAreRead
  <2> QED
    BY <1>1, <2>1, LoadedIs DEF EntriesAreRead
<1>2. \A f, s : EntryOf(f, s).dir = f[1] /\ EntryOf(f, s).system = s
             /\ EntryOf(f, s).build = v1.files[f].build
             /\ EntryOf(f, s).runtime = v1.files[f].runtime
  BY DEF EntryOf
<1>3. \A s : RootWith(s).dir = 0 /\ RootWith(s).system = s /\ RootWith(s).build = {}
             /\ RootWith(s).runtime = {}
  BY DEF RootWith
<1>4. \A f \in Loading!SearchedFiles :
        f \in DOMAIN v1.files /\ f = <<f[1], f[2]>> /\ f[1] # 0 /\ Loading!Searched(f[1])
  <2> TAKE f \in Loading!SearchedFiles
  <2>1. f \in DOMAIN v1.files /\ Loading!Searched(f[1])
    BY DEF Loading!SearchedFiles
  <2>2. v1 \in LoadedProjects
    BY DEF LoadInv
  <2>3. f \in Nat \X Loading!Id /\ v1.existing \subseteq Nat \ {0}
    BY <2>1, <2>2, TreeIs
  <2>4. f[1] \in v1.existing
    BY <2>1 DEF Loading!Searched
  <2> QED
    BY <2>1, <2>3, <2>4
<1> HIDE DEF EntryOf, RootWith
<1>5. Loading!EntriesAreTheFiles
  <2> SUFFICES ASSUME Loading!Loaded
               PROVE  /\ \A f \in DOMAIN v1.files : Loading!Searched(f[1]) =>
                           f[2] \in DOMAIN v5 /\ v5[f[2]].dir = f[1]
                      /\ \A id \in DOMAIN v5 :
                           IF v5[id].dir = 0 THEN id = RootName /\ v1.root # {}
                           ELSE /\ <<v5[id].dir, id>> \in DOMAIN v1.files
                                /\ Loading!Searched(v5[id].dir)
    BY DEF Loading!EntriesAreTheFiles
  <2>1. \A f \in DOMAIN v1.files : Loading!Searched(f[1]) => f \in Loading!SearchedFiles
    BY DEF Loading!SearchedFiles
  <2>2. ASSUME NEW id \in DOMAIN v5
        PROVE  IF v5[id].dir = 0 THEN id = RootName /\ v1.root # {}
               ELSE <<v5[id].dir, id>> \in DOMAIN v1.files /\ Loading!Searched(v5[id].dir)
    <3>1. CASE \E f \in Loading!SearchedFiles : f[2] = id
      <4>1. PICK f \in Loading!SearchedFiles : f[2] = id
        BY <3>1
      <4>2. v5[id] = EntryOf(f, v1.system \ {id})
        BY <1>1, <4>1
      <4>3. v5[id].dir = f[1]
        BY <1>2, <4>2
      <4> QED
        BY <1>4, <4>1, <4>3
    <3>2. CASE id = RootName /\ v1.root # {} /\ v5[id] = RootWith(v1.system \ {RootName})
      BY <1>3, <3>2
    <3> QED
      BY <1>1, <3>1, <3>2
  <2>3. ASSUME NEW f \in DOMAIN v1.files, Loading!Searched(f[1])
        PROVE  f[2] \in DOMAIN v5 /\ v5[f[2]].dir = f[1]
    <3>1. f[2] \in DOMAIN v5 /\ v5[f[2]] = EntryOf(f, v1.system \ {f[2]})
      BY <1>1, <2>1, <2>3
    <3> QED
      BY <1>2, <3>1
  <2> QED
    BY <2>2, <2>3
<1>6. ASSUME Loading!Loaded, NEW id \in DOMAIN v5
      PROVE  /\ RootName \notin v5[id].build \cup v5[id].runtime
             /\ v5[id].system = v1.system \ {id}
             /\ v1.system \subseteq DOMAIN v5
  <2>1. ASSUME NEW f \in Loading!SearchedFiles, f[2] = id
        PROVE  /\ RootName \notin v5[id].build \cup v5[id].runtime
               /\ v5[id].system = v1.system \ {id}
    <3>1. v5[id] = EntryOf(f, v1.system \ {id})
      BY <1>1, <1>6, <2>1
    <3>2. RootName \notin v1.files[f].build \cup v1.files[f].runtime
      BY <1>1, <1>6 DEF Loading!Bad
    <3> QED
      BY <1>2, <3>1, <3>2
  <2>2. ASSUME id = RootName, v5[id] = RootWith(v1.system \ {RootName})
        PROVE  /\ RootName \notin v5[id].build \cup v5[id].runtime
               /\ v5[id].system = v1.system \ {id}
    BY <1>3, <2>2
  <2> QED
    BY <1>1, <1>6, <2>1, <2>2
<1>7. Loading!NobodyNeedsTheRoot
  BY <1>6 DEF Loading!NobodyNeedsTheRoot
<1>8. Loading!SystemReachesAll
  BY <1>6 DEF Loading!SystemReachesAll
<1>9. v2 = "install" => Loading!FilesAreSound
  <2> SUFFICES ASSUME v2 = "install" PROVE Loading!FilesAreSound
    OBVIOUS
  <2>1. Loading!Loaded
    BY DEF Loading!Loaded
  <2>2. v1 \in LoadedProjects
    BY DEF LoadInv
  <2>3. \A q \in Loading!Range(Loading!DirsOf(v1)) :
          ~q.exclude /\ ~q.glob => q.names \subseteq v1.existing
    <3>1. \A q \in Loading!Range(Loading!DirsOf(v1)) : ~q.exclude => q.exclude = FALSE
      BY <2>2, TreeIs
    <3>2. Loading!Missing(v1) = {}
      BY <2>1, LoadedIs DEF EntriesAreRead
    <3> QED
      BY <3>1, <3>2 DEF Loading!Missing, Loading!Patterns
  <2>4. EntriesAreRead /\ ReadFiles = Loading!SearchedFiles /\ (Rooted <=> v1.root # {})
    BY <2>1, LoadedIs
  <2>5. Injected
    BY DEF Injected
  <2>6. v1.system \subseteq {f[2] : f \in Loading!SearchedFiles}
                             \cup (IF v1.root # {} THEN {RootName} ELSE {})
    BY <2>4, <2>5 DEF EntriesAreRead
  <2> QED
    BY <2>3, <2>4, <2>6 DEF EntriesAreRead, Loading!FilesAreSound
<1>10. Loading!RefusedForCause
  BY <1>9 DEF Loading!RefusedForCause, Loading!Loaded, LoadInv, Refused
<1> QED
  BY <1>5, <1>7, <1>8, <1>10

-----------------------------------------------------------------------------
(* What a project whose plugins were loaded can rely on. *)

\* Plugins are numbered as they were declared.
LEMMA RefsAreNumbered ==
  ASSUME NEW x, Plugins!RegistryAssumption(x)
  PROVE  DOMAIN x.refs \subseteq Nat
<1> DEFINE q == x.refs
<1>1. q \in Seq(Plugins!Range(q))
  BY DEF Plugins!RegistryAssumption
<1> HIDE DEF q
<1>2. DOMAIN q \subseteq Nat
  BY <1>1
<1> QED
  BY <1>2 DEF q

\* Plugins that were loaded have names of their own.
LEMMA PluginsAreNamed ==
  ASSUME NEW x, Plugins!RegistryAssumption(x)
  PROVE  Plugins!OneOfAName(x)
<1> SUFFICES ASSUME Plugins!loadPlugins(x), NEW i \in DOMAIN x.refs, NEW j \in DOMAIN x.refs,
                    x.refs[i].name = x.refs[j].name
             PROVE  i = j
  BY DEF Plugins!OneOfAName
<1>1. i \in Nat /\ j \in Nat
  BY RefsAreNumbered
<1>2. x.refs # <<>>
  OBVIOUS
<1>3. ~(i < j) /\ ~(j < i)
  BY <1>2 DEF Plugins!loadPlugins, Plugins!PairsFit
<1> QED
  BY <1>1, <1>3

\* Of two that build, one was refused.
LEMMA BuildersAreOne ==
  ASSUME NEW x, Plugins!RegistryAssumption(x)
  PROVE  Plugins!OneBuilder(x)
<1> SUFFICES ASSUME Plugins!loadPlugins(x), NEW i \in DOMAIN x.refs, NEW j \in DOMAIN x.refs,
                    "build" \in x.refs[i].overrides \cap x.refs[j].overrides
             PROVE  i = j
  BY DEF Plugins!OneBuilder
<1>1. i \in Nat /\ j \in Nat
  BY RefsAreNumbered
<1>2. x.refs # <<>>
  OBVIOUS
<1>3. "build" \notin Plugins!RUNTIME_DISPATCHED_HOOKS
  BY DEF Plugins!RUNTIME_DISPATCHED_HOOKS
<1>4. ~(i < j) /\ ~(j < i)
  BY <1>2, <1>3 DEF Plugins!loadPlugins, Plugins!PairsFit
<1> QED
  BY <1>1, <1>4

\* A runtime of the map is dispatched to the plugin it names.
LEMMA RuntimesAreDispatched ==
  ASSUME NEW x, Plugins!RegistryAssumption(x)
  PROVE  Plugins!RuntimeIsDispatched(x)
<1> SUFFICES ASSUME Plugins!loadPlugins(x), x.refs # <<>>,
                    NEW r \in {Plugins!None} \cup DOMAIN x.runtimes,
                    NEW hook \in Plugins!RUNTIME_DISPATCHED_HOOKS,
                    Plugins!resolveRuntimePlugin(x, r) # Plugins!None
             PROVE  LET plugin == Plugins!resolveRuntimePlugin(x, r)
                        owner == Plugins!getOverride(x.refs, hook, plugin)
                    IN  /\ plugin \in Plugins!Names(x.refs)
                        /\ owner \in {plugin, Plugins!Throws}
                        /\ owner = plugin <=>
                             \E i \in DOMAIN x.refs :
                               x.refs[i].name = plugin /\ hook \in x.refs[i].overrides
  BY DEF Plugins!RuntimeIsDispatched
<1> DEFINE plugin == Plugins!resolveRuntimePlugin(x, r)
           owner == Plugins!getOverride(x.refs, hook, plugin)
<1>1. x.runtimes # Plugins!NoRuntimes
  <2> SUFFICES ASSUME x.runtimes = <<>> PROVE FALSE
    BY DEF Plugins!NoRuntimes
  <2>1. r = Plugins!None
    OBVIOUS
  <2> QED
    BY <2>1 DEF Plugins!resolveRuntimePlugin, Plugins!NoRuntimes
<1>2. PICK name \in DOMAIN x.runtimes : plugin = x.runtimes[name]
  BY <1>1 DEF Plugins!resolveRuntimePlugin, Plugins!RegistryAssumption
<1>3. plugin \in Plugins!Names(x.refs)
  BY <1>1, <1>2 DEF Plugins!loadPlugins, Plugins!RuntimesFit
<1>4. plugin # Plugins!Throws /\ plugin # Plugins!None
  BY <1>3 DEF Plugins!RegistryAssumption
<1> HIDE DEF plugin
<1>5. owner = IF \E i \in DOMAIN x.refs : x.refs[i].name = plugin /\ hook \in x.refs[i].overrides
              THEN plugin ELSE Plugins!Throws
  BY <1>4 DEF Plugins!getOverride
<1> QED
  BY <1>3, <1>4, <1>5 DEF plugin

-----------------------------------------------------------------------------
(* The staging of a context. *)

\* A closure is walked round by round.
LEMMA ClosureUnfolds ==
  ASSUME NEW S, NEW nodes, NEW next, IsFiniteSet(nodes)
  PROVE  \E u : /\ u[0] = S /\ Staged!Closure(S, nodes, next) = u[Cardinality(nodes)]
                /\ \A k \in 0 .. Cardinality(nodes) - 1 :
                     u[k + 1] = u[k] \cup UNION {next[n] : n \in u[k] \cap nodes}
<1> DEFINE N == Cardinality(nodes)
           Add(x) == x \cup UNION {next[n] : n \in x \cap nodes}
           Body(h, m) == [k \in 0 .. m |-> IF k = 0 THEN S ELSE Add(h[k - 1])]
           E == {m \in Nat : \E h : h = Body(h, m)}
           R == CHOOSE h : h = Body(h, N)
<1>1. N \in Nat
  BY FS_CardinalityType
<1>2. Staged!Closure(S, nodes, next) = R[N]
  BY DEF Staged!Closure, Staged!Cardinality, Cardinality
<1> HIDE DEF Add, N
<1>3. R = Body(R, N)
  <2>1. 0 \in E
    <3>1. Body([k \in 0 .. 0 |-> S], 0) = [k \in 0 .. 0 |-> S]
      OBVIOUS
    <3> QED
      BY <3>1
  <2>2. ASSUME NEW m \in Nat, m \in E
        PROVE  m + 1 \in E
    <3>1. PICK h : h = Body(h, m)
      BY <2>2
    <3> DEFINE i == [k \in 0 .. m + 1 |-> IF k <= m THEN h[k] ELSE Add(h[m])]
    <3>2. i = Body(i, m + 1)
      BY <3>1
    <3> HIDE DEF i, Body
    <3>3. \E f : f = Body(f, m + 1)
      BY <3>2
    <3> QED
      BY <3>3
  <2>3. N \in E
    BY <1>1, <2>1, <2>2, SetInduction
  <2> QED
    BY <2>3
<1> HIDE DEF R
<1>4. R[0] = S
  BY <1>1, <1>3
<1>5. ASSUME NEW k \in 0 .. N - 1
      PROVE  R[k + 1] = Add(R[k])
  <2>1. k + 1 \in 0 .. N /\ k + 1 # 0 /\ (k + 1) - 1 = k
    BY <1>1
  <2> QED
    BY <1>3, <2>1
<1> QED
  BY <1>2, <1>4, <1>5 DEF Add, N

\* After as many rounds as there are nodes the walk has come to an end: each
\* round that does not end it reaches a node.
LEMMA ClosureIs ==
  ASSUME NEW S, NEW nodes, NEW next, IsFiniteSet(nodes)
  PROVE  LET C == Staged!Closure(S, nodes, next)
         IN  /\ S \subseteq C
             /\ \A n \in C \cap nodes : next[n] \subseteq C
             /\ \A U : S \subseteq U /\ (\A n \in U \cap nodes : next[n] \subseteq U)
                       => C \subseteq U
<1> DEFINE N == Cardinality(nodes)
<1>1. N \in Nat
  BY FS_CardinalityType
<1>2. PICK u : /\ u[0] = S /\ Staged!Closure(S, nodes, next) = u[N]
               /\ \A k \in 0 .. N - 1 :
                    u[k + 1] = u[k] \cup UNION {next[n] : n \in u[k] \cap nodes}
  BY ClosureUnfolds
<1> DEFINE Ended(k) == \A n \in u[k] \cap nodes : next[n] \subseteq u[k]
           T == {k \in 0 .. N : /\ S \subseteq u[k]
                                /\ Ended(k) \/ Cardinality(u[k] \cap nodes) >= k + 1}
<1>3. \A k \in 0 .. N : /\ IsFiniteSet(u[k] \cap nodes) /\ Cardinality(u[k] \cap nodes) \in Nat
                        /\ Cardinality(u[k] \cap nodes) <= N
  <2> TAKE k \in 0 .. N
  <2>1. u[k] \cap nodes \subseteq nodes
    OBVIOUS
  <2> QED
    BY <2>1, FS_Subset, FS_CardinalityType
<1>4. 0 \in T
  <2>1. CASE u[0] \cap nodes = {}
    BY <1>1, <1>2, <2>1
  <2>2. CASE u[0] \cap nodes # {}
    <3>1. Cardinality(u[0] \cap nodes) # 0
      BY <1>1, <1>3, <2>2, FS_EmptySet
    <3>2. 0 \in 0 .. N /\ Cardinality(u[0] \cap nodes) \in Nat
      BY <1>1, <1>3
    <3> DEFINE c == Cardinality(u[0] \cap nodes)
    <3>3. c >= 0 + 1
      <4> HIDE DEF c
      <4>1. c \in Nat /\ c # 0
        BY <3>1, <3>2 DEF c
      <4> QED
        BY <4>1
    <3> HIDE DEF N
    <3> QED
      BY <1>2, <3>2, <3>3
  <2> QED
    BY <2>1, <2>2
<1>5. ASSUME NEW k \in 0 .. N - 1, k \in T
      PROVE  k + 1 \in T
  <2>1. /\ k \in 0 .. N /\ k + 1 \in 0 .. N /\ k \in Nat
        /\ u[k + 1] = u[k] \cup UNION {next[n] : n \in u[k] \cap nodes}
        /\ S \subseteq u[k + 1]
    BY <1>1, <1>2, <1>5
  <2>2. CASE Ended(k)
    <3>1. u[k + 1] = u[k]
      BY <2>1, <2>2
    <3> QED
      BY <2>1, <2>2, <3>1
  <2>3. CASE u[k + 1] \cap nodes = u[k] \cap nodes
    <3>1. Ended(k + 1)
      BY <2>1, <2>3
    <3> QED
      BY <2>1, <3>1
  <2>4. CASE ~Ended(k) /\ u[k + 1] \cap nodes # u[k] \cap nodes
    <3> DEFINE V == u[k] \cap nodes  W == u[k + 1] \cap nodes
    <3>1. Cardinality(V) >= k + 1
      BY <1>5, <2>4
    <3>2. V \subseteq W /\ V # W
      BY <2>1, <2>4
    <3>3. IsFiniteSet(V) /\ IsFiniteSet(W) /\ Cardinality(V) \in Nat /\ Cardinality(W) \in Nat
      BY <1>3, <2>1
    <3> HIDE DEF V, W
    <3>4. Cardinality(V) < Cardinality(W)
      BY <3>2, <3>3, FS_Subset
    <3>5. Cardinality(W) >= (k + 1) + 1
      BY <2>1, <3>1, <3>3, <3>4
    <3> QED
      BY <2>1, <3>5 DEF W
  <2> QED
    BY <2>2, <2>3, <2>4
<1>6. N \in T
  <2> HIDE DEF T, N
  <2>1. 0 .. N \subseteq T
    BY <1>1, <1>4, <1>5, BoundedInduction
  <2> QED
    BY <1>1, <2>1
<1>7. S \subseteq u[N] /\ Ended(N)
  BY <1>1, <1>3, <1>6
<1>8. ASSUME NEW U, S \subseteq U, \A n \in U \cap nodes : next[n] \subseteq U
      PROVE  u[N] \subseteq U
  <2> DEFINE Z == {k \in 0 .. N : u[k] \subseteq U}
  <2>1. 0 \in Z
    BY <1>1, <1>2, <1>8
  <2>2. ASSUME NEW k \in 0 .. N - 1, k \in Z
        PROVE  k + 1 \in Z
    <3>1. k + 1 \in 0 .. N /\ u[k + 1] = u[k] \cup UNION {next[n] : n \in u[k] \cap nodes}
      BY <1>1, <1>2
    <3> QED
      BY <1>8, <2>2, <3>1
  <2> HIDE DEF Z, N
  <2>3. 0 .. N \subseteq Z
    BY <1>1, <2>1, <2>2, BoundedInduction
  <2> QED
    BY <1>1, <2>3 DEF Z
<1> QED
  BY <1>2, <1>7, <1>8

\* The package managers of a set are in their list as they are declared.
LEMMA DeclaredUnfolds ==
  ASSUME NEW S, Len(v1.pms) \in Nat
  PROVE  \E u : /\ u[0] = <<>> /\ Staged!Declared(S) = u[Len(v1.pms)]
                /\ \A k \in 0 .. Len(v1.pms) - 1 :
                     u[k + 1] = IF v1.pms[k + 1] \in S THEN Append(u[k], v1.pms[k + 1]) ELSE u[k]
<1> DEFINE N == Len(v1.pms)
           Add(x, k) == IF v1.pms[k] \in S THEN Append(x, v1.pms[k]) ELSE x
           Body(h, m) == [k \in 0 .. m |-> IF k = 0 THEN <<>> ELSE Add(h[k - 1], k)]
           E == {m \in Nat : \E h : h = Body(h, m)}
           R == CHOOSE h : h = Body(h, N)
<1>1. Staged!Declared(S) = R[N]
  BY DEF Staged!Declared
<1> HIDE DEF Add, N
<1>2. N \in Nat
  BY DEF N
<1>3. R = Body(R, N)
  <2>1. 0 \in E
    <3>1. Body([k \in 0 .. 0 |-> <<>>], 0) = [k \in 0 .. 0 |-> <<>>]
      OBVIOUS
    <3> QED
      BY <3>1
  <2>2. ASSUME NEW m \in Nat, m \in E
        PROVE  m + 1 \in E
    <3>1. PICK h : h = Body(h, m)
      BY <2>2
    <3> DEFINE i == [k \in 0 .. m + 1 |-> IF k <= m THEN h[k] ELSE Add(h[m], m + 1)]
    <3>2. i = Body(i, m + 1)
      BY <3>1
    <3> HIDE DEF i, Body
    <3>3. \E f : f = Body(f, m + 1)
      BY <3>2
    <3> QED
      BY <3>3
  <2>3. N \in E
    BY <1>2, <2>1, <2>2, SetInduction
  <2> QED
    BY <2>3
<1> HIDE DEF R
<1>4. R[0] = <<>>
  BY <1>2, <1>3
<1>5. ASSUME NEW k \in 0 .. N - 1
      PROVE  R[k + 1] = Add(R[k], k + 1)
  <2>1. k + 1 \in 0 .. N /\ k + 1 # 0 /\ (k + 1) - 1 = k
    BY <1>2
  <2> QED
    BY <1>3, <2>1
<1> QED
  BY <1>1, <1>4, <1>5 DEF Add, N

\* It lists those of the set, each of them, and nothing else.
LEMMA DeclaredIs ==
  ASSUME NEW S, v1.pms \in Seq(Staged!ToSet(v1.pms))
  PROVE  LET q == Staged!Declared(S)
         IN  /\ q \in Seq(Staged!ToSet(v1.pms) \cap S)
             /\ \A m \in Staged!ToSet(v1.pms) \cap S : \E i \in 1 .. Len(q) : q[i] = m
<1> DEFINE W == v1.pms  M == Staged!ToSet(v1.pms) \cap S  Q == Staged!Declared(S)
<1>1. Len(W) \in Nat /\ DOMAIN W = 1 .. Len(W)
  <2> HIDE DEF W
  <2>1. W \in Seq(Staged!ToSet(v1.pms))
    BY DEF W
  <2> QED
    BY <2>1
<1>2. PICK u : /\ u[0] = <<>> /\ Q = u[Len(W)]
               /\ \A k \in 0 .. Len(W) - 1 :
                    u[k + 1] = IF W[k + 1] \in S THEN Append(u[k], W[k + 1]) ELSE u[k]
  BY <1>1, DeclaredUnfolds
<1>3. \A m : m \in M <=> m \in S /\ \E i \in 1 .. Len(W) : W[i] = m
  BY <1>1 DEF Staged!ToSet
<1> HIDE DEF W, M, Q
<1> DEFINE Has(q, m) == \E i \in 1 .. Len(q) : q[i] = m
           Holds(k) == u[k] \in Seq(M) /\ \A i \in 1 .. k : W[i] \in S => Has(u[k], W[i])
           Z == {k \in 0 .. Len(W) : Holds(k)}
<1>4. 0 \in Z
  <2>1. u[0] = <<>> /\ <<>> \in Seq(M)
    BY <1>2
  <2>2. 1 .. 0 = {}
    OBVIOUS
  <2>3. Holds(0)
    BY <2>1, <2>2
  <2> HIDE DEF Holds
  <2> QED
    BY <1>1, <2>3
<1>5. ASSUME NEW k \in 0 .. Len(W) - 1, k \in Z
      PROVE  k + 1 \in Z
  <2> DEFINE m == W[k + 1]  q == u[k]
  <2>1. k + 1 \in 0 .. Len(W) /\ k + 1 \in 1 .. Len(W) /\ Holds(k) /\ q \in Seq(M)
    BY <1>1, <1>5
  <2>2. \A i \in 1 .. k + 1 : i \in 1 .. k \/ i = k + 1
    OBVIOUS
  <2>3. CASE m \notin S
    <3>1. u[k + 1] = q
      BY <1>2, <2>3
    <3> HIDE DEF Has
    <3> QED
      BY <2>1, <2>2, <2>3, <3>1
  <2>4. CASE m \in S
    <3>1. u[k + 1] = Append(q, m) /\ m \in M
      BY <1>2, <1>3, <2>1, <2>4
    <3>2. Len(q) \in Nat
      BY <2>1
    <3> HIDE DEF q, m
    <3>3. /\ Append(q, m) \in Seq(M) /\ Len(Append(q, m)) = Len(q) + 1
          /\ \A i \in 1 .. Len(q) : Append(q, m)[i] = q[i]
          /\ Append(q, m)[Len(q) + 1] = m
      BY <2>1, <3>1 DEF q
    <3>4. \A x : Has(q, x) => Has(Append(q, m), x)
      BY <3>2, <3>3
    <3>5. Has(Append(q, m), m)
      BY <3>2, <3>3
    <3> HIDE DEF Has
    <3> QED
      BY <2>1, <2>2, <3>1, <3>3, <3>4, <3>5 DEF q, m
  <2> QED
    BY <2>3, <2>4
<1>6. Len(W) \in Z
  <2> HIDE DEF Z
  <2>1. 0 .. Len(W) \subseteq Z
    BY <1>1, <1>4, <1>5, BoundedInduction
  <2> QED
    BY <1>1, <2>1
<1>7. Q \in Seq(M) /\ \A m \in M : Has(Q, m)
  <2>1. u[Len(W)] = Q /\ Holds(Len(W))
    BY <1>2, <1>6
  <2> HIDE DEF Has
  <2> QED
    BY <1>3, <2>1
<1> QED
  BY <1>7 DEF Q, M

\* What is put behind a sequence leaves it as it is.
LEMMA Behind ==
  ASSUME NEW T, NEW x \in Seq(T), NEW y \in Seq(T)
  PROVE  /\ x \o y \in Seq(T) /\ Len(x \o y) = Len(x) + Len(y)
         /\ \A i \in 1 .. Len(x) : (x \o y)[i] = x[i]
         /\ \A i \in 1 .. Len(y) : (x \o y)[Len(x) + i] = y[i]
<1>1. Len(x) \in Nat /\ Len(y) \in Nat
  OBVIOUS
<1>2. /\ x \o y \in Seq(T) /\ Len(x \o y) = Len(x) + Len(y)
      /\ \A i \in 1 .. Len(x) + Len(y) : (x \o y)[i] = IF i <= Len(x) THEN x[i] ELSE y[i - Len(x)]
  BY ConcatProperties
<1> DEFINE z == x \o y  m == Len(x)  n == Len(y)
<1> HIDE DEF z, m, n
<1>3. \A i \in 1 .. m + n : z[i] = IF i <= m THEN x[i] ELSE y[i - m]
  BY <1>2 DEF z, m, n
<1>4. m \in Nat /\ n \in Nat
  BY <1>1 DEF m, n
<1>5. \A i \in 1 .. m : z[i] = x[i]
  BY <1>3, <1>4
<1>6. ASSUME NEW i \in 1 .. n
      PROVE  z[m + i] = y[i]
  <2>1. m + i \in 1 .. m + n /\ ~(m + i <= m) /\ (m + i) - m = i
    BY <1>4
  <2> QED
    BY <1>3, <2>1
<1> QED
  BY <1>2, <1>5, <1>6 DEF z, m, n

\* So does a single element.
LEMMA OneBehind ==
  ASSUME NEW T, NEW x \in Seq(T), NEW c \in T
  PROVE  /\ x \o <<c>> \in Seq(T) /\ Len(x \o <<c>>) = Len(x) + 1
         /\ \A i \in 1 .. Len(x) : (x \o <<c>>)[i] = x[i]
         /\ (x \o <<c>>)[Len(x) + 1] = c
<1> DEFINE y == <<c>>
<1>1. y \in Seq(T) /\ Len(y) = 1 /\ y[1] = c
  OBVIOUS
<1> HIDE DEF y
<1>2. /\ x \o y \in Seq(T) /\ Len(x \o y) = Len(x) + Len(y)
      /\ \A i \in 1 .. Len(x) : (x \o y)[i] = x[i]
      /\ \A i \in 1 .. Len(y) : (x \o y)[Len(x) + i] = y[i]
  BY <1>1, Behind
<1>3. 1 \in 1 .. Len(y)
  BY <1>1
<1>4. (x \o y)[Len(x) + 1] = c
  BY <1>1, <1>2, <1>3
<1> QED
  BY <1>1, <1>2, <1>4 DEF y

\* Three layers with layers before, between and behind them, and where each is.
Laid(B, a, e, c, q, d, p) ==
  /\ DOMAIN B = 1 .. (Len(e) + Len(q) + Len(p) + 3)
  /\ B[1] = a
  /\ \A i \in 1 .. Len(e) : B[1 + i] = e[i]
  /\ B[2 + Len(e)] = c
  /\ \A i \in 1 .. Len(q) : B[2 + Len(e) + i] = q[i]
  /\ B[3 + Len(e) + Len(q)] = d
  /\ \A i \in 1 .. Len(p) : B[3 + Len(e) + Len(q) + i] = p[i]

\* Put behind one another they are laid so.
LEMMA LayersAre ==
  ASSUME NEW T, NEW a \in T, NEW e \in Seq(T), NEW c \in T, NEW q \in Seq(T), NEW d \in T,
         NEW p \in Seq(T)
  PROVE  Laid(<<a>> \o e \o <<c>> \o q \o <<d>> \o p, a, e, c, q, d, p)
<1> DEFINE A1 == <<a>>  A2 == A1 \o e  A3 == A2 \o <<c>>  A4 == A3 \o q  A5 == A4 \o <<d>>
           A6 == A5 \o p  ne == Len(e)  nq == Len(q)  np == Len(p)
<1>0. \A x, y \in Seq(T) : /\ x \o y \in Seq(T) /\ Len(x \o y) = Len(x) + Len(y)
                           /\ \A i \in 1 .. Len(x) : (x \o y)[i] = x[i]
                           /\ \A i \in 1 .. Len(y) : (x \o y)[Len(x) + i] = y[i]
  BY Behind
<1>1. ne \in Nat /\ nq \in Nat /\ np \in Nat
  OBVIOUS
<1>2. A1 \in Seq(T) /\ Len(A1) = 1 /\ A1[1] = a
  OBVIOUS
<1> HIDE DEF A1, ne, nq, np
<1>3. /\ A2 \in Seq(T) /\ Len(A2) = 1 + ne /\ A2[1] = a
      /\ \A i \in 1 .. ne : A2[1 + i] = e[i]
  <2>1. /\ A2 \in Seq(T) /\ Len(A2) = Len(A1) + Len(e)
        /\ \A i \in 1 .. Len(A1) : A2[i] = A1[i]
        /\ \A i \in 1 .. Len(e) : A2[Len(A1) + i] = e[i]
    BY <1>0, <1>2
  <2> QED
    BY <1>2, <2>1 DEF ne
<1> HIDE DEF A2
<1>4. /\ A3 \in Seq(T) /\ Len(A3) = 2 + ne
      /\ \A i \in 1 .. 1 + ne : A3[i] = A2[i]
      /\ A3[2 + ne] = c
  <2>1. /\ A3 \in Seq(T) /\ Len(A3) = Len(A2) + 1
        /\ \A i \in 1 .. Len(A2) : A3[i] = A2[i]
        /\ A3[Len(A2) + 1] = c
    BY <1>3, OneBehind
  <2> QED
    BY <1>1, <1>3, <2>1
<1> HIDE DEF A3
<1>5. /\ A4 \in Seq(T) /\ Len(A4) = 2 + ne + nq
      /\ \A i \in 1 .. 2 + ne : A4[i] = A3[i]
      /\ \A i \in 1 .. nq : A4[2 + ne + i] = q[i]
  <2>1. /\ A4 \in Seq(T) /\ Len(A4) = Len(A3) + Len(q)
        /\ \A i \in 1 .. Len(A3) : A4[i] = A3[i]
        /\ \A i \in 1 .. Len(q) : A4[Len(A3) + i] = q[i]
    BY <1>0, <1>4
  <2> QED
    BY <1>4, <2>1 DEF nq
<1> HIDE DEF A4
<1>6. /\ A5 \in Seq(T) /\ Len(A5) = 3 + ne + nq
      /\ \A i \in 1 .. 2 + ne + nq : A5[i] = A4[i]
      /\ A5[3 + ne + nq] = d
  <2>1. /\ A5 \in Seq(T) /\ Len(A5) = Len(A4) + 1
        /\ \A i \in 1 .. Len(A4) : A5[i] = A4[i]
        /\ A5[Len(A4) + 1] = d
    BY <1>5, OneBehind
  <2>2. (2 + ne + nq) + 1 = 3 + ne + nq
    BY <1>1
  <2> QED
    BY <1>5, <2>1, <2>2
<1> HIDE DEF A5
<1>7. /\ A6 \in Seq(T) /\ Len(A6) = 3 + ne + nq + np
      /\ \A i \in 1 .. 3 + ne + nq : A6[i] = A5[i]
      /\ \A i \in 1 .. np : A6[3 + ne + nq + i] = p[i]
  <2>1. /\ A6 \in Seq(T) /\ Len(A6) = Len(A5) + Len(p)
        /\ \A i \in 1 .. Len(A5) : A6[i] = A5[i]
        /\ \A i \in 1 .. Len(p) : A6[Len(A5) + i] = p[i]
    BY <1>0, <1>6
  <2> QED
    BY <1>6, <2>1 DEF np
<1> HIDE DEF A6
<1>8. DOMAIN A6 = 1 .. (ne + nq + np + 3)
  <2>1. DOMAIN A6 = 1 .. Len(A6)
    BY <1>7
  <2>2. 3 + ne + nq + np = ne + nq + np + 3
    BY <1>1
  <2> QED
    BY <1>7, <2>1, <2>2
<1>9. \A i \in 1 .. 1 + ne : A6[i] = A2[i]
  <2> TAKE i \in 1 .. 1 + ne
  <2>1. i \in 1 .. 2 + ne /\ i \in 1 .. 2 + ne + nq /\ i \in 1 .. 3 + ne + nq
    BY <1>1
  <2> QED
    BY <1>4, <1>5, <1>6, <1>7, <2>1
<1>10. A6[1] = a
  <2>1. 1 \in 1 .. 1 + ne
    BY <1>1
  <2> QED
    BY <1>3, <1>9, <2>1
<1>11. ASSUME NEW i \in 1 .. ne
       PROVE  A6[1 + i] = e[i]
  <2>1. 1 + i \in 1 .. 1 + ne
    BY <1>1
  <2> QED
    BY <1>3, <1>9, <2>1
<1>12. A6[2 + ne] = c
  <2>1. 2 + ne \in 1 .. 2 + ne /\ 2 + ne \in 1 .. 2 + ne + nq /\ 2 + ne \in 1 .. 3 + ne + nq
    BY <1>1
  <2> QED
    BY <1>4, <1>5, <1>6, <1>7, <2>1
<1>13. ASSUME NEW i \in 1 .. nq
       PROVE  A6[2 + ne + i] = q[i]
  <2>1. 2 + ne + i \in 1 .. 2 + ne + nq /\ 2 + ne + i \in 1 .. 3 + ne + nq
    BY <1>1
  <2> QED
    BY <1>5, <1>6, <1>7, <2>1
<1>14. A6[3 + ne + nq] = d
  <2>1. 3 + ne + nq \in 1 .. 3 + ne + nq
    BY <1>1
  <2> QED
    BY <1>6, <1>7, <2>1
<1> QED
  BY <1>7, <1>8, <1>10, <1>11, <1>12, <1>13, <1>14
     DEF Laid, A1, A2, A3, A4, A5, A6, ne, nq, np

\* What is known of a repository.
LEMMA RepositoryIs ==
  ASSUME v1 \in Repositories
  PROVE  /\ "package.json" \in COMMON_ROOT_FILES
         /\ IsFiniteSet(v1.members) /\ IsFiniteSet(DOMAIN v1.dirOf)
         /\ Staged!Service \in DOMAIN v1.dirOf /\ Staged!Commit \notin v1.files
         /\ \A d \in v1.members : v1.deps[d] # {} =>
              \E f \in v1.files : f.dir = d /\ f.name = "package.json" /\ ~f.installed
         /\ \A i \in v1.include : i.is \in {"file", "tree", "node_modules"}
         /\ v1.pms \in Seq(Staged!ToSet(v1.pms))
         /\ \A m \in Staged!ToSet(v1.pms) : m.requires_source \in BOOLEAN
BY ProjectAssumptions
   DEF Staged!ContextAssumption, Staged!IsFiniteSet, IsFiniteSet

\* A file that a walk of the directory finds.
Walked(f, dir) == f.dir = dir /\ ~f.installed
\* What a context x that was put together from r has: the common files, the
\* manifests of the workspaces, the directories of the services S and of the
\* workspaces W, both closed, and what is included, of which nothing is missing.
Assembled(r, x, S, W) ==
  /\ x \subseteq r.files
  /\ \A f \in r.files : Walked(f, ".") /\ f.name \in COMMON_ROOT_FILES => f \in x
  /\ \A f \in r.files, d \in r.members : Walked(f, d) /\ f.name = "package.json" => f \in x
  /\ Staged!Service \in S /\ S \subseteq DOMAIN r.dirOf
  /\ \A s \in S, t \in DOMAIN r.dirOf : t \in r.buildDeps[s] => t \in S
  /\ \A f \in r.files, s \in S : Walked(f, r.dirOf[s]) => f \in x
  /\ \A e \in r.members, f \in r.files :
       e \in r.deps[r.dirOf[Staged!Service]] /\ Walked(f, r.dirOf[Staged!Service])
       /\ f.name = "package.json" => e \in W
  /\ \A d \in W, e \in r.members : e \in r.deps[d] => e \in W
  /\ \A f \in r.files, d \in W : Walked(f, d) => f \in x
  /\ \A f \in r.files, i \in r.include :
       f.dir = i.dir /\ ((i.is = "file" /\ f.name = i.name) \/ (i.is = "tree" /\ ~f.installed))
         => f \in x
  /\ \A i \in r.include : i.is # "node_modules" =>
       \E f \in r.files : f.dir = i.dir /\ (i.is = "file" => f.name = i.name)

\* The invariant of the staging.
CtxInv ==
  /\ v1 \in Repositories
  /\ v2 = "built" => IF v1.include = {} THEN v3 = v1.files ELSE \E S, W : Assembled(v1, v3, S, W)
  /\ v2 # "built" => v3 = {}

\* Whom the workspaces at hand need are workspaces.
LEMMA NeededIs ==
  ASSUME v1 \in Repositories
  PROVE  LET dir == v1.dirOf[Staged!Service]  C == Staged!workspaceDeps
         IN  /\ C \subseteq v1.members
             /\ Staged!extractWorkspaceDeps(dir) \subseteq C
             /\ \A d \in C, e \in v1.members : e \in v1.deps[d] => e \in C
             /\ \A U : Staged!extractWorkspaceDeps(dir) \subseteq U
                     /\ (\A d \in U \cap v1.members : v1.deps[d] \cap v1.members \subseteq U)
                       => C \subseteq U
<1> DEFINE dir == v1.dirOf[Staged!Service]
           start == Staged!extractWorkspaceDeps(dir)
           M == v1.members
           next == [d \in M |-> Staged!extractWorkspaceDeps(d)]
           C == Staged!Closure(start, M, next)
<1>1. C = Staged!workspaceDeps
  BY DEF Staged!workspaceDeps
<1>2. /\ start \subseteq C /\ \A n \in C \cap M : next[n] \subseteq C
      /\ \A U : start \subseteq U /\ (\A n \in U \cap M : next[n] \subseteq U) => C \subseteq U
  <2>1. IsFiniteSet(M)
    BY RepositoryIs
  <2> HIDE DEF start, M, next
  <2> QED
    BY <2>1, ClosureIs
<1> HIDE DEF C
<1>3. start \subseteq M /\ \A d \in M : next[d] \subseteq M /\ next[d] \subseteq v1.deps[d] \cap M
  BY DEF Staged!extractWorkspaceDeps
<1>4. ASSUME NEW d \in M, NEW e \in M, e \in v1.deps[d]
      PROVE  e \in next[d]
  <2>1. PICK f \in v1.files : f.dir = d /\ f.name = "package.json" /\ ~f.installed
    BY <1>4, RepositoryIs
  <2>2. f \in Staged!At(d, "package.json")
    BY <2>1 DEF Staged!At
  <2> QED
    BY <1>4, <2>2 DEF Staged!extractWorkspaceDeps
<1> HIDE DEF next, start, M
<1>5. C \subseteq M
  BY <1>2, <1>3
<1>6. \A d \in C, e \in M : e \in v1.deps[d] => e \in C
  BY <1>2, <1>4, <1>5
<1>7. \A U : start \subseteq U /\ (\A d \in U \cap M : v1.deps[d] \cap M \subseteq U)
               => C \subseteq U
  BY <1>2, <1>3
<1> QED
  BY <1>1, <1>2, <1>5, <1>6, <1>7 DEF start, M

\* What resolveServiceIncludes returns is assembled.
LEMMA ResolvedIsAssembled ==
  ASSUME v1 \in Repositories, Staged!missing = {}
  PROVE  \E S, W : Assembled(v1, Staged!resolveServiceIncludes, S, W)
<1> DEFINE C == Staged!Closure({Staged!Service}, DOMAIN v1.dirOf, v1.buildDeps)
           S == C \cap DOMAIN v1.dirOf
           W == Staged!workspaceDeps
           X == Staged!resolveServiceIncludes
           Sources == UNION {Staged!Directory(v1.dirOf[s]) : s \in S}
           Workspaces == UNION {Staged!Directory(d) : d \in W \cup {v1.dockerfile}}
           Includes == UNION {Staged!Explicit(i) : i \in v1.include}
           Manifests == Staged!MemberManifests({"package.json"})
<1>1. /\ Staged!Service \in C
      /\ \A n \in C \cap DOMAIN v1.dirOf : v1.buildDeps[n] \subseteq C
  <2>1. IsFiniteSet(DOMAIN v1.dirOf)
    BY RepositoryIs
  <2> QED
    BY <2>1, ClosureIs
<1>2. X = Sources \cup Staged!CommonFiles \cup Manifests \cup Workspaces \cup Includes
  BY DEF Staged!resolveServiceIncludes
<1> HIDE DEF C, W, X
<1>3. X \subseteq v1.files
  <2>1. /\ Sources \subseteq v1.files /\ Staged!CommonFiles \subseteq v1.files
        /\ Manifests \subseteq v1.files /\ Workspaces \subseteq v1.files
    BY DEF Staged!Directory, Staged!CommonFiles, Staged!At, Staged!MemberManifests
  <2>2. Includes \subseteq v1.files
    <3>1. ASSUME NEW i \in v1.include
          PROVE  Staged!Explicit(i) \subseteq v1.files
      <4>1. i.is \in {"file", "tree", "node_modules"}
        BY RepositoryIs
      <4> QED
        BY <4>1 DEF Staged!Explicit, Staged!Directory
    <3> QED
      BY <3>1
  <2> HIDE DEF Sources, Manifests, Workspaces, Includes
  <2> QED
    BY <1>2, <2>1, <2>2
<1>4. /\ \A f \in v1.files : Walked(f, ".") /\ f.name \in COMMON_ROOT_FILES => f \in X
      /\ \A f \in v1.files, d \in v1.members : Walked(f, d) /\ f.name = "package.json" => f \in X
  <2>1. \A f \in v1.files :
          Walked(f, ".") /\ f.name \in COMMON_ROOT_FILES => f \in Staged!CommonFiles
    BY DEF Walked, Staged!CommonFiles, Staged!At
  <2>2. ASSUME NEW f \in v1.files, NEW d \in v1.members, Walked(f, d), f.name = "package.json"
        PROVE  f \in Manifests
    <3>1. f \in Staged!At(d, "package.json")
      BY <2>2 DEF Walked, Staged!At
    <3>2. "package.json" \in {"package.json"}
      OBVIOUS
    <3> QED
      BY <3>1, <3>2 DEF Staged!MemberManifests
  <2> HIDE DEF Sources, Manifests, Workspaces, Includes
  <2> QED
    BY <1>2, <2>1, <2>2
<1>5. /\ Staged!Service \in S /\ S \subseteq DOMAIN v1.dirOf
      /\ \A s \in S, t \in DOMAIN v1.dirOf : t \in v1.buildDeps[s] => t \in S
  BY <1>1, RepositoryIs
<1>6. \A f \in v1.files, s \in S : Walked(f, v1.dirOf[s]) => f \in X
  <2>1. \A f \in v1.files, s \in S : Walked(f, v1.dirOf[s]) => f \in Sources
    BY DEF Walked, Staged!Directory
  <2> HIDE DEF Sources, Manifests, Workspaces, Includes, S
  <2> QED
    BY <1>2, <2>1
<1>7. /\ \A e \in v1.members, f \in v1.files :
           e \in v1.deps[v1.dirOf[Staged!Service]] /\ Walked(f, v1.dirOf[Staged!Service])
           /\ f.name = "package.json" => e \in W
      /\ \A d \in W, e \in v1.members : e \in v1.deps[d] => e \in W
  <2>1. /\ Staged!extractWorkspaceDeps(v1.dirOf[Staged!Service]) \subseteq W
        /\ \A d \in W, e \in v1.members : e \in v1.deps[d] => e \in W
    BY NeededIs DEF W
  <2>2. ASSUME NEW e \in v1.members, NEW f \in v1.files,
               e \in v1.deps[v1.dirOf[Staged!Service]], Walked(f, v1.dirOf[Staged!Service]),
               f.name = "package.json"
        PROVE  e \in Staged!extractWorkspaceDeps(v1.dirOf[Staged!Service])
    <3>1. f \in Staged!At(v1.dirOf[Staged!Service], "package.json")
      BY <2>2 DEF Walked, Staged!At
    <3> QED
      BY <2>2, <3>1 DEF Staged!extractWorkspaceDeps
  <2> QED
    BY <2>1, <2>2
<1>8. \A f \in v1.files, d \in W : Walked(f, d) => f \in X
  <2>1. \A f \in v1.files, d \in W : Walked(f, d) => f \in Workspaces
    BY DEF Walked, Staged!Directory
  <2> HIDE DEF Sources, Manifests, Workspaces, Includes
  <2> QED
    BY <1>2, <2>1
<1>9. \A f \in v1.files, i \in v1.include :
        f.dir = i.dir /\ ((i.is = "file" /\ f.name = i.name) \/ (i.is = "tree" /\ ~f.installed))
          => f \in X
  <2>1. ASSUME NEW f \in v1.files, NEW i \in v1.include, f.dir = i.dir,
               (i.is = "file" /\ f.name = i.name) \/ (i.is = "tree" /\ ~f.installed)
        PROVE  f \in Staged!Explicit(i)
    BY <2>1 DEF Staged!Explicit, Staged!Directory
  <2>2. \A i \in v1.include : Staged!Explicit(i) \subseteq Includes
    OBVIOUS
  <2> HIDE DEF Sources, Manifests, Workspaces, Includes
  <2> QED
    BY <1>2, <2>1, <2>2
<1>10. ASSUME NEW i \in v1.include, i.is # "node_modules"
       PROVE  \E f \in v1.files : f.dir = i.dir /\ (i.is = "file" => f.name = i.name)
  <2>1. Staged!Exists(i)
    BY DEF Staged!missing
  <2>2. i.is \in {"file", "tree"}
    BY <1>10, RepositoryIs
  <2> QED
    BY <2>1, <2>2 DEF Staged!Exists
<1> HIDE DEF S
<1> QED
  BY <1>3, <1>4, <1>5, <1>6, <1>7, <1>8, <1>9, <1>10 DEF Assembled, X

\* A step of the staging keeps its invariant.
LEMMA ContextKeeps ==
  ASSUME CtxInv, Staged!Next \/ UNCHANGED <<v1, v2, v3>>
  PROVE  CtxInv'
<1>1. v1' = v1 /\ v1 \in Repositories
  BY DEF CtxInv, Staged!Next, Staged!resolveServiceContext
<1>2. CASE UNCHANGED <<v1, v2, v3>>
  BY <1>2 DEF CtxInv, Assembled
<1>3. CASE v2' = "failed" /\ UNCHANGED v3 /\ v2 = "resolve"
  BY <1>1, <1>3 DEF CtxInv
<1>4. CASE v2' = "built" /\ v1.include = {} /\ v3' = v1.files
  BY <1>1, <1>4 DEF CtxInv
<1>5. CASE v2' = "built" /\ v1.include # {} /\ Staged!missing = {}
           /\ v3' = Staged!resolveServiceIncludes
  <2>1. PICK S, W : Assembled(v1, v3', S, W)
    BY <1>1, <1>5, ResolvedIsAssembled
  <2> QED
    BY <1>1, <1>5, <2>1 DEF CtxInv, Assembled
<1> QED
  BY <1>2, <1>3, <1>4, <1>5
     DEF Staged!Next, Staged!resolveServiceContext, Staged!Isolated, Staged!Context

\* One layer of T for each package manager of s, in their order.
Row(z, s, op, T) ==
  /\ z \in Seq(T) /\ Len(z) = Len(s)
  /\ \A i \in 1 .. Len(s) : z[i].op = op /\ z[i].reads = {} /\ z[i].pm = s[i]

\* The layers of an installation are such a row.
LEMMA InstallIs ==
  ASSUME NEW M, NEW s \in Seq(M), NEW op, NEW T,
         \A m \in M : [op |-> op, reads |-> {}, pm |-> m] \in T
  PROVE  Row(Staged!Install(s, op), s, op, T)
<1> DEFINE r(m) == [op |-> op, reads |-> {}, pm |-> m]  z == Staged!Install(s, op)
<1>1. DOMAIN s = 1 .. Len(s) /\ Len(s) \in Nat /\ \A i \in 1 .. Len(s) : s[i] \in M
  OBVIOUS
<1>3. z = [i \in DOMAIN s |-> r(s[i])]
  BY DEF Staged!Install
<1> HIDE DEF z
<1>4. /\ DOMAIN z = 1 .. Len(s) /\ \A i \in 1 .. Len(s) : z[i] = r(s[i])
      /\ z = [i \in 1 .. Len(s) |-> z[i]]
  <2> HIDE DEF r
  <2> QED
    BY <1>1, <1>3
<1>5. \A i \in 1 .. Len(s) : z[i].op = op /\ z[i].reads = {} /\ z[i].pm = s[i] /\ z[i] \in T
  BY <1>1, <1>4
<1>6. z \in Seq(T) /\ Len(z) = Len(s)
  BY <1>1, <1>4, <1>5
<1> QED
  BY <1>5, <1>6 DEF z, Row

\* What the layers of the build stage B are, with the context x: those of the
\* package managers Ms that need no source before it, the others behind it.
StageOf(B, Ms, K, x, ne, nq, np) ==
  /\ DOMAIN B = 1 .. (ne + nq + np + 3)
  /\ B[1].op = "COPY" /\ B[1].reads = K
  /\ \A i \in 1 .. ne : /\ B[1 + i].op = "install" /\ B[1 + i].reads = {}
                        /\ B[1 + i].pm \in Ms /\ ~B[1 + i].pm.requires_source
  /\ B[2 + ne].op = "COPY" /\ B[2 + ne].reads = x
  /\ \A i \in 1 .. nq : /\ B[2 + ne + i].op = "install" /\ B[2 + ne + i].reads = {}
                        /\ B[2 + ne + i].pm \in Ms /\ B[2 + ne + i].pm.requires_source
  /\ B[3 + ne + nq].op = "build" /\ B[3 + ne + nq].reads = {}
  /\ \A i \in 1 .. np : B[3 + ne + nq + i].op = "prod" /\ B[3 + ne + nq + i].reads = {}
  /\ \A m \in Ms : ~m.requires_source => \E i \in 1 .. ne : B[1 + i].pm = m
  /\ \A m \in Ms : m.requires_source => \E i \in 1 .. nq : B[2 + ne + i].pm = m

\* The build stage is so.
LEMMA StageIs ==
  ASSUME v1 \in Repositories
  PROVE  \E ne, nq, np \in Nat :
           StageOf(Staged!BuildStage, Staged!ToSet(v1.pms), Staged!collectInstallTimeFiles, v3,
                   ne, nq, np)
<1> DEFINE Ms == Staged!ToSet(v1.pms)
           K == Staged!collectInstallTimeFiles
           T == [op : {"COPY", "install", "build", "prod"}, reads : {{}, K, v3}, pm : Ms \cup {""}]
           Es == {m \in Ms : ~m.requires_source}  Ls == {m \in Ms : m.requires_source}
           Ps == {m \in Ms : m.prod}
           Early == Staged!Declared(Es)  Late == Staged!Declared(Ls)  Prod == Staged!Declared(Ps)
           a == Staged!Layer("COPY", K)  c == Staged!Layer("COPY", v3)
           d == Staged!Layer("build", {})
           e == Staged!Install(Early, "install")  q == Staged!Install(Late, "install")
           p == Staged!Install(Prod, "prod")
<1>1. Ms \cap Es = Es /\ Ms \cap Ls = Ls /\ Ms \cap Ps = Ps
  OBVIOUS
<1>2. /\ Early \in Seq(Ms \cap Es) /\ \A m \in Ms \cap Es : \E i \in 1 .. Len(Early) : Early[i] = m
      /\ Late \in Seq(Ms \cap Ls) /\ \A m \in Ms \cap Ls : \E i \in 1 .. Len(Late) : Late[i] = m
      /\ Prod \in Seq(Ms \cap Ps)
  <2>1. v1.pms \in Seq(Ms)
    BY RepositoryIs
  <2> QED
    BY <2>1, DeclaredIs
<1>3. Staged!BuildStage = <<a>> \o e \o <<c>> \o q \o <<d>> \o p
  BY DEF Staged!BuildStage, Staged!Early, Staged!Late
<1>4. a \in T /\ c \in T /\ d \in T
  BY DEF Staged!Layer
<1>21. /\ a.op = "COPY" /\ a.reads = K /\ c.op = "COPY" /\ c.reads = v3
       /\ d.op = "build" /\ d.reads = {}
  BY DEF Staged!Layer
<1>5. \A m \in Ms : /\ [op |-> "install", reads |-> {}, pm |-> m] \in T
                    /\ [op |-> "prod", reads |-> {}, pm |-> m] \in T
  <2> HIDE DEF Ms, K
  <2> QED
    OBVIOUS
<1>6. Es \subseteq Ms /\ Ls \subseteq Ms /\ Ps \subseteq Ms
  OBVIOUS
<1>7. /\ \A m \in Es : ~m.requires_source
      /\ \A m \in Ms : ~m.requires_source => m \in Es
      /\ \A m \in Ls : m.requires_source
      /\ \A m \in Ms : m.requires_source => m \in Ls
  OBVIOUS
<1> HIDE DEF Early, Late, Prod, T, a, c, d, Ms, Es, Ls, Ps, K
<1>8. Early \in Seq(Es) /\ Late \in Seq(Ls) /\ Prod \in Seq(Ps)
  BY <1>1, <1>2
<1>20. /\ \A m \in Es : [op |-> "install", reads |-> {}, pm |-> m] \in T
       /\ \A m \in Ls : [op |-> "install", reads |-> {}, pm |-> m] \in T
       /\ \A m \in Ps : [op |-> "prod", reads |-> {}, pm |-> m] \in T
  BY <1>5, <1>6
<1>9. Row(e, Early, "install", T) /\ Row(q, Late, "install", T) /\ Row(p, Prod, "prod", T)
  <2>1. Row(e, Early, "install", T)
    BY <1>8, <1>20, InstallIs
  <2>2. Row(q, Late, "install", T)
    BY <1>8, <1>20, InstallIs
  <2>3. Row(p, Prod, "prod", T)
    BY <1>8, <1>20, InstallIs
  <2> QED
    BY <2>1, <2>2, <2>3
<1> HIDE DEF e, q, p
<1>10. /\ e \in Seq(T) /\ Len(e) = Len(Early) /\ q \in Seq(T) /\ Len(q) = Len(Late)
       /\ p \in Seq(T) /\ Len(p) = Len(Prod)
  BY <1>9 DEF Row
<1>11. /\ \A i \in 1 .. Len(Early) : e[i].op = "install" /\ e[i].reads = {} /\ e[i].pm = Early[i]
       /\ \A i \in 1 .. Len(Late) : q[i].op = "install" /\ q[i].reads = {} /\ q[i].pm = Late[i]
       /\ \A i \in 1 .. Len(Prod) : p[i].op = "prod" /\ p[i].reads = {} /\ p[i].pm = Prod[i]
  BY <1>9 DEF Row
<1> DEFINE B == Staged!BuildStage  ne == Len(e)  nq == Len(q)  np == Len(p)
<1>12. /\ DOMAIN B = 1 .. (ne + nq + np + 3) /\ B[1] = a
       /\ \A i \in 1 .. ne : B[1 + i] = e[i]
       /\ B[2 + ne] = c
       /\ \A i \in 1 .. nq : B[2 + ne + i] = q[i]
       /\ B[3 + ne + nq] = d
       /\ \A i \in 1 .. np : B[3 + ne + nq + i] = p[i]
  <2>1. Laid(B, a, e, c, q, d, p)
    BY <1>3, <1>4, <1>10, LayersAre
  <2> QED
    BY <2>1 DEF Laid
<1>13. ne \in Nat /\ nq \in Nat /\ np \in Nat
  BY <1>10
<1>14. /\ \A i \in 1 .. ne : Early[i] \in Es
       /\ \A i \in 1 .. nq : Late[i] \in Ls
  BY <1>8, <1>10
<1>15. /\ \A m \in Es : \E i \in 1 .. ne : e[i].pm = m
       /\ \A m \in Ls : \E i \in 1 .. nq : q[i].pm = m
  <2>1. ASSUME NEW m \in Es
        PROVE  \E i \in 1 .. ne : e[i].pm = m
    <3>1. PICK i \in 1 .. Len(Early) : Early[i] = m
      BY <1>1, <1>2
    <3>2. i \in 1 .. ne /\ e[i].pm = m
      BY <1>10, <1>11, <3>1
    <3> QED
      BY <3>2
  <2>2. ASSUME NEW m \in Ls
        PROVE  \E i \in 1 .. nq : q[i].pm = m
    <3>1. PICK i \in 1 .. Len(Late) : Late[i] = m
      BY <1>1, <1>2
    <3>2. i \in 1 .. nq /\ q[i].pm = m
      BY <1>10, <1>11, <3>1
    <3> QED
      BY <3>2
  <2> QED
    BY <2>1, <2>2
<1>16. /\ \A i \in 1 .. ne : e[i].op = "install" /\ e[i].reads = {} /\ e[i].pm \in Es
       /\ \A i \in 1 .. nq : q[i].op = "install" /\ q[i].reads = {} /\ q[i].pm \in Ls
       /\ \A i \in 1 .. np : p[i].op = "prod" /\ p[i].reads = {}
  BY <1>10, <1>11, <1>14
<1> HIDE DEF B, ne, nq, np
<1>17. /\ \A i \in 1 .. ne : /\ B[1 + i].op = "install" /\ B[1 + i].reads = {}
                              /\ B[1 + i].pm \in Ms /\ ~B[1 + i].pm.requires_source
       /\ \A i \in 1 .. nq : /\ B[2 + ne + i].op = "install" /\ B[2 + ne + i].reads = {}
                              /\ B[2 + ne + i].pm \in Ms /\ B[2 + ne + i].pm.requires_source
       /\ \A i \in 1 .. np : B[3 + ne + nq + i].op = "prod" /\ B[3 + ne + nq + i].reads = {}
  BY <1>6, <1>7, <1>12, <1>16
<1>18. /\ \A m \in Ms : ~m.requires_source => \E i \in 1 .. ne : B[1 + i].pm = m
       /\ \A m \in Ms : m.requires_source => \E i \in 1 .. nq : B[2 + ne + i].pm = m
  BY <1>7, <1>12, <1>15
<1>19. StageOf(B, Ms, K, v3, ne, nq, np)
  BY <1>12, <1>17, <1>18, <1>21 DEF StageOf
<1> QED
  BY <1>13, <1>19 DEF B, Ms, K

\* The package managers that install before the source are among those declared.
LEMMA EarlyIs ==
  ASSUME v1 \in Repositories
  PROVE  \A m \in Staged!ToSet(Staged!Early) : m \in Staged!ToSet(v1.pms) /\ ~m.requires_source
<1> DEFINE Ms == Staged!ToSet(v1.pms)  Es == {m \in Ms : ~m.requires_source}  q == Staged!Early
<1>1. q \in Seq(Ms \cap Es)
  <2>1. v1.pms \in Seq(Ms)
    BY RepositoryIs
  <2> QED
    BY <2>1, DeclaredIs DEF Staged!Early
<1> HIDE DEF q
<1>2. \A i \in DOMAIN q : q[i] \in Ms \cap Es
  <2> HIDE DEF Ms, Es
  <2> QED
    BY <1>1
<1>3. \A m \in Staged!ToSet(q) : \E i \in DOMAIN q : q[i] = m
  BY DEF Staged!ToSet
<1> QED
  BY <1>2, <1>3 DEF q

\* What the image is made of are files of the repository.
LEMMA FilesAre ==
  ASSUME CtxInv
  PROVE  /\ v3 \subseteq v1.files /\ Staged!collectInstallTimeFiles \subseteq v1.files
         /\ \A d : Staged!Directory(d) \subseteq v1.files
         /\ Staged!packageManagerRuntimeOutputs \subseteq v1.files
<1>1. v3 \subseteq v1.files
  BY DEF CtxInv, Assembled
<1>2. /\ Staged!CommonFiles \subseteq v1.files
      /\ \A N : Staged!MemberManifests(N) \subseteq v1.files
      /\ \A d, n : Staged!At(d, n) \subseteq v1.files
      /\ \A d : Staged!Directory(d) \subseteq v1.files
  BY DEF Staged!CommonFiles, Staged!MemberManifests, Staged!At, Staged!Directory
<1>3. \A m : Staged!ManifestsOf(m) \subseteq v1.files
  BY <1>2 DEF Staged!ManifestsOf
<1>4. /\ Staged!collectInstallTimeFiles \subseteq v1.files
      /\ Staged!packageManagerRuntimeOutputs \subseteq v1.files
  BY <1>2, <1>3 DEF Staged!collectInstallTimeFiles, Staged!packageManagerRuntimeOutputs
<1> QED
  BY <1>1, <1>2, <1>4

\* Which of the layers the one at i is.
LayerAt(B, Ms, K, x, ne, nq, np, i) ==
  /\ i = 1 \/ i \in 2 .. 1 + ne \/ i = 2 + ne \/ i \in 3 + ne .. 2 + ne + nq
     \/ i = 3 + ne + nq \/ i \in 4 + ne + nq .. 3 + ne + nq + np
  /\ i = 1 => B[i].op = "COPY" /\ B[i].reads = K
  /\ i \in 2 .. 1 + ne =>
       /\ B[i].op = "install" /\ B[i].reads = {}
       /\ B[i].pm \in Ms /\ ~B[i].pm.requires_source
  /\ i = 2 + ne => B[i].op = "COPY" /\ B[i].reads = x
  /\ i \in 3 + ne .. 2 + ne + nq =>
       /\ B[i].op = "install" /\ B[i].reads = {}
       /\ B[i].pm \in Ms /\ B[i].pm.requires_source
  /\ i = 3 + ne + nq => B[i].op = "build" /\ B[i].reads = {}
  /\ i \in 4 + ne + nq .. 3 + ne + nq + np => B[i].op = "prod" /\ B[i].reads = {}

\* Each layer is one of them.
LEMMA LayersRead ==
  ASSUME NEW B, NEW Ms, NEW K, NEW x, NEW ne \in Nat, NEW nq \in Nat, NEW np \in Nat,
         StageOf(B, Ms, K, x, ne, nq, np), NEW i \in DOMAIN B
  PROVE  LayerAt(B, Ms, K, x, ne, nq, np, i)
<1>1. i \in 1 .. (ne + nq + np + 3)
  BY DEF StageOf
<1>2. i = 1 \/ i \in 2 .. 1 + ne \/ i = 2 + ne \/ i \in 3 + ne .. 2 + ne + nq
      \/ i = 3 + ne + nq \/ i \in 4 + ne + nq .. 3 + ne + nq + np
  BY <1>1
<1>3. i = 1 => B[i].op = "COPY" /\ B[i].reads = K
  BY DEF StageOf
<1>4. i = 2 + ne => B[i].op = "COPY" /\ B[i].reads = x
  BY DEF StageOf
<1>5. i = 3 + ne + nq => B[i].op = "build" /\ B[i].reads = {}
  BY DEF StageOf
<1>6. ASSUME i \in 2 .. 1 + ne
      PROVE  /\ B[i].op = "install" /\ B[i].reads = {}
             /\ B[i].pm \in Ms /\ ~B[i].pm.requires_source
  <2>1. PICK j \in 1 .. ne : i = 1 + j
    <3>1. i - 1 \in 1 .. ne /\ i = 1 + (i - 1)
      BY <1>6
    <3> QED
      BY <3>1
  <2> QED
    BY <2>1 DEF StageOf
<1>7. ASSUME i \in 3 + ne .. 2 + ne + nq
      PROVE  /\ B[i].op = "install" /\ B[i].reads = {}
             /\ B[i].pm \in Ms /\ B[i].pm.requires_source
  <2>1. PICK j \in 1 .. nq : i = 2 + ne + j
    <3>1. i - (2 + ne) \in 1 .. nq /\ i = 2 + ne + (i - (2 + ne))
      BY <1>7
    <3> QED
      BY <3>1
  <2> QED
    BY <2>1 DEF StageOf
<1>8. ASSUME i \in 4 + ne + nq .. 3 + ne + nq + np
      PROVE  B[i].op = "prod" /\ B[i].reads = {}
  <2>1. PICK j \in 1 .. np : i = 3 + ne + nq + j
    <3>1. i - (3 + ne + nq) \in 1 .. np /\ i = 3 + ne + nq + (i - (3 + ne + nq))
      BY <1>8
    <3> QED
      BY <3>1
  <2> QED
    BY <2>1 DEF StageOf
<1> QED
  BY <1>2, <1>3, <1>4, <1>5, <1>6, <1>7, <1>8 DEF LayerAt

\* The build stage reads its manifests, and then the context.
LEMMA EverythingIs ==
  ASSUME CtxInv
  PROVE  /\ Staged!Everything = Staged!collectInstallTimeFiles \cup v3
         /\ \A i \in DOMAIN Staged!BuildStage :
              Staged!BuildStage[i].reads \subseteq Staged!Everything
<1> DEFINE B == Staged!BuildStage  K == Staged!collectInstallTimeFiles  Ms == Staged!ToSet(v1.pms)
<1>1. PICK ne \in Nat, nq \in Nat, np \in Nat : StageOf(B, Ms, K, v3, ne, nq, np)
  BY StageIs DEF CtxInv
<1>2. Staged!Everything = UNION {B[i].reads : i \in DOMAIN B}
  BY DEF Staged!Everything
<1> HIDE DEF B, K, Ms
<1>3. ASSUME NEW i \in DOMAIN B
      PROVE  B[i].reads \in {{}, K, v3}
  <2>1. LayerAt(B, Ms, K, v3, ne, nq, np, i)
    BY <1>1, LayersRead
  <2> QED
    BY <2>1 DEF LayerAt
<1>4. 1 \in DOMAIN B /\ B[1].reads = K /\ 2 + ne \in DOMAIN B /\ B[2 + ne].reads = v3
  <2>1. DOMAIN B = 1 .. (ne + nq + np + 3)
    BY <1>1 DEF StageOf
  <2>2. 1 \in DOMAIN B /\ 2 + ne \in DOMAIN B
    BY <2>1
  <2> QED
    BY <1>1, <2>2 DEF StageOf
<1> QED
  BY <1>2, <1>3, <1>4 DEF B, K

\* A context is typed, whole, and has what is included.
LEMMA StagedIsWhole ==
  ASSUME CtxInv
  PROVE  Staged!TypeOK /\ Staged!ContextIsWhole /\ Staged!IncludesAreStaged
<1>1. v1 \in Repositories
  BY DEF CtxInv
<1>2. Staged!TypeOK
  BY <1>1, FilesAre, NeededIs DEF Staged!TypeOK
<1>3. ASSUME Staged!Built, Staged!Isolated
      PROVE  /\ \A d \in v1.members : Staged!At(d, "package.json") \subseteq v3
             /\ \E S \in SUBSET DOMAIN v1.dirOf :
                  /\ Staged!Service \in S
                  /\ \A s \in S : v1.buildDeps[s] \cap DOMAIN v1.dirOf \subseteq S
                  /\ \A s \in S : Staged!Directory(v1.dirOf[s]) \subseteq v3
  <2>1. PICK S, W : Assembled(v1, v3, S, W)
    BY <1>3 DEF CtxInv, Staged!Built, Staged!Isolated
  <2>2. \A d \in v1.members : Staged!At(d, "package.json") \subseteq v3
    BY <2>1 DEF Assembled, Staged!At, Walked
  <2>3. S \in SUBSET DOMAIN v1.dirOf /\ Staged!Service \in S
    BY <2>1 DEF Assembled
  <2>4. \A s \in S : v1.buildDeps[s] \cap DOMAIN v1.dirOf \subseteq S
    BY <2>1 DEF Assembled
  <2>5. \A s \in S : Staged!Directory(v1.dirOf[s]) \subseteq v3
    BY <2>1 DEF Assembled, Staged!Directory, Walked
  <2> QED
    BY <2>2, <2>3, <2>4, <2>5
<1>4. Staged!ContextIsWhole
  BY <1>3 DEF Staged!ContextIsWhole
<1>5. ASSUME Staged!Built, NEW i \in v1.include, i.is # "node_modules"
      PROVE  /\ Staged!Explicit(i) \subseteq v3
             /\ Staged!Explicit(i) # {}
                \/ (i.is = "tree" /\ \E f \in v1.files : f.dir = i.dir /\ f.installed)
  <2>1. PICK S, W : Assembled(v1, v3, S, W)
    BY <1>5 DEF CtxInv, Staged!Built
  <2>2. PICK f \in v1.files : f.dir = i.dir /\ (i.is = "file" => f.name = i.name)
    BY <1>5, <2>1 DEF Assembled
  <2>3. i.is \in {"file", "tree"}
    BY <1>1, <1>5, RepositoryIs
  <2>4. CASE i.is = "file"
    <3>1. Staged!Explicit(i) = {h \in v1.files : h.dir = i.dir /\ h.name = i.name}
      BY <2>4 DEF Staged!Explicit
    <3>2. Staged!Explicit(i) \subseteq v3
      BY <2>1, <2>4, <3>1 DEF Assembled
    <3> QED
      BY <2>2, <2>4, <3>1, <3>2
  <2>5. CASE i.is = "tree"
    <3>1. Staged!Explicit(i) = {h \in v1.files : h.dir = i.dir /\ ~h.installed}
      BY <2>5 DEF Staged!Explicit, Staged!Directory
    <3>2. Staged!Explicit(i) \subseteq v3
      BY <2>1, <2>5, <3>1 DEF Assembled
    <3> QED
      BY <2>2, <2>5, <3>1, <3>2
  <2> QED
    BY <2>3, <2>4, <2>5
<1>6. Staged!IncludesAreStaged
  BY <1>5 DEF Staged!IncludesAreStaged
<1> QED
  BY <1>2, <1>4, <1>6

\* What workspaces the service needs, and they, are in the context.
LEMMA WorkspacesAreStaged ==
  ASSUME CtxInv, Staged!Built
  PROVE  \A d \in Staged!workspaceDeps : Staged!Directory(d) \subseteq v3
<1>1. CASE v1.include = {}
  <2>1. v3 = v1.files
    BY <1>1 DEF CtxInv, Staged!Built
  <2> QED
    BY <2>1 DEF Staged!Directory
<1>2. CASE v1.include # {}
  <2>1. PICK S, W : Assembled(v1, v3, S, W)
    BY <1>2 DEF CtxInv, Staged!Built
  <2>2. Staged!extractWorkspaceDeps(v1.dirOf[Staged!Service]) \subseteq W
    BY <2>1 DEF Assembled, Staged!extractWorkspaceDeps, Staged!At, Walked
  <2>3. \A d \in W \cap v1.members : v1.deps[d] \cap v1.members \subseteq W
    BY <2>1 DEF Assembled
  <2>4. Staged!workspaceDeps \subseteq W
    BY <2>2, <2>3, NeededIs DEF CtxInv
  <2>5. \A d \in W : Staged!Directory(d) \subseteq v3
    BY <2>1 DEF Assembled, Staged!Directory, Walked
  <2> QED
    BY <2>4, <2>5
<1> QED
  BY <1>1, <1>2

\* Every COPY finds its files, and the image links to no workspace that it lacks.
LEMMA CopiesFind ==
  ASSUME CtxInv
  PROVE  Staged!CopiesAreStaged /\ Staged!NoDanglingLinks
<1> DEFINE K == Staged!collectInstallTimeFiles  Ms == Staged!ToSet(v1.pms)
           Common == Staged!CommonFiles  Manifests == Staged!MemberManifests({"package.json"})
<1>1. v1 \in Repositories
  BY DEF CtxInv
<1>2. ASSUME Staged!Built, Staged!CommonOnly
      PROVE  Staged!Copyable
  <2>1. Common \subseteq v3 /\ Manifests \subseteq v3
    <3>1. CASE v1.include = {}
      <4>1. v3 = v1.files
        BY <1>2, <3>1 DEF CtxInv, Staged!Built
      <4> QED
        BY <4>1 DEF Staged!CommonFiles, Staged!MemberManifests, Staged!At
    <3>2. CASE v1.include # {}
      <4>1. PICK S, W : Assembled(v1, v3, S, W)
        BY <1>2, <3>2 DEF CtxInv, Staged!Built
      <4>2. Common \subseteq v3
        BY <4>1 DEF Assembled, Staged!CommonFiles, Staged!At, Walked
      <4>3. Manifests \subseteq v3
        BY <4>1 DEF Assembled, Staged!MemberManifests, Staged!At, Walked
      <4> QED
        BY <4>2, <4>3
    <3> QED
      BY <3>1, <3>2
  <2>2. ASSUME NEW m \in Ms
        PROVE  Staged!ManifestsOf(m) \subseteq v3
    <3>1. m.dir = "." /\ m.lockfile \in COMMON_ROOT_FILES /\ m.manifest = "package.json"
      BY <1>2 DEF Staged!CommonOnly, Staged!ToSet
    <3>2. \A n \in COMMON_ROOT_FILES : Staged!At(".", n) \subseteq Common
      BY DEF Staged!CommonFiles
    <3>3. "package.json" \in COMMON_ROOT_FILES
      BY <1>1, RepositoryIs
    <3> HIDE DEF Common, Manifests
    <3>4. Staged!ManifestsOf(m)
            = Staged!At(".", m.lockfile) \cup Staged!At(".", "package.json") \cup Manifests
      BY <3>1 DEF Staged!ManifestsOf, Manifests
    <3> QED
      BY <2>1, <3>1, <3>2, <3>3, <3>4
  <2>3. \A m \in Staged!ToSet(Staged!Early) : m \in Ms
    BY <1>1, EarlyIs
  <2>4. K = Common \cup Manifests
              \cup UNION {Staged!ManifestsOf(m) : m \in Staged!ToSet(Staged!Early)}
    BY DEF Staged!collectInstallTimeFiles
  <2>5. Staged!packageManagerRuntimeOutputs = UNION {Staged!ManifestsOf(m) : m \in Ms}
    BY DEF Staged!packageManagerRuntimeOutputs
  <2> HIDE DEF Common, Manifests, Ms, K
  <2>6. K \subseteq v3
    BY <2>1, <2>2, <2>3, <2>4
  <2>7. Staged!packageManagerRuntimeOutputs \subseteq v3
    BY <2>2, <2>5
  <2>8. Staged!workspaceDepOutputs \subseteq v3
    BY <1>2, WorkspacesAreStaged DEF Staged!workspaceDepOutputs
  <2>9. v3 \subseteq Staged!Everything
    BY EverythingIs
  <2>10. Staged!generateRuntimeCopyLines \subseteq Staged!Everything \cup Staged!Outputs
    BY <2>7, <2>8, <2>9 DEF Staged!generateRuntimeCopyLines
  <2> QED
    BY <2>6, <2>10 DEF Staged!Copyable, K
<1>3. ASSUME Staged!Built, NEW d \in Staged!workspaceDeps, NEW e \in v1.members,
             e = d \/ e \in v1.deps[d]
      PROVE  Staged!Directory(e) \subseteq Staged!generateRuntimeCopyLines
  <2>1. e \in Staged!workspaceDeps
    BY <1>1, <1>3, NeededIs
  <2>2. Staged!Directory(e) \subseteq Staged!workspaceDepOutputs
    BY <2>1 DEF Staged!workspaceDepOutputs
  <2>3. Staged!Directory(e) \subseteq Staged!Everything
    BY <1>3, <2>1, WorkspacesAreStaged, EverythingIs
  <2> QED
    BY <2>2, <2>3 DEF Staged!generateRuntimeCopyLines
<1> QED
  BY <1>2, <1>3 DEF Staged!CopiesAreStaged, Staged!NoDanglingLinks

\* The layers are in an order in which what changes often comes late.
LEMMA LayersAreOrdered ==
  ASSUME CtxInv
  PROVE  /\ Staged!SourceEditsKeepInstalls /\ Staged!CommitsChangeOneLayer
         /\ Staged!BuildSeesEverything
<1> DEFINE B == Staged!BuildStage  K == Staged!collectInstallTimeFiles  Ms == Staged!ToSet(v1.pms)
<1>1. v1 \in Repositories
  BY DEF CtxInv
<1>2. PICK ne \in Nat, nq \in Nat, np \in Nat : StageOf(B, Ms, K, v3, ne, nq, np)
  BY <1>1, StageIs
<1>3. \A i \in DOMAIN B : LayerAt(B, Ms, K, v3, ne, nq, np, i)
  <2> HIDE DEF B, K, Ms
  <2> QED
    BY <1>2, LayersRead
<1>4. DOMAIN B = 1 .. (ne + nq + np + 3)
  BY <1>2 DEF StageOf
<1>5. ASSUME NEW i \in DOMAIN B, B[i].op = "install", B[i].pm \in Staged!ToSet(Staged!Early)
      PROVE  i \in Staged!Reused(B, v1.files \ K)
  <2>1. ~B[i].pm.requires_source
    BY <1>1, <1>5, EarlyIs
  <2> HIDE DEF B, K, Ms
  <2>2. i \in 2 .. 1 + ne
    BY <1>3, <1>5, <2>1 DEF LayerAt
  <2>3. ASSUME NEW j \in 1 .. i
        PROVE  B[j].reads \cap (v1.files \ K) = {}
    <3>1. j \in DOMAIN B /\ (j = 1 \/ j \in 2 .. 1 + ne)
      BY <1>4, <2>2
    <3> QED
      BY <1>3, <3>1 DEF LayerAt
  <2> QED
    BY <2>3 DEF Staged!Reused
<1>6. Staged!SourceEditsKeepInstalls
  BY <1>5 DEF Staged!SourceEditsKeepInstalls
<1>7. Staged!Commit \notin v1.files
  BY <1>1, RepositoryIs
<1>8. ASSUME NEW i \in DOMAIN B
      PROVE  Staged!Commit \notin B[i].reads
  BY <1>7, EverythingIs, FilesAre
<1>9. Staged!Reused(B, {Staged!Commit}) = DOMAIN B
  <2> HIDE DEF B
  <2>1. ASSUME NEW i \in DOMAIN B, NEW j \in 1 .. i
        PROVE  B[j].reads \cap {Staged!Commit} = {}
    <3>1. j \in DOMAIN B
      BY <1>4
    <3> QED
      BY <1>8, <3>1
  <2> QED
    BY <2>1 DEF Staged!Reused
<1>10. Staged!Commit \notin Staged!generateRuntimeCopyLines
  <2>1. Staged!Commit \notin Staged!Outputs
    BY DEF Staged!Outputs, Staged!Commit
  <2>2. Staged!Commit \notin Staged!Everything
    BY <1>7, EverythingIs, FilesAre
  <2>3. /\ Staged!Commit \notin Staged!workspaceDepOutputs
        /\ Staged!Commit \notin Staged!packageManagerRuntimeOutputs
    BY <1>7, FilesAre DEF Staged!workspaceDepOutputs
  <2> QED
    BY <2>1, <2>2, <2>3 DEF Staged!generateRuntimeCopyLines
<1>11. /\ Staged!Reused(Staged!RuntimeStage, {Staged!Commit})
            = 1 .. (Len(Staged!RuntimeStage) - 1)
  <2> DEFINE Z == Staged!RuntimeStage
  <2>1. /\ DOMAIN Z = 1 .. 2 /\ Len(Z) - 1 = 1
        /\ Z[1].reads = Staged!generateRuntimeCopyLines /\ Z[2].reads = {Staged!Commit}
    <3> DEFINE l(reads) == Staged!Layer("COPY", reads)
    <3>1. \A reads : l(reads).reads = reads
      BY DEF Staged!Layer
    <3>2. Z = <<l(Staged!generateRuntimeCopyLines), l({Staged!Commit})>>
      BY DEF Staged!RuntimeStage
    <3> HIDE DEF l, Z
    <3> QED
      BY <3>1, <3>2
  <2> HIDE DEF Z
  <2>2. ASSUME NEW i \in DOMAIN Z
        PROVE  (\A j \in 1 .. i : Z[j].reads \cap {Staged!Commit} = {}) <=> i = 1
    <3>1. i = 1 \/ i = 2
      BY <2>1
    <3>2. 1 .. 1 = {1} /\ 1 .. 2 = {1, 2}
      OBVIOUS
    <3> QED
      BY <1>10, <2>1, <3>1, <3>2
  <2>3. 1 .. 1 = {1} /\ 1 \in DOMAIN Z
    BY <2>1
  <2> QED
    BY <2>1, <2>2, <2>3 DEF Staged!Reused, Z
<1>12. Staged!CommitsChangeOneLayer
  BY <1>9, <1>11 DEF Staged!CommitsChangeOneLayer
<1>13. ASSUME NEW i \in DOMAIN B, B[i].op = "build"
       PROVE  /\ \A m \in Ms : \E j \in 1 .. (i - 1) : B[j].op = "install" /\ B[j].pm = m
              /\ \A j \in DOMAIN B : B[j].op = "prod" => j > i
  <2> HIDE DEF B, K, Ms
  <2>1. i = 3 + ne + nq
    BY <1>3, <1>13 DEF LayerAt
  <2>2. ASSUME NEW m \in Ms
        PROVE  \E j \in 1 .. (i - 1) : B[j].op = "install" /\ B[j].pm = m
    <3>1. CASE m.requires_source
      <4>1. PICK k \in 1 .. nq : B[2 + ne + k].pm = m
        BY <1>2, <3>1 DEF StageOf
      <4>2. 2 + ne + k \in 1 .. (i - 1)
        BY <2>1
      <4>3. B[2 + ne + k].op = "install"
        BY <1>2 DEF StageOf
      <4> QED
        BY <4>1, <4>2, <4>3
    <3>2. CASE ~m.requires_source
      <4>1. PICK k \in 1 .. ne : B[1 + k].pm = m
        BY <1>2, <3>2 DEF StageOf
      <4>2. 1 + k \in 1 .. (i - 1)
        BY <2>1
      <4>3. B[1 + k].op = "install"
        BY <1>2 DEF StageOf
      <4> QED
        BY <4>1, <4>2, <4>3
    <3> QED
      BY <3>1, <3>2
  <2>3. ASSUME NEW j \in DOMAIN B, B[j].op = "prod"
        PROVE  j > i
    <3>1. j \in 4 + ne + nq .. 3 + ne + nq + np
      BY <1>3, <2>3 DEF LayerAt
    <3> QED
      BY <2>1, <3>1
  <2> QED
    BY <2>2, <2>3
<1>14. Staged!BuildSeesEverything
  BY <1>13 DEF Staged!BuildSeesEverything
<1> QED
  BY <1>6, <1>12, <1>14

-----------------------------------------------------------------------------
(* The merge of runtime blocks. *)

\* What four layers L1 to L4 come to, key by key.
EnvsFit(L1, L2, L3, L4, E) ==
  /\ \A k : k \in DOMAIN E.env <=>
              /\ k \notin DOMAIN L4
              /\ k \in DOMAIN L3 \/ (k \in DOMAIN L1 /\ k \notin DOMAIN L2)
  /\ \A k : k \in DOMAIN E.secrets <=> k \in DOMAIN L4 \/ (k \in DOMAIN L2 /\ k \notin DOMAIN L3)
  /\ \A k \in DOMAIN E.env : E.env[k] = IF k \in DOMAIN L3 THEN L3[k] ELSE L1[k]
  /\ \A k \in DOMAIN E.secrets : E.secrets[k] = IF k \in DOMAIN L4 THEN L4[k] ELSE L2[k]
LEMMA EnvsAre ==
  ASSUME NEW def, NEW named
  PROVE  EnvsFit(Blocks!Layer(def, "env"),
                 IF Blocks!Field(named, "inherit_secrets", TRUE) THEN Blocks!Layer(def, "secrets")
                 ELSE Blocks!Nothing,
                 Blocks!Layer(named, "env"), Blocks!Layer(named, "secrets"),
                 Blocks!resolveEnvs(def, named))
<1> DEFINE L1 == Blocks!Layer(def, "env")
           L2 == IF Blocks!Field(named, "inherit_secrets", TRUE) THEN Blocks!Layer(def, "secrets")
                 ELSE Blocks!Nothing
           L3 == Blocks!Layer(named, "env")
           L4 == Blocks!Layer(named, "secrets")
           D == DOMAIN L1 \cup DOMAIN L2 \cup DOMAIN L3 \cup DOMAIN L4
           Found(k) == IF k \in DOMAIN L4 THEN L4[k] ELSE IF k \in DOMAIN L3 THEN L3[k]
                       ELSE IF k \in DOMAIN L2 THEN L2[k] ELSE L1[k]
           effective == [k \in D |-> Found(k)]
           Hidden(k) == k \in DOMAIN L4 \/ (k \in DOMAIN L2 /\ k \notin DOMAIN L3)
           E == Blocks!resolveEnvs(def, named)
<1>1. E = [env |-> [k \in {x \in D : ~Hidden(x)} |-> effective[k]],
           secrets |-> [k \in {x \in D : Hidden(x)} |-> effective[k]]]
  BY DEF Blocks!resolveEnvs, Blocks!Layer, Blocks!??
<1> HIDE DEF L1, L2, L3, L4, E
<1>2. /\ DOMAIN E.env = {x \in D : ~Hidden(x)} /\ DOMAIN E.secrets = {x \in D : Hidden(x)}
      /\ \A k \in DOMAIN E.env : E.env[k] = Found(k)
      /\ \A k \in DOMAIN E.secrets : E.secrets[k] = Found(k)
  BY <1>1
<1>3. EnvsFit(L1, L2, L3, L4, E)
  BY <1>2 DEF EnvsFit
<1> QED
  BY <1>3 DEF L1, L2, L3, L4, E

\* What a container sees: its own values, then those of its runtime and of its
\* service, then the Secret.
SeenAs(C, e, f, low, h) ==
  /\ DOMAIN C = DOMAIN e \cup DOMAIN f \cup DOMAIN low \cup DOMAIN h
  /\ \A k \in DOMAIN C : C[k] = IF k \in DOMAIN e THEN e[k] ELSE IF k \in DOMAIN f THEN f[k]
                                ELSE IF k \in DOMAIN low THEN low[k] ELSE h[k]
LEMMA SeenIs ==
  ASSUME NEW service, NEW r, NEW p
  PROVE  SeenAs(Blocks!ContainerEnv(service, r, p), p.env, r.envs.env, service.env, r.envs.secrets)
<1> DEFINE e == p.env  f == r.envs.env  low == service.env  h == r.envs.secrets
           C == Blocks!ContainerEnv(service, r, p)
           D == DOMAIN e \cup DOMAIN f \cup DOMAIN low \cup DOMAIN h
           Value(k) == IF k \in DOMAIN e THEN e[k] ELSE IF k \in DOMAIN f THEN f[k]
                       ELSE IF k \in DOMAIN low THEN low[k] ELSE h[k]
<1>1. C = [k \in D |-> Value(k)]
  BY DEF Blocks!ContainerEnv, Blocks!resolveEnv, Blocks!??
<1> HIDE DEF C, e, f, low, h
<1>2. SeenAs(C, e, f, low, h)
  BY <1>1 DEF SeenAs
<1> QED
  BY <1>2 DEF C, e, f, low, h

\* The default block of a service, with the defaults of what it does not set.
LEMMA DefaultIs ==
  ASSUME NEW m
  PROVE  LET d == m["default"]  def == Blocks!DefaultBlock(m)
         IN  /\ DOMAIN def = DOMAIN d \cup {"port", "cpu", "replicas"}
             /\ \A f \in DOMAIN d : def[f] = d[f]
             /\ \A f, x : f \notin {"port", "cpu", "replicas"} =>
                  Blocks!Field(def, f, x) = Blocks!Field(d, f, x)
<1> DEFINE d == m["default"]  def == Blocks!DefaultBlock(m)
           rest == [port |-> 3000, cpu |-> "1", replicas |-> 1]
<1>1. def = [x \in DOMAIN d \cup {"port", "cpu", "replicas"} |->
               IF x \in DOMAIN d THEN d[x] ELSE rest[x]]
  BY DEF Blocks!DefaultBlock, Blocks!??
<1> HIDE DEF d, def, rest
<1>2. /\ DOMAIN def = DOMAIN d \cup {"port", "cpu", "replicas"}
      /\ \A f \in DOMAIN d : def[f] = d[f]
  BY <1>1
<1>3. ASSUME NEW f, NEW x, f \notin {"port", "cpu", "replicas"}
      PROVE  Blocks!Field(def, f, x) = Blocks!Field(d, f, x)
  BY <1>2, <1>3 DEF Blocks!Field
<1> QED
  BY <1>2, <1>3 DEF d, def

\* A merge has what the overlay sets, else what the base does, of the fields that
\* are no maps.
LEMMA MergedIs ==
  ASSUME NEW base, NEW overlay, NEW f, f \notin {"env", "secrets", "processes"}, NEW x
  PROVE  Blocks!Field(Blocks!mergeRuntimeBlock(base, overlay), f, x) =
           Blocks!Field(overlay, f, Blocks!Field(base, f, x))
<1> DEFINE flat == Blocks!mergeFlat(base, overlay)
           all == Blocks!mergeRuntimeBlock(base, overlay)
<1>1. /\ f \in DOMAIN flat <=> f \in DOMAIN overlay \cup DOMAIN base
      /\ f \in DOMAIN flat => flat[f] = IF f \in DOMAIN overlay THEN overlay[f] ELSE base[f]
  BY DEF Blocks!mergeFlat, Blocks!??, Blocks!Nothing
<1>2. /\ f \in DOMAIN all <=> f \in DOMAIN flat
      /\ f \in DOMAIN all => all[f] = flat[f]
  BY DEF Blocks!mergeRuntimeBlock, Blocks!??, Blocks!Nothing
<1> QED
  BY <1>1, <1>2 DEF Blocks!Field

\* And of an environment what either sets.
LEMMA MergedEnvIs ==
  ASSUME NEW base, NEW overlay
  PROVE  Blocks!Layer(Blocks!mergeFlat(base, overlay), "env") =
           IF "env" \in DOMAIN overlay
           THEN [k \in DOMAIN overlay.env \cup DOMAIN Blocks!Layer(base, "env") |->
                   IF k \in DOMAIN overlay.env THEN overlay.env[k]
                   ELSE Blocks!Layer(base, "env")[k]]
           ELSE Blocks!Layer(base, "env")
<1> DEFINE flat == Blocks!mergeFlat(base, overlay)
<1>1. CASE "env" \in DOMAIN overlay
  <2> DEFINE e == Blocks!Field(base, "env", Blocks!Nothing)
             h == [k \in DOMAIN overlay.env \cup DOMAIN e |->
                     IF k \in DOMAIN overlay.env THEN overlay.env[k] ELSE e[k]]
  <2>1. "env" \in DOMAIN flat /\ flat.env = h
    BY <1>1 DEF Blocks!mergeFlat, Blocks!??
  <2> QED
    BY <1>1, <2>1 DEF Blocks!Layer, Blocks!Field
<1>2. CASE "env" \notin DOMAIN overlay
  <2>1. /\ "env" \in DOMAIN flat <=> "env" \in DOMAIN base
        /\ "env" \in DOMAIN flat => flat.env = base.env
    BY <1>2 DEF Blocks!mergeFlat, Blocks!??, Blocks!Nothing
  <2> QED
    BY <1>2, <2>1 DEF Blocks!Layer, Blocks!Field
<1> QED
  BY <1>1, <1>2

\* A flat service runs as one process, which has what its runtime comes to.
LEMMA FlatIs ==
  ASSUME NEW m, NEW r, "processes" \notin DOMAIN m["default"]
  PROVE  LET base == Blocks!normalizeProcesses(m)  ps == Blocks!resolveProcesses(m, r)
         IN  /\ DOMAIN base = {"default"} /\ base["default"].port = Blocks!DefaultBlock(m).port
             /\ DOMAIN ps = {"default"}
             /\ ps["default"].command = r.command /\ ps["default"].port = r.port
             /\ ps["default"].cpu = r.cpu /\ ps["default"].replicas = r.replicas
             /\ ps["default"].volumes = r.volumes /\ ps["default"].env = r.envs.env
<1> DEFINE base == Blocks!normalizeProcesses(m)  ps == Blocks!resolveProcesses(m, r)
           extra == Blocks!Field(Blocks!DefaultBlock(m), "extra_ports", {})
           one == Blocks!synthesizeDefaultProcess(r, extra)
<1>1. "processes" \notin DOMAIN Blocks!DefaultBlock(m)
  <2>1. DOMAIN Blocks!DefaultBlock(m) = DOMAIN m["default"] \cup {"port", "cpu", "replicas"}
    BY DefaultIs
  <2> QED
    BY <2>1
<1>2. DOMAIN base = {"default"} /\ base["default"].port = Blocks!DefaultBlock(m).port
  BY <1>1 DEF Blocks!normalizeProcesses, Blocks!Process
<1>3. ps = [default |-> one]
  BY <1>2 DEF Blocks!resolveProcesses
<1>4. /\ one.command = r.command /\ one.port = r.port /\ one.cpu = r.cpu
      /\ one.replicas = r.replicas /\ one.volumes = r.volumes /\ one.env = r.envs.env
  BY DEF Blocks!synthesizeDefaultProcess, Blocks!Process
<1> HIDE DEF one, ps, base
<1>5. DOMAIN ps = {"default"} /\ ps["default"] = one
  BY <1>3
<1> QED
  BY <1>2, <1>4, <1>5 DEF base, ps

\* One with processes runs as each of them, with the environment of its own, then
\* the runtime's, and before both what the runtime sets for it.
LEMMA ManyAre ==
  ASSUME NEW m, NEW r, "processes" \in DOMAIN m["default"],
         DOMAIN m["default"].processes # {"default"}
  PROVE  LET base == Blocks!normalizeProcesses(m)  ps == Blocks!resolveProcesses(m, r)
             own == m["default"].processes
         IN  /\ DOMAIN base = DOMAIN own
             /\ DOMAIN own = {} => /\ base = Blocks!Nothing /\ DOMAIN ps = {"default"}
                                   /\ ps["default"].port = r.port
                                   /\ ps["default"].env = r.envs.env
             /\ DOMAIN own # {} => /\ DOMAIN ps = DOMAIN own
                                   /\ \A p \in DOMAIN own : ps[p].port = base[p].port
             /\ \A p \in DOMAIN own : \A k : DOMAIN own # {} /\ k \in DOMAIN ps[p].env =>
                  LET top == Blocks!Layer(Blocks!Field(r.processes, p, Blocks!Nothing), "env")
                      low == Blocks!Layer(own[p], "env")
                  IN  \/ k \in DOMAIN top /\ ps[p].env[k] = top[k]
                      \/ k \in DOMAIN r.envs.env /\ ps[p].env[k] = r.envs.env[k]
                      \/ k \in DOMAIN low /\ ps[p].env[k] = low[k]
<1> DEFINE base == Blocks!normalizeProcesses(m)  ps == Blocks!resolveProcesses(m, r)
           own == m["default"].processes
           def == Blocks!DefaultBlock(m)
           extra == Blocks!Field(def, "extra_ports", {})
           one == Blocks!synthesizeDefaultProcess(r, extra)
           Over(p) == Blocks!Field(r.processes, p, Blocks!Nothing)
           top(p) == Blocks!Layer(Over(p), "env")
           low(p) == Blocks!Layer(own[p], "env")
           Env1(p) == [k \in DOMAIN top(p) \cup DOMAIN r.envs.env \cup DOMAIN base[p].env |->
                         IF k \in DOMAIN top(p) THEN top(p)[k]
                         ELSE IF k \in DOMAIN r.envs.env THEN r.envs.env[k] ELSE base[p].env[k]]
<1>1. "processes" \in DOMAIN def /\ def.processes = own
  BY DefaultIs
<1>2. /\ base = [p \in DOMAIN own |-> base[p]]
      /\ \A p \in DOMAIN own : /\ base[p] = [base[p] EXCEPT !.port = base[p].port]
                               /\ base[p].env = low(p)
                               /\ DOMAIN base[p] = {"command", "port", "extraPorts", "cpu",
                                                    "replicas", "volumes", "env"}
  BY <1>1 DEF Blocks!normalizeProcesses, Blocks!Process, Blocks!Layer
<1>3. DOMAIN base = DOMAIN own
  BY <1>2
<1>4. ASSUME DOMAIN own = {}
      PROVE  /\ base = Blocks!Nothing /\ DOMAIN ps = {"default"}
             /\ ps["default"].port = r.port /\ ps["default"].env = r.envs.env
  <2>1. base = Blocks!Nothing
    BY <1>2, <1>4 DEF Blocks!Nothing
  <2>2. ps = [default |-> one]
    BY <1>3, <1>4 DEF Blocks!resolveProcesses
  <2>3. one.port = r.port /\ one.env = r.envs.env
    BY DEF Blocks!synthesizeDefaultProcess, Blocks!Process
  <2> HIDE DEF one, ps
  <2> QED
    BY <2>1, <2>2, <2>3
<1>5. ASSUME DOMAIN own # {}
      PROVE  /\ DOMAIN ps = DOMAIN own
             /\ \A p \in DOMAIN own : ps[p].port = base[p].port /\ ps[p].env = Env1(p)
  <2>1. ~(DOMAIN base \subseteq {"default"})
    BY <1>3, <1>5
  <2> DEFINE Of(p) == [base[p] EXCEPT !.cpu = Blocks!Field(Over(p), "cpu", @),
                                      !.replicas = Blocks!Field(Over(p), "replicas", @),
                                      !.env = Env1(p)]
  <2>2. ps = [p \in DOMAIN base |-> Of(p)]
    BY <2>1 DEF Blocks!resolveProcesses, Blocks!Layer, Blocks!??
  <2>3. ASSUME NEW p \in DOMAIN own
        PROVE  Of(p).port = base[p].port /\ Of(p).env = Env1(p)
    <3> DEFINE b == base[p]  e == Env1(p)
    <3>1. DOMAIN b = {"command", "port", "extraPorts", "cpu", "replicas", "volumes", "env"}
      BY <1>2
    <3> HIDE DEF b, e
    <3>2. [b EXCEPT !.cpu = Blocks!Field(Over(p), "cpu", @),
                    !.replicas = Blocks!Field(Over(p), "replicas", @), !.env = e].port = b.port
      BY <3>1
    <3>3. [b EXCEPT !.cpu = Blocks!Field(Over(p), "cpu", @),
                    !.replicas = Blocks!Field(Over(p), "replicas", @), !.env = e].env = e
      BY <3>1
    <3> QED
      BY <3>2, <3>3 DEF b, e
  <2> HIDE DEF Of, ps, base
  <2> QED
    BY <1>3, <2>2, <2>3
<1>6. ASSUME NEW p \in DOMAIN own, NEW k, DOMAIN own # {}, k \in DOMAIN ps[p].env
      PROVE  \/ k \in DOMAIN top(p) /\ ps[p].env[k] = top(p)[k]
             \/ k \in DOMAIN r.envs.env /\ ps[p].env[k] = r.envs.env[k]
             \/ k \in DOMAIN low(p) /\ ps[p].env[k] = low(p)[k]
  <2>1. ps[p].env = Env1(p) /\ base[p].env = low(p)
    BY <1>2, <1>5, <1>6
  <2> HIDE DEF ps, base, top, low
  <2> QED
    BY <1>6, <2>1
<1> QED
  BY <1>3, <1>4, <1>5, <1>6

\* What a runtime comes to.
LEMMA ResolvedIs ==
  ASSUME NEW m
  PROVE  LET def == Blocks!DefaultBlock(m)  o == Blocks!Overlay(m, RuntimeName)
             r == Blocks!resolveRuntime(m, RuntimeName)
         IN  /\ r.command = Blocks!Field(o, "command", Blocks!Field(def, "command", Blocks!None))
             /\ r.port = Blocks!Field(o, "port", Blocks!Field(def, "port", Blocks!NoPort))
             /\ r.cpu = Blocks!Field(o, "cpu", Blocks!Field(def, "cpu", Blocks!None))
             /\ r.replicas = Blocks!Field(o, "replicas", Blocks!Field(def, "replicas", Blocks!None))
             /\ r.volumes = Blocks!Field(o, "volumes", Blocks!Field(def, "volumes", {}))
             /\ r.processes = Blocks!Layer(Blocks!mergeRuntimeBlock(def, o), "processes")
             /\ r.envs = Blocks!resolveEnvs(def, o)
<1> DEFINE def == Blocks!DefaultBlock(m)  o == Blocks!Overlay(m, RuntimeName)
           r == Blocks!resolveRuntime(m, RuntimeName)  all == Blocks!mergeRuntimeBlock(def, o)
<1>1. /\ r.command = Blocks!Field(all, "command", Blocks!None)
      /\ r.port = Blocks!Field(o, "port", Blocks!Field(def, "port", Blocks!NoPort))
      /\ r.cpu = Blocks!Field(o, "cpu", Blocks!Field(def, "cpu", Blocks!None))
      /\ r.replicas = Blocks!Field(o, "replicas", Blocks!Field(def, "replicas", Blocks!None))
      /\ r.volumes = Blocks!Field(o, "volumes", Blocks!Field(def, "volumes", {}))
      /\ r.processes = Blocks!Layer(all, "processes")
      /\ r.envs = Blocks!resolveEnvs(def, o)
  BY DEF Blocks!resolveRuntime, Blocks!Layer
<1>2. Blocks!Field(all, "command", Blocks!None)
        = Blocks!Field(o, "command", Blocks!Field(def, "command", Blocks!None))
  BY MergedIs
<1> HIDE DEF r, all
<1> QED
  BY <1>1, <1>2 DEF r, all

\* The processes of a runtime are those of the default block and of the overlay,
\* and each has what either sets in its environment.
LEMMA ProcessesAre ==
  ASSUME NEW m
  PROVE  LET d == m["default"]  o == Blocks!Overlay(m, RuntimeName)
             r == Blocks!resolveRuntime(m, RuntimeName)
             below == Blocks!Layer(d, "processes")  above == Blocks!Layer(o, "processes")
         IN  /\ DOMAIN r.processes = DOMAIN below \cup DOMAIN above
             /\ \A p \in DOMAIN below :
                  DOMAIN Blocks!Layer(below[p], "env") \subseteq
                    DOMAIN Blocks!Layer(r.processes[p], "env")
             /\ \A p \in DOMAIN r.processes : \A k \in DOMAIN Blocks!Layer(r.processes[p], "env") :
                  \E b \in Blocks!ValuesOf(below) \cup Blocks!ValuesOf(above) :
                    /\ k \in DOMAIN Blocks!Layer(b, "env")
                    /\ Blocks!Layer(r.processes[p], "env")[k] = Blocks!Layer(b, "env")[k]
<1> DEFINE d == m["default"]  o == Blocks!Overlay(m, RuntimeName)
           def == Blocks!DefaultBlock(m)
           r == Blocks!resolveRuntime(m, RuntimeName)
           below == Blocks!Layer(d, "processes")  above == Blocks!Layer(o, "processes")
           Both1(p) == Blocks!mergeFlat(below[p], above[p])
           ps == r.processes
<1>1. below = Blocks!Layer(def, "processes")
  BY DefaultIs DEF Blocks!Layer
<1>2. ps = Blocks!Layer(Blocks!mergeRuntimeBlock(def, o), "processes")
  BY ResolvedIs
<1> DEFINE Sound == /\ DOMAIN ps = DOMAIN below \cup DOMAIN above
                    /\ \A p \in DOMAIN below :
                         DOMAIN Blocks!Layer(below[p], "env") \subseteq
                           DOMAIN Blocks!Layer(ps[p], "env")
                    /\ \A p \in DOMAIN ps : \A k \in DOMAIN Blocks!Layer(ps[p], "env") :
                         \E b \in Blocks!ValuesOf(below) \cup Blocks!ValuesOf(above) :
                           /\ k \in DOMAIN Blocks!Layer(b, "env")
                           /\ Blocks!Layer(ps[p], "env")[k] = Blocks!Layer(b, "env")[k]
<1>3. ASSUME "processes" \in DOMAIN o PROVE Sound
  <2>1. ps = [p \in DOMAIN above \cup DOMAIN below |->
                IF p \in DOMAIN above
                THEN IF p \in DOMAIN below THEN Both1(p) ELSE above[p] ELSE below[p]]
    <3> DEFINE merged == [p \in DOMAIN above |-> IF p \in DOMAIN below THEN Both1(p) ELSE above[p]]
               flat == Blocks!mergeFlat(def, o)
               all == Blocks!mergeRuntimeBlock(def, o)
    <3>1. all = Blocks!??([processes |-> Blocks!??(merged, below)], flat)
      BY <1>1, <1>3 DEF Blocks!mergeRuntimeBlock, Blocks!Layer
    <3>2. "processes" \in DOMAIN all /\ all["processes"] = Blocks!??(merged, below)
      BY <3>1 DEF Blocks!??
    <3>3. ps = Blocks!??(merged, below)
      BY <1>2, <3>2 DEF Blocks!Layer, Blocks!Field
    <3> HIDE DEF ps, above, below
    <3> QED
      BY <3>3 DEF Blocks!??
  <2>2. ASSUME NEW p \in DOMAIN above \cap DOMAIN below
        PROVE  /\ DOMAIN Blocks!Layer(below[p], "env")
                    \subseteq DOMAIN Blocks!Layer(Both1(p), "env")
               /\ \A k \in DOMAIN Blocks!Layer(Both1(p), "env") : \E b \in {below[p], above[p]} :
                    /\ k \in DOMAIN Blocks!Layer(b, "env")
                    /\ Blocks!Layer(Both1(p), "env")[k] = Blocks!Layer(b, "env")[k]
    <3> DEFINE x == below[p]  y == above[p]  e == Blocks!Layer(x, "env")
    <3>1. Blocks!Layer(Both1(p), "env") =
            IF "env" \in DOMAIN y
            THEN [k \in DOMAIN y.env \cup DOMAIN e |->
                    IF k \in DOMAIN y.env THEN y.env[k] ELSE e[k]]
            ELSE e
      BY MergedEnvIs
    <3>2. "env" \in DOMAIN y => Blocks!Layer(y, "env") = y.env
      BY DEF Blocks!Layer, Blocks!Field
    <3> HIDE DEF x, y, Both1, above, below
    <3> QED
      BY <3>1, <3>2 DEF x, y, e
  <2> HIDE DEF ps, above, below, Both1
  <2> QED
    BY <2>1, <2>2 DEF Blocks!ValuesOf
<1>4. ASSUME "processes" \notin DOMAIN o PROVE Sound
  <2>1. ps = below
    <3> DEFINE flat == Blocks!mergeFlat(def, o)
               all == Blocks!mergeRuntimeBlock(def, o)
    <3>1. all = Blocks!??(Blocks!Nothing, flat)
      BY <1>4 DEF Blocks!mergeRuntimeBlock
    <3>2. /\ "processes" \in DOMAIN flat <=> "processes" \in DOMAIN def
          /\ "processes" \in DOMAIN flat => flat["processes"] = def["processes"]
      <4> HIDE DEF def, o
      <4> QED
        BY <1>4 DEF Blocks!mergeFlat, Blocks!Nothing, Blocks!??
    <3> HIDE DEF flat
    <3>3. /\ "processes" \in DOMAIN all <=> "processes" \in DOMAIN flat
          /\ "processes" \in DOMAIN all => all["processes"] = flat["processes"]
      BY <3>1 DEF Blocks!Nothing, Blocks!??
    <3> HIDE DEF all, def, below, ps
    <3> QED
      BY <1>1, <1>2, <3>2, <3>3 DEF Blocks!Layer, Blocks!Field, all
  <2>2. DOMAIN above = {}
    BY <1>4 DEF Blocks!Layer, Blocks!Field, Blocks!Nothing
  <2> HIDE DEF ps, above, below
  <2>3. /\ DOMAIN ps = DOMAIN below \cup DOMAIN above
        /\ \A p \in DOMAIN below : p \in DOMAIN ps /\ ps[p] = below[p]
    BY <2>1, <2>2
  <2> QED
    BY <2>1, <2>2, <2>3 DEF Blocks!ValuesOf
<1> HIDE DEF ps, above, below
<1>5. Sound
  BY <1>3, <1>4
<1> QED
  BY <1>5 DEF ps, above, below

\* Before the deploy nothing is known, and after it what follows from the files.
BlockInv == v1 = Blocks!NoCall \/ \E P \in BlockProjects : v1 = Blocks!Deployed(P)

\* What is known of a service.
Known(P, s, m, r, ps) ==
  /\ v1.R[s] = r /\ v1.deployed[s] = ps /\ DOMAIN v1.sees[s] = DOMAIN ps
  /\ \A p \in DOMAIN ps : v1.sees[s][p] = Blocks!ContainerEnv(P[s], r, ps[p])
  /\ v1.addresses[s] = Blocks!svcDepEnvVars(Blocks!runtimeDeps(m), v1.registry)
LEMMA DeployedIs ==
  ASSUME NEW P, v1 = Blocks!Deployed(P), NEW s \in DOMAIN P
  PROVE  LET m == P[s].runtimes  r == Blocks!resolveRuntime(m, RuntimeName)
         IN  Known(P, s, m, r, Blocks!resolveProcesses(m, r))
<1> DEFINE R == [t \in DOMAIN P |-> Blocks!resolveRuntime(P[t].runtimes, RuntimeName)]
           D == [t \in DOMAIN P |-> Blocks!resolveProcesses(P[t].runtimes, R[t])]
           registry == Blocks!projectServiceRegistry(P, RuntimeName, FALSE)
           S == [t \in DOMAIN P |->
                   [p \in DOMAIN D[t] |-> Blocks!ContainerEnv(P[t], R[t], D[t][p])]]
           A == [t \in DOMAIN P |->
                   Blocks!svcDepEnvVars(Blocks!runtimeDeps(P[t].runtimes), registry)]
<1>1. /\ v1.R = R /\ v1.deployed = D /\ v1.sees = S /\ v1.addresses = A /\ v1.registry = registry
  BY DEF Blocks!Deployed
<1>2. /\ R[s] = Blocks!resolveRuntime(P[s].runtimes, RuntimeName)
      /\ D[s] = Blocks!resolveProcesses(P[s].runtimes, R[s])
  OBVIOUS
<1> HIDE DEF R, D, registry
<1>3. /\ DOMAIN S[s] = DOMAIN D[s]
      /\ \A p \in DOMAIN D[s] : S[s][p] = Blocks!ContainerEnv(P[s], R[s], D[s][p])
      /\ A[s] = Blocks!svcDepEnvVars(Blocks!runtimeDeps(P[s].runtimes), registry)
  OBVIOUS
<1> HIDE DEF S, A
<1> QED
  BY <1>1, <1>2, <1>3 DEF Known

\* And what was asked of the projects.
Asked(service) ==
  LET m == service.runtimes
  IN  /\ "default" \in DOMAIN m
      /\ DOMAIN Blocks!Layer(m["default"], "processes") # {"default"}
      /\ Blocks!ValuesOf(Blocks!Layer(m["default"], "secrets"))
           \cap Blocks!OtherValues(service) = {}
LEMMA ProjectIs ==
  ASSUME NEW P \in BlockProjects, v1 = Blocks!Deployed(P)
  PROVE  /\ v1.done /\ v1.P = P
         /\ v1.registry = Blocks!projectServiceRegistry(P, RuntimeName, FALSE)
         /\ \A s \in DOMAIN P : Asked(P[s])
<1>1. /\ v1.done /\ v1.P = P
      /\ v1.registry = Blocks!projectServiceRegistry(P, RuntimeName, FALSE)
  BY DEF Blocks!Deployed
<1>2. Blocks!BlockAssumption
  BY ProjectAssumptions
<1> QED
  BY <1>1, <1>2 DEF Blocks!BlockAssumption, Asked

\* A flat service has the last value that its layers give a key.
LEMMA LastLayerIs ==
  ASSUME NEW P \in BlockProjects, v1 = Blocks!Deployed(P), NEW s \in DOMAIN P
  PROVE  Blocks!LastWins(s, P[s].runtimes)
<1> SUFFICES ASSUME "processes" \notin DOMAIN P[s].runtimes["default"]
             PROVE  Blocks!LastWins(s, P[s].runtimes)
  BY DEF Blocks!LastWins, Blocks!Lone
<1> DEFINE m == P[s].runtimes  o == Blocks!Overlay(m, RuntimeName)  def == Blocks!DefaultBlock(m)
           r == Blocks!resolveRuntime(m, RuntimeName)
           ps == Blocks!resolveProcesses(m, r)
           E == Blocks!resolveEnvs(def, o)
           L1 == Blocks!Layer(def, "env")
           L2 == IF Blocks!Field(o, "inherit_secrets", TRUE) THEN Blocks!Layer(def, "secrets")
                 ELSE Blocks!Nothing
           L3 == Blocks!Layer(o, "env")
           L4 == Blocks!Layer(o, "secrets")
           e == P[s].env
           C == v1.sees[s]["default"]
           one == v1.deployed[s]["default"]
           secrets == Blocks!Layer(m["default"], "secrets")
<1>1. secrets = Blocks!Layer(def, "secrets")
  BY DefaultIs DEF Blocks!Layer
<1>2. r.envs = E
  BY ResolvedIs
<1>3. DOMAIN ps = {"default"} /\ ps["default"].env = E.env
  BY <1>2, FlatIs
<1>4. one = ps["default"] /\ C = Blocks!ContainerEnv(P[s], r, one) /\ v1.P = P
  <2>1. Known(P, s, m, r, ps) /\ v1.P = P
    BY DeployedIs, ProjectIs
  <2> HIDE DEF ps, r
  <2> QED
    BY <1>3, <2>1 DEF Known
<1>5. EnvsFit(L1, L2, L3, L4, E)
  BY EnvsAre
<1>6. /\ DOMAIN C = DOMAIN E.env \cup DOMAIN e \cup DOMAIN E.secrets
      /\ \A k \in DOMAIN C : C[k] = IF k \in DOMAIN E.env THEN E.env[k]
                                    ELSE IF k \in DOMAIN e THEN e[k] ELSE E.secrets[k]
      /\ one.env = E.env
  <2> HIDE DEF E, C, one, r, ps
  <2>1. SeenAs(C, one.env, r.envs.env, e, r.envs.secrets)
    BY <1>4, SeenIs
  <2> QED
    BY <1>2, <1>3, <1>4, <2>1 DEF SeenAs
<1> DEFINE Wins == /\ \A k \in DOMAIN L4 \ DOMAIN e : C[k] = L4[k] /\ k \notin DOMAIN one.env
                   /\ \A k \in DOMAIN L3 \ DOMAIN L4 : C[k] = L3[k]
                   /\ \A k \in DOMAIN L2 \ (DOMAIN L3 \cup DOMAIN L4 \cup DOMAIN e) :
                        C[k] = L2[k] /\ k \notin DOMAIN one.env
<1>7. Wins
  <2> HIDE DEF E, C, one, r, ps, L1, L2, L3, L4, e
  <2> QED
    BY <1>5, <1>6 DEF EnvsFit
<1> DEFINE inherited == IF Blocks!Field(o, "inherit_secrets", TRUE) THEN secrets
                        ELSE Blocks!Nothing
<1>8. v1.P[s].env = e /\ L2 = inherited
  BY <1>1, <1>4
<1> HIDE DEF L2, L3, L4, inherited, e, secrets
<1>9. /\ \A k \in DOMAIN L4 \ DOMAIN v1.P[s].env : C[k] = L4[k] /\ k \notin DOMAIN one.env
      /\ \A k \in DOMAIN L3 \ DOMAIN L4 : C[k] = L3[k]
      /\ \A k \in DOMAIN inherited \ (DOMAIN L3 \cup DOMAIN L4 \cup DOMAIN v1.P[s].env) :
           C[k] = inherited[k] /\ k \notin DOMAIN one.env
  BY <1>7, <1>8
<1> QED
  BY <1>9 DEF Blocks!LastWins, L3, L4, inherited, secrets

\* A runtime that inherits no secrets has none: what any of its processes sees is
\* of the overlay, or written in the open.
LEMMA OptOutIs ==
  ASSUME NEW P \in BlockProjects, v1 = Blocks!Deployed(P), NEW s \in DOMAIN P
  PROVE  Blocks!OptedOut(s, P[s].runtimes)
<1> SUFFICES
      ASSUME ~Blocks!Field(Blocks!Overlay(P[s].runtimes, RuntimeName), "inherit_secrets", TRUE),
             NEW p \in DOMAIN v1.sees[s],
             NEW k \in DOMAIN Blocks!Layer(P[s].runtimes["default"], "secrets"),
             k \in DOMAIN v1.sees[s][p]
      PROVE  v1.sees[s][p][k] # Blocks!Layer(P[s].runtimes["default"], "secrets")[k]
  BY DEF Blocks!OptedOut
<1> DEFINE m == P[s].runtimes  o == Blocks!Overlay(m, RuntimeName)  def == Blocks!DefaultBlock(m)
           d == m["default"]
           r == Blocks!resolveRuntime(m, RuntimeName)
           ps == Blocks!resolveProcesses(m, r)
           E == Blocks!resolveEnvs(def, o)
           L1 == Blocks!Layer(d, "env")  L3 == Blocks!Layer(o, "env")
           L4 == Blocks!Layer(o, "secrets")
           own == Blocks!Layer(d, "processes")  above == Blocks!Layer(o, "processes")
           e == P[s].env
           C == v1.sees[s][p]
           all == {d, o} \cup Blocks!ValuesOf(own) \cup Blocks!ValuesOf(above)
           secret == Blocks!Layer(d, "secrets")[k]
<1>1. /\ secret \notin Blocks!ValuesOf(e) /\ secret \notin Blocks!ValuesOf(L4)
      /\ \A b \in all : secret \notin Blocks!ValuesOf(Blocks!Layer(b, "env"))
      /\ DOMAIN own # {"default"}
  <2>1. secret \in Blocks!ValuesOf(Blocks!Layer(d, "secrets"))
    BY DEF Blocks!ValuesOf
  <2>2. /\ Blocks!ValuesOf(Blocks!Layer(d, "secrets")) \cap Blocks!OtherValues(P[s]) = {}
        /\ DOMAIN own # {"default"}
    BY ProjectIs DEF Asked
  <2>3. Blocks!OtherValues(P[s]) = Blocks!ValuesOf(e) \cup Blocks!ValuesOf(L4)
          \cup UNION {Blocks!ValuesOf(Blocks!Layer(b, "env")) : b \in all}
    BY DEF Blocks!OtherValues
  <2> HIDE DEF secret, d, e, L4, all
  <2> QED
    BY <2>1, <2>2, <2>3
<1>2. r.envs = E
  BY ResolvedIs
<1>3. /\ p \in DOMAIN ps /\ C = Blocks!ContainerEnv(P[s], r, ps[p])
  <2>1. Known(P, s, m, r, ps)
    BY DeployedIs
  <2> HIDE DEF ps, r
  <2> QED
    BY <2>1 DEF Known
<1>4. L1 = Blocks!Layer(def, "env")
  BY DefaultIs DEF Blocks!Layer
<1>5. /\ \A x \in DOMAIN E.env : E.env[x] \in Blocks!ValuesOf(L1) \cup Blocks!ValuesOf(L3)
      /\ \A x \in DOMAIN E.secrets : E.secrets[x] \in Blocks!ValuesOf(L4)
  <2> DEFINE D1 == Blocks!Layer(def, "env")
  <2>1. EnvsFit(D1, Blocks!Nothing, L3, L4, E)
    BY EnvsAre
  <2>2. DOMAIN Blocks!Nothing = {}
    BY DEF Blocks!Nothing
  <2> HIDE DEF E, D1, L1, L3, L4
  <2> QED
    BY <1>4, <2>1, <2>2 DEF D1, EnvsFit, Blocks!ValuesOf
<1>6. ASSUME k \in DOMAIN ps[p].env
      PROVE  ps[p].env[k] # secret
  <2>1. CASE "processes" \notin DOMAIN d
    <3>1. DOMAIN ps = {"default"} /\ ps["default"].env = E.env
      BY <1>2, <2>1, FlatIs
    <3> HIDE DEF ps, E, secret, L1, L3, L4, d, o, all
    <3> QED
      BY <1>1, <1>3, <1>5, <1>6, <3>1 DEF all, L1, L3
  <2>2. CASE "processes" \in DOMAIN d
    <3>1. own = d.processes /\ DOMAIN d.processes # {"default"}
      <4>1. own = d.processes
        BY <2>2 DEF Blocks!Layer, Blocks!Field
      <4> QED
        BY <1>1, <4>1
    <3>2. CASE DOMAIN own = {}
      <4>1. DOMAIN ps = {"default"} /\ ps["default"].env = E.env
        BY <1>2, <2>2, <3>1, <3>2, ManyAre
      <4> HIDE DEF ps, E, secret, L1, L3, L4, d, o, all
      <4> QED
        BY <1>1, <1>3, <1>5, <1>6, <4>1 DEF all, L1, L3
    <3>3. CASE DOMAIN own # {}
      <4> DEFINE top == Blocks!Layer(Blocks!Field(r.processes, p, Blocks!Nothing), "env")
                 low == Blocks!Layer(own[p], "env")
      <4>1. DOMAIN ps = DOMAIN own
        BY <2>2, <3>1, <3>3, ManyAre
      <4>2. \/ k \in DOMAIN top /\ ps[p].env[k] = top[k]
            \/ k \in DOMAIN r.envs.env /\ ps[p].env[k] = r.envs.env[k]
            \/ k \in DOMAIN low /\ ps[p].env[k] = low[k]
        BY <1>3, <1>6, <2>2, <3>1, <3>3, <4>1, ManyAre
      <4>3. ASSUME k \in DOMAIN top
            PROVE  \E b \in all : top[k] \in Blocks!ValuesOf(Blocks!Layer(b, "env"))
        <5>1. DOMAIN Blocks!Layer(Blocks!Nothing, "env") = {}
          BY DEF Blocks!Layer, Blocks!Field, Blocks!Nothing
        <5>2. p \in DOMAIN r.processes /\ top = Blocks!Layer(r.processes[p], "env")
          BY <4>3, <5>1 DEF Blocks!Field
        <5>3. \E b \in Blocks!ValuesOf(own) \cup Blocks!ValuesOf(above) :
                /\ k \in DOMAIN Blocks!Layer(b, "env")
                /\ Blocks!Layer(r.processes[p], "env")[k] = Blocks!Layer(b, "env")[k]
          BY <4>3, <5>2, ProcessesAre
        <5> HIDE DEF top, own, above, r
        <5>4. \E b \in Blocks!ValuesOf(own) \cup Blocks!ValuesOf(above) :
                top[k] \in Blocks!ValuesOf(Blocks!Layer(b, "env"))
          BY <5>2, <5>3 DEF Blocks!ValuesOf
        <5> QED
          BY <5>4
      <4>4. k \in DOMAIN low => \E b \in all : low[k] \in Blocks!ValuesOf(Blocks!Layer(b, "env"))
        <5>1. own[p] \in Blocks!ValuesOf(own)
          BY <1>3, <4>1 DEF Blocks!ValuesOf
        <5> HIDE DEF own, above
        <5>2. k \in DOMAIN low => low[k] \in Blocks!ValuesOf(Blocks!Layer(own[p], "env"))
          BY DEF Blocks!ValuesOf
        <5> HIDE DEF low
        <5> QED
          BY <5>1, <5>2
      <4>5. L1 = Blocks!Layer(d, "env") /\ L3 = Blocks!Layer(o, "env") /\ d \in all /\ o \in all
        OBVIOUS
      <4> HIDE DEF ps, E, secret, L1, L3, L4, d, o, all, top, low, r
      <4> QED
        BY <1>1, <1>2, <1>5, <4>2, <4>3, <4>4, <4>5
    <3> QED
      BY <3>2, <3>3
  <2> QED
    BY <2>1, <2>2
<1>7. /\ DOMAIN C = DOMAIN ps[p].env \cup DOMAIN r.envs.env \cup DOMAIN e \cup DOMAIN r.envs.secrets
      /\ \A x \in DOMAIN C : C[x] = IF x \in DOMAIN ps[p].env THEN ps[p].env[x]
                                    ELSE IF x \in DOMAIN r.envs.env THEN r.envs.env[x]
                                    ELSE IF x \in DOMAIN e THEN e[x] ELSE r.envs.secrets[x]
  <2> DEFINE q == ps[p]
  <2> HIDE DEF q, r, C
  <2>1. C = Blocks!ContainerEnv(P[s], r, q)
    BY <1>3 DEF q
  <2>2. SeenAs(C, q.env, r.envs.env, e, r.envs.secrets)
    BY <2>1, SeenIs
  <2> QED
    BY <2>2 DEF q, SeenAs
<1>8. L1 = Blocks!Layer(d, "env") /\ L3 = Blocks!Layer(o, "env") /\ d \in all /\ o \in all
  OBVIOUS
<1>9. k \in DOMAIN C /\ (k \in DOMAIN e => e[k] \in Blocks!ValuesOf(e))
  BY DEF Blocks!ValuesOf
<1>10. C[k] # secret
  <2> HIDE DEF ps, E, secret, L1, L3, L4, d, o, all, r, C, e
  <2> QED
    BY <1>1, <1>2, <1>5, <1>6, <1>7, <1>8, <1>9
<1> QED
  BY <1>10

\* What an overlay sets for a flat service is deployed.
LEMMA OverlayIs ==
  ASSUME NEW P \in BlockProjects, v1 = Blocks!Deployed(P), NEW s \in DOMAIN P
  PROVE  Blocks!OverlayApplies(s, P[s].runtimes)
<1> SUFFICES ASSUME "processes" \notin DOMAIN P[s].runtimes["default"]
             PROVE  Blocks!OverlayApplies(s, P[s].runtimes)
  BY DEF Blocks!OverlayApplies, Blocks!Lone
<1> DEFINE m == P[s].runtimes  o == Blocks!Overlay(m, RuntimeName)  def == Blocks!DefaultBlock(m)
           d == m["default"]
           r == Blocks!resolveRuntime(m, RuntimeName)
           ps == Blocks!resolveProcesses(m, r)
           one == v1.deployed[s]["default"]
<1>1. /\ DOMAIN def = DOMAIN d \cup {"port", "cpu", "replicas"} /\ \A f \in DOMAIN d : def[f] = d[f]
  BY DefaultIs
<1>2. /\ ps["default"].command = r.command /\ ps["default"].port = r.port
      /\ ps["default"].cpu = r.cpu /\ ps["default"].replicas = r.replicas
      /\ ps["default"].volumes = r.volumes
  BY FlatIs
<1>3. v1.deployed[s] = ps
  BY DeployedIs DEF Known
<1>4. /\ r.command = Blocks!Field(o, "command", Blocks!Field(def, "command", Blocks!None))
      /\ r.port = Blocks!Field(o, "port", Blocks!Field(def, "port", Blocks!NoPort))
      /\ r.cpu = Blocks!Field(o, "cpu", Blocks!Field(def, "cpu", Blocks!None))
      /\ r.replicas = Blocks!Field(o, "replicas", Blocks!Field(def, "replicas", Blocks!None))
      /\ r.volumes = Blocks!Field(o, "volumes", Blocks!Field(def, "volumes", {}))
  BY ResolvedIs
<1> HIDE DEF ps, r, def, o, d
<1>5. ASSUME NEW f \in {"port", "cpu", "replicas", "volumes", "command"}
      PROVE  /\ f \in DOMAIN o => one[f] = o[f]
             /\ f \notin DOMAIN o /\ f \in DOMAIN d => one[f] = d[f]
  <2>1. CASE f = "port"
    BY <1>1, <1>2, <1>3, <1>4, <2>1 DEF Blocks!Field
  <2>2. CASE f = "cpu"
    BY <1>1, <1>2, <1>3, <1>4, <2>2 DEF Blocks!Field
  <2>3. CASE f = "replicas"
    BY <1>1, <1>2, <1>3, <1>4, <2>3 DEF Blocks!Field
  <2>4. CASE f = "volumes"
    BY <1>1, <1>2, <1>3, <1>4, <2>4 DEF Blocks!Field
  <2>5. CASE f = "command"
    BY <1>1, <1>2, <1>3, <1>4, <2>5 DEF Blocks!Field
  <2> QED
    BY <2>1, <2>2, <2>3, <2>4, <2>5
<1> QED
  BY <1>5 DEF Blocks!OverlayApplies, o, d

\* An overlay of processes takes nothing away from those of the default block.
LEMMA MergesIs ==
  ASSUME NEW P \in BlockProjects, v1 = Blocks!Deployed(P), NEW s \in DOMAIN P
  PROVE  Blocks!OverlayMerges(s, P[s].runtimes)
<1> SUFFICES ASSUME "processes" \in DOMAIN P[s].runtimes["default"]
             PROVE  Blocks!OverlayMerges(s, P[s].runtimes)
  BY DEF Blocks!OverlayMerges, Blocks!Lone
<1> DEFINE m == P[s].runtimes  below == Blocks!Layer(m["default"], "processes")
           r == Blocks!resolveRuntime(m, RuntimeName)
<1>1. below = m["default"].processes
  BY DEF Blocks!Layer, Blocks!Field
<1>2. v1.R[s] = r
  BY DeployedIs DEF Known
<1>3. /\ DOMAIN below \subseteq DOMAIN r.processes
      /\ \A p \in DOMAIN below :
           DOMAIN Blocks!Layer(below[p], "env") \subseteq DOMAIN Blocks!Layer(r.processes[p], "env")
  BY ProcessesAre
<1> HIDE DEF r, below
<1> QED
  BY <1>1, <1>2, <1>3 DEF Blocks!OverlayMerges

\* An address that is told is that of a service, by its name alone, and its port
\* that of the default block.
LEMMA ToldIs ==
  ASSUME NEW P \in BlockProjects, v1 = Blocks!Deployed(P), NEW s \in DOMAIN P,
         NEW a \in v1.addresses[s]
  PROVE  /\ a \in v1.registry
         /\ \E t \in DOMAIN P :
              LET m == P[t].runtimes  base == Blocks!normalizeProcesses(m)
              IN  /\ a.host[1] = t /\ a.process = "default"
                  /\ IF base = Blocks!Nothing
                     THEN a.port = Blocks!resolveRuntime(m, RuntimeName).port
                     ELSE "default" \in DOMAIN base /\ a.port = base["default"].port
<1> DEFINE deps == Blocks!runtimeDeps(P[s].runtimes)
           Base(t) == Blocks!normalizeProcesses(P[t].runtimes)
           Port(t) == Blocks!resolveRuntime(P[t].runtimes, RuntimeName).port
           Ports(t) == IF Base(t) = Blocks!Nothing THEN [default |-> Port(t)]
                       ELSE [p \in DOMAIN Base(t) |-> Base(t)[p].port]
           Entry(t, p) == [host |-> Blocks!instanceId(t, p), process |-> p, port |-> Ports(t)[p]]
<1>1. a \in v1.registry /\ \E x \in deps : a.host = <<x>>
  BY DeployedIs DEF Known, Blocks!svcDepEnvVars
<1>2. v1.registry = Blocks!projectServiceRegistry(P, RuntimeName, FALSE)
  BY ProjectIs
<1>3. PICK t \in DOMAIN P : \E p \in DOMAIN Ports(t) : a = Entry(t, p)
  <2> HIDE DEF Base, Port
  <2>1. Blocks!projectServiceRegistry(P, RuntimeName, FALSE)
          = UNION {{Entry(t, p) : p \in DOMAIN Ports(t)} : t \in DOMAIN P}
    BY DEF Blocks!projectServiceRegistry, Base, Port
  <2> HIDE DEF Ports, Entry
  <2>2. a \in UNION {{Entry(t, p) : p \in DOMAIN Ports(t)} : t \in DOMAIN P}
    BY <1>1, <1>2, <2>1
  <2> QED
    BY <2>2
<1> HIDE DEF Ports
<1>7. PICK p \in DOMAIN Ports(t) : a = Entry(t, p)
  BY <1>3
<1>4. p = "default" /\ a.host[1] = t
  BY <1>1, <1>7 DEF Blocks!instanceId
<1> HIDE DEF Base, Port
<1>5. /\ a.process = "default" /\ "default" \in DOMAIN Ports(t) /\ a.port = Ports(t)["default"]
  BY <1>7, <1>4
<1>6. IF Base(t) = Blocks!Nothing THEN a.port = Port(t)
      ELSE "default" \in DOMAIN Base(t) /\ a.port = Base(t)["default"].port
  BY <1>5 DEF Ports
<1> QED
  BY <1>1, <1>4, <1>5, <1>6 DEF Base, Port

\* Where no overlay moves the port, the service listens on the one that is told.
LEMMA AddressIs ==
  ASSUME NEW P \in BlockProjects, v1 = Blocks!Deployed(P), NEW s \in DOMAIN P
  PROVE  Blocks!AddressMatches(s, P[s].runtimes) /\ Blocks!Typed(s, P[s].runtimes)
<1>1. \A t \in DOMAIN P : /\ v1.deployed[t] # Blocks!Nothing /\ DOMAIN v1.deployed[t] # {}
  <2> TAKE t \in DOMAIN P
  <2> DEFINE m == P[t].runtimes  own == m["default"].processes
             r == Blocks!resolveRuntime(m, RuntimeName)  ps == Blocks!resolveProcesses(m, r)
  <2>1. v1.deployed[t] = ps
    BY DeployedIs DEF Known
  <2>2. "processes" \notin DOMAIN m["default"] => DOMAIN ps = {"default"}
    BY FlatIs
  <2>3. ASSUME "processes" \in DOMAIN m["default"]
        PROVE  DOMAIN ps = IF DOMAIN own = {} THEN {"default"} ELSE DOMAIN own
    <3>1. DOMAIN own # {"default"}
      BY <2>3, ProjectIs DEF Asked, Blocks!Layer, Blocks!Field
    <3> QED
      BY <2>3, <3>1, ManyAre
  <2> HIDE DEF ps
  <2>4. DOMAIN ps # {}
    BY <2>2, <2>3
  <2>5. DOMAIN Blocks!Nothing = {}
    BY DEF Blocks!Nothing
  <2> QED
    BY <2>1, <2>4, <2>5
<1>2. ASSUME NEW a \in v1.addresses[s],
             "port" \notin DOMAIN Blocks!Overlay(P[a.host[1]].runtimes, RuntimeName)
      PROVE  LET listening == v1.deployed[a.host[1]]
             IN  a.process \in DOMAIN listening /\ listening[a.process].port = a.port
  <2>1. PICK t \in DOMAIN P :
               LET m == P[t].runtimes  base == Blocks!normalizeProcesses(m)
               IN  /\ a.host[1] = t /\ a.process = "default"
                   /\ IF base = Blocks!Nothing
                      THEN a.port = Blocks!resolveRuntime(m, RuntimeName).port
                      ELSE "default" \in DOMAIN base /\ a.port = base["default"].port
    BY ToldIs
  <2> DEFINE m == P[t].runtimes  own == m["default"].processes  def == Blocks!DefaultBlock(m)
             o == Blocks!Overlay(m, RuntimeName)
             base == Blocks!normalizeProcesses(m)
             r == Blocks!resolveRuntime(m, RuntimeName)  ps == Blocks!resolveProcesses(m, r)
  <2>2. v1.deployed[t] = ps
    BY DeployedIs DEF Known
  <2>3. DOMAIN Blocks!Nothing = {}
    BY DEF Blocks!Nothing
  <2>4. CASE "processes" \notin DOMAIN m["default"]
    <3>1. /\ DOMAIN base = {"default"} /\ base["default"].port = def.port
          /\ DOMAIN ps = {"default"} /\ ps["default"].port = r.port
      BY <2>4, FlatIs
    <3>2. r.port = Blocks!Field(o, "port", Blocks!Field(def, "port", Blocks!NoPort))
      BY ResolvedIs
    <3>3. "port" \in DOMAIN def
      <4>1. DOMAIN def = DOMAIN m["default"] \cup {"port", "cpu", "replicas"}
        BY DefaultIs
      <4> QED
        BY <4>1
    <3>4. "port" \notin DOMAIN o
      BY <1>2, <2>1
    <3> HIDE DEF base, ps, r, def, o
    <3>5. r.port = def.port
      BY <3>2, <3>3, <3>4 DEF Blocks!Field
    <3> QED
      BY <2>1, <2>2, <2>3, <3>1, <3>5 DEF base
  <2>5. CASE "processes" \in DOMAIN m["default"]
    <3>1. DOMAIN own # {"default"}
      BY <2>5, ProjectIs DEF Asked, Blocks!Layer, Blocks!Field
    <3>2. /\ DOMAIN base = DOMAIN own
          /\ DOMAIN own = {} => DOMAIN ps = {"default"} /\ ps["default"].port = r.port
          /\ DOMAIN own # {} => /\ DOMAIN ps = DOMAIN own
                                /\ \A p \in DOMAIN own : ps[p].port = base[p].port
      BY <2>5, <3>1, ManyAre
    <3> HIDE DEF base, ps, r, own
    <3> QED
      BY <2>1, <2>2, <2>3, <3>1, <3>2 DEF base, r
  <2> QED
    BY <2>4, <2>5
<1>3. \A a \in v1.addresses[s] : a \in v1.registry
  BY ToldIs
<1>4. v1.P = P
  BY ProjectIs
<1> QED
  BY <1>1, <1>2, <1>3, <1>4 DEF Blocks!AddressMatches, Blocks!Typed

\* What is claimed of the layers holds after the deploy, and before it of nothing.
LEMMA BlocksResolve ==
  ASSUME BlockInv
  PROVE  /\ Blocks!TypeOK /\ Blocks!LastLayerWins /\ Blocks!SecretsOptOut
         /\ Blocks!FlatOverlayApplies /\ Blocks!ProcessOverlayMerges /\ Blocks!AddressMatchesDefault
<1>1. CASE v1 = Blocks!NoCall
  <2>1. ~v1.done
    BY <1>1 DEF Blocks!NoCall
  <2> QED
    BY <2>1 DEF Blocks!TypeOK, Blocks!LastLayerWins, Blocks!SecretsOptOut,
      Blocks!FlatOverlayApplies, Blocks!ProcessOverlayMerges, Blocks!AddressMatchesDefault,
      Blocks!EachService
<1>2. ASSUME NEW P \in BlockProjects, v1 = Blocks!Deployed(P)
      PROVE  /\ Blocks!TypeOK /\ Blocks!LastLayerWins /\ Blocks!SecretsOptOut
             /\ Blocks!FlatOverlayApplies /\ Blocks!ProcessOverlayMerges
             /\ Blocks!AddressMatchesDefault
  <2>1. v1.P = P
    BY <1>2, ProjectIs
  <2>2. \A s \in DOMAIN P :
          /\ Blocks!Typed(s, P[s].runtimes) /\ Blocks!LastWins(s, P[s].runtimes)
          /\ Blocks!OptedOut(s, P[s].runtimes) /\ Blocks!OverlayApplies(s, P[s].runtimes)
          /\ Blocks!OverlayMerges(s, P[s].runtimes) /\ Blocks!AddressMatches(s, P[s].runtimes)
    BY <1>2, LastLayerIs, OptOutIs, OverlayIs, MergesIs, AddressIs
  <2> QED
    BY <2>1, <2>2 DEF Blocks!TypeOK, Blocks!LastLayerWins, Blocks!SecretsOptOut,
      Blocks!FlatOverlayApplies, Blocks!ProcessOverlayMerges, Blocks!AddressMatchesDefault,
      Blocks!EachService
<1> QED
  BY <1>1, <1>2 DEF BlockInv

-----------------------------------------------------------------------------
(* Limits: of the time that a command has, and of the workers there are. *)

\* Before the call nothing is answered; after it the answer is CommandTimeout's.
TimeInv ==
  \/ v1 = Limited!NoCall
  \/ /\ v1.cli \in TimeoutValues /\ v1.env \in TimeoutValues
     /\ v1.script \in ScriptDefaults /\ v1.inCI \in BOOLEAN
     /\ v1.ms = Limited!CommandTimeout(v1.cli, v1.env, v1.script, v1.inCI)

\* What a unit of time comes to in milliseconds.
Units == {1, 1000, 60000, 3600000}

\* A written amount comes to a natural number of milliseconds, Huge at most.
LEMMA InMsIs ==
  ASSUME NEW whole \in Nat, NEW frac \in Nat, NEW ms \in Units
  PROVE  Limited!InMs(whole, frac, ms) \in Nat
<1> DEFINE p == IF ms >= 10000 THEN frac * (ms \div 10000) ELSE (frac * ms + 5000) \div 10000
<1>1. p \in Nat
  <2>1. CASE ms = 1
    BY <2>1
  <2>2. CASE ms = 1000
    BY <2>2
  <2>3. CASE ms = 60000
    <3>1. ms \div 10000 = 6
      BY <2>3
    <3> QED
      BY <2>3, <3>1
  <2>4. CASE ms = 3600000
    <3>1. ms \div 10000 = 360
      BY <2>4
    <3> QED
      BY <2>4, <3>1
  <2> QED
    BY <2>1, <2>2, <2>3, <2>4 DEF Units
<1> HIDE DEF p
<1>2. whole * ms \in Nat /\ ms \in Nat \ {0}
  BY <1>1 DEF Units
<1>3. Limited!Huge \in Nat
  BY DEF Limited!Huge
<1>4. Limited!InMs(whole, frac, ms) = IF whole > (Limited!Huge - p) \div ms THEN Limited!Huge
                                      ELSE whole * ms + p
  BY DEF Limited!InMs, p
<1> QED
  BY <1>1, <1>2, <1>3, <1>4

\* What is said is a duration or a refusal, and what is not said is neither.
LEMMA SaidIs ==
  ASSUME Limited!TimeoutAssumption, NEW v \in TimeoutValues
  PROVE  /\ Limited!Silent(v) <=> Limited!ParseDuration(v) = Limited!Undefined
         /\ v.kind = "word" \/ (~Limited!Silent(v) /\ Limited!Zero(v))
              => Limited!ParseDuration(v) = Limited!Disabled
         /\ Limited!ParseDuration(v) \in {Limited!Undefined, Limited!Disabled} \cup Nat
<1> USE DEF Limited!Undefined, Limited!Disabled
<1>1. CASE v.kind = "number"
  <2>1. v.whole \in Nat /\ v.frac \in Nat /\ v.neg \in BOOLEAN
    BY <1>1 DEF Limited!TimeoutAssumption
  <2>2. Limited!InMs(v.whole, v.frac, 1000) \in Nat
    <3> DEFINE second == 1000
    <3>1. second \in Units
      BY DEF Units
    <3> HIDE DEF second
    <3>2. Limited!InMs(v.whole, v.frac, second) \in Nat
      BY <2>1, <3>1, InMsIs
    <3> QED
      BY <3>2 DEF second
  <2>3. Limited!ParseDuration(v) =
          IF v.neg THEN -1 ELSE IF v.whole = 0 /\ v.frac = 0 THEN -2
          ELSE Limited!InMs(v.whole, v.frac, 1000)
    BY <1>1 DEF Limited!ParseDuration
  <2>4. Limited!Silent(v) <=> v.neg
    BY <1>1 DEF Limited!Silent, Limited!Asks
  <2>5. Limited!Zero(v) <=> v.whole = 0 /\ v.frac = 0
    BY <1>1 DEF Limited!Zero
  <2> QED
    BY <1>1, <2>1, <2>2, <2>3, <2>4, <2>5
<1>2. CASE v.kind = "word"
  BY <1>2 DEF Limited!Silent, Limited!Asks, Limited!Zero, Limited!ParseDuration
<1>3. CASE v.kind = "amount"
  <2>1. v.whole \in Nat /\ v.frac \in Nat
    BY <1>3 DEF Limited!TimeoutAssumption
  <2> DEFINE unit == Limited!unitToMs(v.unit)
  <2>2. unit \in Units /\ unit \in Nat \ {0}
    BY DEF Limited!unitToMs, Units
  <2>3. Limited!ParseDuration(v) =
          IF Limited!InMs(v.whole, v.frac, unit) = 0 THEN -2
          ELSE Limited!InMs(v.whole, v.frac, unit)
    BY <1>3 DEF Limited!ParseDuration
  <2> HIDE DEF unit
  <2>4. Limited!InMs(v.whole, v.frac, unit) \in Nat
    BY <2>1, <2>2, InMsIs
  <2>5. v.whole = 0 /\ v.frac = 0 => Limited!InMs(v.whole, v.frac, unit) = 0
    <3> SUFFICES ASSUME v.whole = 0, v.frac = 0
                 PROVE  Limited!InMs(v.whole, v.frac, unit) = 0
      OBVIOUS
    <3>1. 0 * (unit \div 10000) = 0 /\ (0 * unit + 5000) \div 10000 = 0 /\ 0 * unit = 0
      BY <2>2
    <3>2. Limited!Huge \in Nat
      BY DEF Limited!Huge
    <3>3. ~(0 > (Limited!Huge - 0) \div unit)
      BY <2>2, <3>2
    <3>4. 0 + 0 = 0 /\ (unit >= 10000 \/ ~(unit >= 10000))
      OBVIOUS
    <3> QED
      BY <2>2, <3>1, <3>3, <3>4 DEF Limited!InMs
  <2>6. ~Limited!Silent(v) /\ (Limited!Zero(v) <=> v.whole = 0 /\ v.frac = 0)
    BY <1>3 DEF Limited!Silent, Limited!Asks, Limited!Zero
  <2> QED
    BY <1>3, <2>3, <2>4, <2>5, <2>6
<1>4. CASE v.kind \notin {"number", "word", "amount"}
  BY <1>4 DEF Limited!Silent, Limited!Asks, Limited!Zero, Limited!ParseDuration
<1> QED
  BY <1>1, <1>2, <1>3, <1>4

\* The first source that says anything decides, zero is no limit, what nobody
\* says is left to the script, and the timer is armed with the limit it can keep.
LEMMA TimeIsLimited ==
  ASSUME Limited!TimeoutAssumption, TimeInv
  PROVE  /\ Limited!FirstSourceDecides /\ Limited!ZeroDisables
         /\ Limited!ImplicitLimit /\ Limited!LimitIsGranted
<1> USE DEF Limited!Undefined, Limited!Disabled
<1>1. CASE ~Limited!Answered
  BY <1>1 DEF Limited!FirstSourceDecides, Limited!ZeroDisables, Limited!ImplicitLimit,
    Limited!LimitIsGranted
<1>2. CASE Limited!Answered
  <2> DEFINE cli == Limited!ParseDuration(v1.cli)  env == Limited!ParseDuration(v1.env)
             script == IF v1.inCI THEN -1 ELSE v1.script
             rest == IF script # -1 THEN IF script = 0 THEN -2 ELSE script
                     ELSE IF v1.inCI THEN -2 ELSE 300000
  <2>1. /\ v1.cli \in TimeoutValues /\ v1.env \in TimeoutValues
        /\ v1.script \in ScriptDefaults /\ v1.inCI \in BOOLEAN
        /\ v1.ms = Limited!CommandTimeout(v1.cli, v1.env, v1.script, v1.inCI)
    BY <1>2 DEF TimeInv, Limited!Answered
  <2>2. v1.ms = IF cli # -1 THEN cli ELSE IF env # -1 THEN env ELSE rest
    BY <2>1 DEF Limited!CommandTimeout, Limited!ResolveTimeoutMs, Limited!FirstDefined,
      Limited!ScriptTimeout, Limited!DEFAULT_TIMEOUT_MS
  <2>3. /\ Limited!Silent(v1.cli) <=> cli = -1
        /\ Limited!Silent(v1.env) <=> env = -1
        /\ v1.cli.kind = "word" \/ (~Limited!Silent(v1.cli) /\ Limited!Zero(v1.cli)) => cli = -2
        /\ cli \in {-1, -2} \cup Nat /\ env \in {-1, -2} \cup Nat
    BY <2>1, SaidIs
  <2>4. v1.script \in {-1} \cup Nat
    BY <2>1 DEF Limited!TimeoutAssumption
  <2>5. rest \in {-2} \cup Nat
    BY <2>1, <2>4
  <2>6. Limited!FirstSourceDecides
    BY <2>2, <2>3 DEF Limited!FirstSourceDecides
  <2>7. Limited!ZeroDisables
    <3> HIDE DEF cli, env, rest
    <3> QED
      BY <2>2, <2>3 DEF Limited!ZeroDisables
  <2>8. Limited!ImplicitLimit
    <3> HIDE DEF cli, env
    <3> QED
      BY <2>1, <2>2, <2>3, <2>4 DEF Limited!ImplicitLimit, Limited!DEFAULT_TIMEOUT_MS
  <2>9. Limited!LimitIsGranted
    <3> HIDE DEF cli, env, rest
    <3>1. v1.ms \in {-2} \cup Nat
      BY <2>2, <2>3, <2>5
    <3>2. Limited!Huge \in Nat \ {0}
      BY DEF Limited!Huge
    <3> QED
      BY <3>1, <3>2 DEF Limited!LimitIsGranted, Limited!TimerDelay
  <2> QED
    BY <2>6, <2>7, <2>8, <2>9
<1> QED
  BY <1>1, <1>2

\* The machine is one of those there are; before the call there is no answer,
\* after it the answer is autoConcurrency's.
SizeInv ==
  /\ v1 \in [host : Hosts, cpu2 : CpuFiles, cpu1 : CpuFiles, mem2 : MemFiles, mem1 : MemFiles,
             override : LimitVariables, perWorker : LimitVariables]
  /\ \/ v2 = Sized!NoCall
     \/ v2 = [done |-> TRUE, cap |-> Sized!autoConcurrency]

\* Of two numbers one is the greater, and one the less.
LEMMA OfTwo ==
  ASSUME NEW a \in Int, NEW b \in Int
  PROVE  /\ Sized!Max({a, b}) = IF a >= b THEN a ELSE b
         /\ Sized!Min({a, b}) = IF a <= b THEN a ELSE b
<1>1. Sized!Max({a, b}) = CHOOSE x \in {a, b} : \A y \in {a, b} : x >= y
  BY DEF Sized!Max
<1>2. Sized!Min({a, b}) = CHOOSE x \in {a, b} : \A y \in {a, b} : x =< y
  BY DEF Sized!Min
<1>3. \E x \in {a, b} : \A y \in {a, b} : x >= y
  OBVIOUS
<1>4. \E x \in {a, b} : \A y \in {a, b} : x =< y
  OBVIOUS
<1> QED
  BY <1>1, <1>2, <1>3, <1>4

\* What an automatic number of workers is: one or more, and otherwise not above
\* the cap of the processors nor that of the memory, of which it is one.
LEMMA CapsAre ==
  ASSUME Sized!LimitsAssumption, SizeInv
  PROVE  /\ Sized!PerWorker \in Nat \ {0}
         /\ \E quota \in Int :
              /\ Sized!CpuCap = IF quota >= 1 THEN quota ELSE 1
              /\ LET file == IF Sized!Present(v1.cpu2) THEN v1.cpu2 ELSE v1.cpu1
                 IN  IF Sized!Positive(file)
                     THEN file.d \in Nat /\ file.n \in Nat /\ quota * file.d <= file.n
                     ELSE quota = v1.host.cpus
         /\ \E budget \in Nat :
              /\ Sized!memoryConcurrencyCap = IF budget >= 1 THEN budget ELSE 1
              /\ budget * Sized!PerWorker < v1.host.mem
              /\ LET file == IF Sized!Present(v1.mem2) THEN v1.mem2 ELSE v1.mem1
                 IN  Sized!Positive(file) => file.n \in Nat /\ budget * Sized!PerWorker <= file.n
<1> USE DEF Sized!Undefined
<1>1. /\ v1.host \in Hosts /\ v1.cpu2 \in CpuFiles /\ v1.cpu1 \in CpuFiles
      /\ v1.mem2 \in MemFiles /\ v1.mem1 \in MemFiles
      /\ v1.override \in LimitVariables /\ v1.perWorker \in LimitVariables
  BY DEF SizeInv
<1>2. /\ v1.host.cpus \in Nat \ {0} /\ v1.host.mem \in Nat \ {0}
      /\ \A f \in CpuFiles \cup MemFiles \cup LimitVariables :
           f.kind = "number" => f.n \in Int /\ f.d \in Nat \ {0}
  BY <1>1 DEF Sized!LimitsAssumption
<1>3. Sized!PerWorker \in Nat \ {0}
  BY <1>1, <1>2 DEF Sized!PerWorker, Sized!parsePositiveInt, Sized!Positive, Sized!MemPerWorker
<1>4. \E quota \in Int :
        /\ Sized!CpuCap = IF quota >= 1 THEN quota ELSE 1
        /\ LET file == IF Sized!Present(v1.cpu2) THEN v1.cpu2 ELSE v1.cpu1
           IN  IF Sized!Positive(file)
               THEN file.d \in Nat /\ file.n \in Nat /\ quota * file.d <= file.n
               ELSE quota = v1.host.cpus
  <2> DEFINE file == IF Sized!Present(v1.cpu2) THEN v1.cpu2 ELSE v1.cpu1
  <2>1. file \in CpuFiles
    BY <1>1
  <2>2. Sized!cgroupCpuLimit = IF Sized!Positive(file) THEN file ELSE Sized!File("max")
    BY DEF Sized!cgroupCpuLimit
  <2> HIDE DEF file
  <2>3. CASE Sized!Positive(file)
    <3>1. file.n \in Nat /\ file.d \in Nat \ {0} /\ file.kind = "number"
      BY <1>2, <2>1, <2>3 DEF Sized!Positive
    <3> DEFINE quota == file.n \div file.d
    <3>2. quota \in Int /\ quota * file.d <= file.n
      BY <3>1
    <3>3. Sized!CpuCap = Sized!Max({1, quota})
      BY <2>2, <2>3, <3>1 DEF Sized!CpuCap
    <3> HIDE DEF quota
    <3>4. Sized!CpuCap = IF quota >= 1 THEN quota ELSE 1
      BY <3>2, <3>3, OfTwo
    <3> QED
      BY <2>3, <3>1, <3>2, <3>4 DEF file
  <2>4. CASE ~Sized!Positive(file)
    <3>1. Sized!CpuCap = Sized!Max({1, v1.host.cpus})
      BY <2>2, <2>4 DEF Sized!CpuCap, Sized!File
    <3>2. Sized!CpuCap = IF v1.host.cpus >= 1 THEN v1.host.cpus ELSE 1
      BY <1>2, <3>1, OfTwo
    <3> QED
      BY <1>2, <2>4, <3>2 DEF file
  <2> QED
    BY <2>3, <2>4
<1>5. \E budget \in Nat :
        /\ Sized!memoryConcurrencyCap = IF budget >= 1 THEN budget ELSE 1
        /\ budget * Sized!PerWorker < v1.host.mem
        /\ LET file == IF Sized!Present(v1.mem2) THEN v1.mem2 ELSE v1.mem1
           IN  Sized!Positive(file) => file.n \in Nat /\ budget * Sized!PerWorker <= file.n
  <2> DEFINE file == IF Sized!Present(v1.mem2) THEN v1.mem2 ELSE v1.mem1
             whole == Sized!effectiveMemoryBudget
             budget == whole \div Sized!PerWorker
  <2>1. file \in MemFiles
    BY <1>1
  <2>2. Sized!cgroupMemoryLimit =
          IF Sized!Positive(file) /\ file.n < v1.host.mem THEN file.n ELSE -1
    BY DEF Sized!cgroupMemoryLimit
  <2> HIDE DEF file
  <2>3. Sized!Positive(file) => file.n \in Nat
    BY <1>2, <2>1 DEF Sized!Positive
  <2>4. (v1.host.mem * 3) \div 4 \in Nat /\ (v1.host.mem * 3) \div 4 < v1.host.mem
    BY <1>2
  <2>5. /\ whole \in Nat /\ whole < v1.host.mem
        /\ Sized!Positive(file) => whole <= file.n
    BY <1>2, <2>2, <2>3, <2>4 DEF Sized!effectiveMemoryBudget
  <2> HIDE DEF whole
  <2>6. budget \in Nat /\ budget * Sized!PerWorker <= whole
    BY <1>3, <2>5
  <2>7. Sized!memoryConcurrencyCap = Sized!Max({1, budget})
    BY DEF Sized!memoryConcurrencyCap, whole
  <2> HIDE DEF budget
  <2>8. Sized!memoryConcurrencyCap = IF budget >= 1 THEN budget ELSE 1
    BY <2>6, <2>7, OfTwo
  <2>9. budget * Sized!PerWorker \in Nat
    BY <1>3, <2>6
  <2>10. /\ budget * Sized!PerWorker < v1.host.mem
         /\ Sized!Positive(file) => budget * Sized!PerWorker <= file.n
    BY <1>2, <2>3, <2>5, <2>6, <2>9
  <2> QED
    BY <2>3, <2>6, <2>8, <2>10 DEF file
<1> QED
  BY <1>3, <1>4, <1>5

\* There is a worker; there are no more than the quota pays for nor than the
\* memory holds; and where nothing limits them all the cores work that can.
LEMMA WorkersFit ==
  ASSUME Sized!LimitsAssumption, SizeInv
  PROVE  Sized!TypeOK /\ Sized!FitsQuota /\ Sized!FitsMemory /\ Sized!HostIsUsed
<1> DEFINE cpu == Sized!CpuCap  mem == Sized!memoryConcurrencyCap  per == Sized!PerWorker
           cpuFile == IF Sized!Present(v1.cpu2) THEN v1.cpu2 ELSE v1.cpu1
           memFile == IF Sized!Present(v1.mem2) THEN v1.mem2 ELSE v1.mem1
<1>1. per \in Nat \ {0}
  BY CapsAre
<1>2. PICK quota \in Int : /\ cpu = IF quota >= 1 THEN quota ELSE 1
                           /\ IF Sized!Positive(cpuFile)
                              THEN /\ cpuFile.d \in Nat /\ cpuFile.n \in Nat
                                   /\ quota * cpuFile.d <= cpuFile.n
                              ELSE quota = v1.host.cpus
  BY CapsAre
<1>3. PICK budget \in Nat : /\ mem = IF budget >= 1 THEN budget ELSE 1
                            /\ budget * per < v1.host.mem
                            /\ Sized!Positive(memFile)
                                 => memFile.n \in Nat /\ budget * per <= memFile.n
  BY CapsAre
<1>4. v1.host.cpus \in Nat \ {0} /\ v1.host.mem \in Nat
  BY DEF SizeInv, Sized!LimitsAssumption
<1>5. Sized!autoConcurrency = IF Sized!Overridden THEN Sized!parsePositiveInt(v1.override)
                              ELSE Sized!Max({1, Sized!Min({cpu, mem})})
  BY DEF Sized!autoConcurrency, Sized!Overridden
<1>6. v1.cpu2.kind = "max" => cpuFile = v1.cpu2 /\ ~Sized!Positive(cpuFile)
  BY DEF Sized!Present, Sized!Positive
<1>7. Sized!Overridden => Sized!parsePositiveInt(v1.override) \in Nat \ {0}
  BY DEF Sized!Overridden, Sized!parsePositiveInt, Sized!Positive, Sized!Undefined, SizeInv,
    Sized!LimitsAssumption
<1> HIDE DEF cpu, mem, per, cpuFile, memFile
<1>8. cpu \in Nat \ {0} /\ mem \in Nat \ {0}
  BY <1>2, <1>3
<1>9. Sized!Max({1, Sized!Min({cpu, mem})}) = IF cpu <= mem THEN cpu ELSE mem
  <2>1. Sized!Min({cpu, mem}) = IF cpu <= mem THEN cpu ELSE mem
    BY <1>8, OfTwo
  <2>2. Sized!Min({cpu, mem}) \in Nat \ {0}
    BY <1>8, <2>1
  <2> QED
    BY <2>1, <2>2, OfTwo
<1>10. v2.done => v2.cap = Sized!autoConcurrency
  BY DEF SizeInv, Sized!NoCall
<1>11. Sized!TypeOK
  BY <1>5, <1>7, <1>8, <1>9, <1>10 DEF Sized!TypeOK
<1>12. ASSUME v2.done, v2.cap > 1, ~Sized!Overridden
       PROVE  v2.cap \in Nat /\ v2.cap <= quota /\ v2.cap <= budget
  BY <1>2, <1>3, <1>5, <1>8, <1>9, <1>10, <1>12
<1>13. Sized!FitsQuota
  <2> SUFFICES ASSUME v2.done, v2.cap > 1, ~Sized!Overridden, Sized!Positive(cpuFile)
               PROVE  v2.cap * cpuFile.d <= cpuFile.n
    BY DEF Sized!FitsQuota, cpuFile
  <2>1. v2.cap * cpuFile.d <= quota * cpuFile.d
    BY <1>2, <1>12
  <2> QED
    BY <1>2, <1>12, <2>1
<1>14. Sized!FitsMemory
  <2> SUFFICES ASSUME v2.done, v2.cap > 1, ~Sized!Overridden
               PROVE  /\ v2.cap * per < v1.host.mem
                      /\ Sized!Positive(memFile) => v2.cap * per <= memFile.n
    BY DEF Sized!FitsMemory, memFile, per
  <2>1. v2.cap * per <= budget * per
    BY <1>1, <1>12
  <2>2. v2.cap * per \in Nat /\ budget * per \in Nat
    BY <1>1, <1>12
  <2> QED
    BY <1>3, <1>4, <2>1, <2>2
<1>15. Sized!HostIsUsed
  <2> SUFFICES ASSUME v2.done, ~Sized!Overridden, v1.cpu2.kind = "max"
               PROVE  v2.cap \in {v1.host.cpus, mem}
    BY DEF Sized!HostIsUsed, mem
  <2>1. cpu = v1.host.cpus
    BY <1>2, <1>4, <1>6
  <2> QED
    BY <1>5, <1>9, <1>10, <2>1
<1> QED
  BY <1>11, <1>13, <1>14, <1>15

-----------------------------------------------------------------------------
(* The components side by side. *)

\* Each component keeps its own invariant; where no walk is, none has ended.
SuiteInv ==
  /\ part = "walk" => IInv
  /\ part # "walk" => queue # {}
  /\ part = "load" => LoadInv
  /\ part = "plugins" => v1 \in PluginProjects
  /\ part = "context" => CtxInv
  /\ part = "blocks" => BlockInv
  /\ part = "timeout" => TimeInv
  /\ part = "limits" => SizeInv

\* A step of the loading keeps its invariant.
LEMMA LoadKeeps ==
  ASSUME Loading!LoadAssumption, LoadInv, Loading!Next
  PROVE  LoadInv'
<1>1. CASE \E id \in Loading!Id : Loading!Discover(id)
  BY <1>1, DiscoverKeeps
<1>2. CASE \E ts \in SUBSET DOMAIN v5 : Loading!Install(ts)
  BY <1>2, InstallKeeps
<1>3. CASE \E code \in {0, 1} : Loading!RunOne(code)
  BY <1>3, RunOneKeeps
<1> QED
  BY <1>1, <1>2, <1>3, ResolveKeeps, NextDirKeeps, AddRootKeeps, AddSystemKeeps, InstalledKeeps
     DEF Loading!Next

\* So does the deploy.
LEMMA BlocksKeep ==
  ASSUME BlockInv, Blocks!Next \/ v1' = v1
  PROVE  BlockInv'
<1>1. CASE v1' = v1
  BY <1>1 DEF BlockInv
<1>2. CASE Blocks!Next
  <2>1. \E P \in BlockProjects : v1' = Blocks!Deployed(P)
    BY <1>2 DEF Blocks!Next, Blocks!Deploy
  <2> QED
    BY <2>1 DEF BlockInv
<1> QED
  BY <1>1, <1>2

\* So does the choice of a time limit.
LEMMA TimeKeeps ==
  ASSUME TimeInv, Limited!Next \/ v1' = v1
  PROVE  TimeInv'
<1>1. CASE v1' = v1
  BY <1>1 DEF TimeInv
<1>2. CASE Limited!Next
  <2>1. PICK cli \in TimeoutValues, env \in TimeoutValues, s \in ScriptDefaults, ci \in BOOLEAN :
          v1' = [cli |-> cli, env |-> env, script |-> s, inCI |-> ci,
                 ms |-> Limited!CommandTimeout(cli, env, s, ci)]
    BY <1>2 DEF Limited!Next, Limited!Resolve
  <2> QED
    BY <2>1 DEF TimeInv
<1> QED
  BY <1>1, <1>2

\* So does the choice of a number of workers.
LEMMA SizeKeeps ==
  ASSUME SizeInv, Sized!Next \/ UNCHANGED <<v1, v2>>
  PROVE  SizeInv'
<1>1. v1' = v1 /\ (v2' = v2 \/ v2' = [done |-> TRUE, cap |-> Sized!autoConcurrency])
  BY DEF Sized!Next, Sized!Resolve
<1>2. Sized!autoConcurrency' = Sized!autoConcurrency
  BY <1>1 DEF Sized!autoConcurrency, Sized!CpuCap, Sized!memoryConcurrencyCap, Sized!cgroupCpuLimit,
    Sized!cgroupMemoryLimit, Sized!effectiveMemoryBudget, Sized!PerWorker
<1> QED
  BY <1>1, <1>2 DEF SizeInv

\* The suite starts within the invariant.
LEMMA SuiteInitially == SuiteInit => SuiteInv
<1> SUFFICES ASSUME SuiteInit PROVE SuiteInv
  OBVIOUS
<1>1. CASE part = "walk" /\ Walk
  <2>1. Init
    BY <1>1, ProjectAssumptions DEF Walk, Init
  <2> QED
    BY <1>1, <2>1, InitIInv DEF SuiteInv
<1>2. CASE WalkOff /\ part = "load" /\ Loading!Init
  BY <1>2, LoadInitially DEF SuiteInv, WalkOff
<1>3. CASE WalkOff /\ part = "plugins" /\ v1 \in PluginProjects
  BY <1>3 DEF SuiteInv, WalkOff
<1>4. CASE WalkOff /\ part = "context" /\ Staged!Init
  BY <1>4 DEF SuiteInv, WalkOff, CtxInv, Staged!Init
<1>5. CASE WalkOff /\ part = "blocks" /\ Blocks!Init
  BY <1>5 DEF SuiteInv, WalkOff, BlockInv, Blocks!Init
<1>6. CASE WalkOff /\ part = "timeout" /\ Limited!Init
  BY <1>6 DEF SuiteInv, WalkOff, TimeInv, Limited!Init
<1>7. CASE WalkOff /\ part = "limits" /\ Sized!Init
  BY <1>7 DEF SuiteInv, WalkOff, SizeInv, Sized!Init
<1> QED
  BY <1>1, <1>2, <1>3, <1>4, <1>5, <1>6, <1>7 DEF SuiteInit

\* A step of the suite keeps it.
LEMMA SuiteKeeps == SuiteInv /\ [SuiteNext]_suiteVars => SuiteInv'
<1> SUFFICES ASSUME SuiteInv, [SuiteNext]_suiteVars PROVE SuiteInv'
  OBVIOUS
<1>1. part' = part
  BY DEF SuiteNext, suiteVars
<1>2. part = "walk" => IInv'
  <2> SUFFICES ASSUME part = "walk" PROVE IInv'
    OBVIOUS
  <2>1. [Next]_vars
    BY DEF SuiteNext, suiteVars, vars
  <2> QED
    BY <2>1, NextIInv DEF SuiteInv
<1>3. part # "walk" => queue' # {}
  BY DEF SuiteNext, suiteVars, vars, SuiteInv
<1>4. part = "load" => LoadInv'
  <2> SUFFICES ASSUME part = "load" PROVE LoadInv'
    OBVIOUS
  <2>1. Loading!Next \/ UNCHANGED <<v1, v2, v3, v4, v5, v6, v7, v8, v9>>
    BY DEF SuiteNext, suiteVars
  <2> QED
    BY <2>1, LoadKeeps, StutterKeeps, ProjectAssumptions DEF SuiteInv
<1>5. part = "plugins" => v1' \in PluginProjects
  BY DEF SuiteNext, suiteVars, SuiteInv
<1>6. part = "context" => CtxInv'
  <2> SUFFICES ASSUME part = "context" PROVE CtxInv'
    OBVIOUS
  <2>1. Staged!Next \/ UNCHANGED <<v1, v2, v3>>
    BY DEF SuiteNext, suiteVars
  <2> QED
    BY <2>1, ContextKeeps DEF SuiteInv
<1>7. part = "blocks" => BlockInv'
  <2> SUFFICES ASSUME part = "blocks" PROVE BlockInv'
    OBVIOUS
  <2>1. Blocks!Next \/ v1' = v1
    BY DEF SuiteNext, suiteVars
  <2> QED
    BY <2>1, BlocksKeep DEF SuiteInv
<1>8. part = "timeout" => TimeInv'
  <2> SUFFICES ASSUME part = "timeout" PROVE TimeInv'
    OBVIOUS
  <2>1. Limited!Next \/ v1' = v1
    BY DEF SuiteNext, suiteVars
  <2> QED
    BY <2>1, TimeKeeps DEF SuiteInv
<1>9. part = "limits" => SizeInv'
  <2> SUFFICES ASSUME part = "limits" PROVE SizeInv'
    OBVIOUS
  <2>1. Sized!Next \/ UNCHANGED <<v1, v2>>
    BY DEF SuiteNext, suiteVars
  <2> QED
    BY <2>1, SizeKeeps DEF SuiteInv
<1> QED
  BY <1>1, <1>2, <1>3, <1>4, <1>5, <1>6, <1>7, <1>8, <1>9 DEF SuiteInv

\* In the runs of the suite too a walk that ends has found the least closed set.
THEOREM WalksAreLeast == SuiteSpec => []LeastClosedSet
<1>1. SuiteInv => LeastClosedSet
  BY IInvLeast DEF SuiteInv, LeastClosedSet
<1> QED
  BY <1>1, SuiteInitially, SuiteKeeps, PTL DEF SuiteSpec

\* For every project: its services can be walked both ways, it is loaded as its
\* files say or refused for a reason in them, an install runs once for each
\* lockfile, and its plugins can be told apart.
THEOREM ProjectsAreSound == SuiteSpec => []ProjectIsSound
<1>1. IInv => TypeOK /\ SystemOnlyBackwards
  BY BackwardsOnly DEF IInv
<1>2. ASSUME NEW x \in PluginProjects
      PROVE  Plugins!OneOfAName(x) /\ Plugins!OneBuilder(x) /\ Plugins!RuntimeIsDispatched(x)
  BY ProjectAssumptions, PluginsAreNamed, BuildersAreOne, RuntimesAreDispatched
<1>3. ASSUME LoadInv
      PROVE  /\ Loading!TypeOK /\ Loading!EntriesAreTheFiles /\ Loading!NobodyNeedsTheRoot
             /\ Loading!SystemReachesAll /\ Loading!RefusedForCause /\ Loading!OnePerLockfile
  <2>1. Loading!LoadAssumption
    BY ProjectAssumptions
  <2> QED
    BY <1>3, <2>1, LoadTypeOK, LoadIsSound, InstallsOnce
<1>4. SuiteInv => ProjectIsSound
  BY <1>1, <1>2, <1>3 DEF SuiteInv, ProjectIsSound
<1> QED
  BY <1>4, SuiteInitially, SuiteKeeps, PTL DEF SuiteSpec

\* For every repository: the context of a service's image has every file that a
\* step of the image reads, and the layers are in an order in which what changes
\* often comes late.
THEOREM ContextsStayWhole == SuiteSpec => []ContextsAreWhole
<1>1. SuiteInv => ContextsAreWhole
  BY StagedIsWhole, CopiesFind, LayersAreOrdered DEF SuiteInv, ContextsAreWhole
<1> QED
  BY <1>1, SuiteInitially, SuiteKeeps, PTL DEF SuiteSpec

\* For every project, every setting and every machine: of the layers of a runtime
\* the last one wins and a secret stays one, the first source that names a time
\* limit decides, and the automatic number of workers fits the machine.
THEOREM LayersAlwaysResolve == SuiteSpec => []LayersResolve
<1>1. SuiteInv => LayersResolve
  BY ProjectAssumptions, BlocksResolve, TimeIsLimited, WorkersFit DEF SuiteInv, LayersResolve
<1> QED
  BY <1>1, SuiteInitially, SuiteKeeps, PTL DEF SuiteSpec

=============================================================================
