--------------------------- MODULE SlotPoolProofs ---------------------------
(***************************************************************************)
(* Proofs about SlotPool for every set of clients, every budget and every  *)
(* set of asks.  The inductive invariant is Sound(pool) together with      *)
(* NoSlotIdleWhileWaiting; drain()'s loop is handled by induction on its   *)
(* iterations (DrainLoop), one iteration by ServeHeadSound; whom the loop  *)
(* serves, and in which order, is ServedFirst.                             *)
(***************************************************************************)
EXTENDS SlotPool, WellFoundedInduction, FiniteSetTheorems, TLAPS

-----------------------------------------------------------------------------
(* Induction over the natural numbers in a form that first-order provers   *)
(* can use: the induction predicate is a SET of numbers.                   *)

\* Every nonempty set of naturals has a least element.
LEMMA LeastElement ==
  ASSUME NEW T, T \subseteq Nat, T # {}
  PROVE  \E x \in T : \A y \in T : x <= y
<1>1. IsWellFoundedOn(OpToRel(<, Nat), Nat)
  BY NatLessThanWellFounded
<1>2. PICK x \in T : \A y \in T : <<y, x>> \notin OpToRel(<, Nat)
  BY <1>1, WFMin
<1>3. \A y \in T : ~(y < x)
  BY <1>2 DEF OpToRel
<1> QED
  BY <1>3

\* A set that holds 0 and is closed under successor holds every natural.
LEMMA SetInduction ==
  ASSUME NEW S, 0 \in S, \A n \in Nat : n \in S => n + 1 \in S
  PROVE  Nat \subseteq S
<1> DEFINE T == Nat \ S
<1> SUFFICES ASSUME T # {} PROVE FALSE
  OBVIOUS
<1>1. PICK x \in T : \A y \in T : x <= y
  BY LeastElement
<1>2. x # 0 /\ x - 1 \in Nat /\ x - 1 \notin T
  BY <1>1
<1> QED
  BY <1>1, <1>2

\* Induction up to a bound: the form the loop lemmas use.
LEMMA BoundedInduction ==
  ASSUME NEW n \in Nat, NEW S, 0 \in S,
         \A k \in 0 .. (n - 1) : k \in S => k + 1 \in S
  PROVE  0 .. n \subseteq S
<1> DEFINE T == {k \in Nat : k <= n => k \in S}
<1>1. 0 \in T
  OBVIOUS
<1>2. \A k \in Nat : k \in T => k + 1 \in T
  OBVIOUS
<1>3. Nat \subseteq T
  BY <1>1, <1>2, SetInduction
<1> QED
  BY <1>3

-----------------------------------------------------------------------------
(* Arithmetic of the budget. *)

LEMMA BudgetIsPositive == Budget \in Nat /\ Budget >= 1
BY RawBudgetAssumption DEF Budget, AtLeastOne

\* The pairs standing for one client's slots.
LEMMA ClientSlots ==
  ASSUME NEW c, NEW n \in Nat
  PROVE  /\ IsFiniteSet({c} \X (1 .. n))
         /\ Cardinality({c} \X (1 .. n)) = n
<1>1. IsFiniteSet({c}) /\ Cardinality({c}) = 1
  BY FS_Singleton
<1>2. IsFiniteSet(1 .. n) /\ Cardinality(1 .. n) = n
  BY FS_Interval
<1>3. /\ IsFiniteSet({c} \X (1 .. n))
      /\ Cardinality({c} \X (1 .. n)) = Cardinality({c}) * Cardinality(1 .. n)
  BY <1>1, <1>2, FS_Product
<1> QED
  BY <1>1, <1>2, <1>3

\* Only finitely many slots exist, so Used is a number.
LEMMA SlotsAreFinite ==
  ASSUME NEW g
  PROVE  IsFiniteSet(Slots(g)) /\ Cardinality(Slots(g)) \in Nat
<1>1. IsFiniteSet(1 .. Budget)
  BY BudgetIsPositive, FS_Interval
<1>2. IsFiniteSet(Clients \X (1 .. Budget))
  BY <1>1, ClientsAssumption, FS_Product
<1>3. Slots(g) \in SUBSET (Clients \X (1 .. Budget))
  BY DEF Slots
<1>4. IsFiniteSet(Slots(g))
  BY <1>2, <1>3, FS_Subset
<1> QED
  BY <1>4, FS_CardinalityType

\* Granting n slots to a client that holds none uses n slots more.
LEMMA GrantAddsSlots ==
  ASSUME NEW g \in [Clients -> 0 .. Budget], NEW c \in Clients, g[c] = 0,
         NEW n \in 0 .. Budget
  PROVE  Cardinality(Slots([g EXCEPT ![c] = n])) = Cardinality(Slots(g)) + n
<1> DEFINE h == [g EXCEPT ![c] = n]
           new == {c} \X (1 .. n)
<1>1. n \in Nat
  BY BudgetIsPositive
<1>2. Slots(h) = Slots(g) \cup new
  BY BudgetIsPositive DEF Slots
<1>3. Slots(g) \cap new = {}
  BY BudgetIsPositive DEF Slots
<1>4. IsFiniteSet(new) /\ Cardinality(new) = n
  BY <1>1, ClientSlots
<1>5. IsFiniteSet(Slots(g)) /\ Cardinality(Slots(g)) \in Nat
  BY SlotsAreFinite
<1> HIDE DEF h, new
<1>6. Cardinality(Slots(g) \cup new) =
        Cardinality(Slots(g)) + Cardinality(new) - Cardinality(Slots(g) \cap new)
  BY <1>4, <1>5, FS_Union
<1>7. Cardinality(Slots(g) \cap new) = 0
  BY <1>3, FS_EmptySet
<1>8. Cardinality(Slots(h)) = Cardinality(Slots(g)) + n
  BY <1>1, <1>2, <1>4, <1>5, <1>6, <1>7
<1> QED
  BY <1>8 DEF h

\* Taking slots away never uses more of them.
LEMMA FewerSlots ==
  ASSUME NEW g \in [Clients -> 0 .. Budget], NEW h \in [Clients -> 0 .. Budget],
         \A c \in Clients : h[c] <= g[c]
  PROVE  Cardinality(Slots(h)) <= Cardinality(Slots(g))
<1>1. Slots(h) \in SUBSET Slots(g)
  BY BudgetIsPositive DEF Slots
<1> QED
  BY <1>1, SlotsAreFinite, FS_Subset
-----------------------------------------------------------------------------
(* The inductive invariant, of a pool between two calls and of the pool    *)
(* drain() works on.                                                       *)

QueuedOnce(p) ==
  /\ Holders(p) \cap Waiting(p) = {}
  /\ \A i, j \in 1 .. Len(p.waiters) :
       p.waiters[i].client = p.waiters[j].client => i = j

Sound(p) == p \in Pool /\ Used(p) <= Budget /\ QueuedOnce(p)

\* The two parts of a nonempty queue.
LEMMA HeadAndTail ==
  ASSUME NEW S, NEW s \in Seq(S), s # << >>
  PROVE  /\ Head(s) = s[1] /\ s[1] \in S
         /\ Tail(s) \in Seq(S)
         /\ Len(s) \in Nat /\ Len(s) >= 1
         /\ Len(Tail(s)) = Len(s) - 1
         /\ \A i \in 1 .. Len(s) - 1 : Tail(s)[i] = s[i + 1]
OBVIOUS

\* Used and Available are numbers.
LEMMA UsedType ==
  ASSUME NEW p
  PROVE  Used(p) \in Nat /\ Available(p) \in Int
BY SlotsAreFinite, BudgetIsPositive DEF Used, Available

\* Interested counts the clients the pool knows.
LEMMA InterestedType ==
  ASSUME NEW p \in Pool
  PROVE  /\ IsFiniteSet(Holders(p))
         /\ Interested(p) \in Nat
         /\ p.waiters # << >> => Interested(p) >= 1
<1>1. Holders(p) \in SUBSET Clients
  BY DEF Holders
<1>2. IsFiniteSet(Holders(p))
  BY <1>1, ClientsAssumption, FS_Subset
<1>3. Cardinality(Holders(p)) \in Nat
  BY <1>2, FS_CardinalityType
<1>4. p.waiters \in Seq(Waiter)
  BY DEF Pool
<1>5. Len(p.waiters) \in Nat /\ (p.waiters # << >> => Len(p.waiters) >= 1)
  BY <1>4
<1> QED
  BY <1>2, <1>3, <1>5 DEF Interested

\* What the head of the queue is offered: when a slot is free it is at least
\* one slot, so drain()'s "n < 1" exit is never taken.
LEMMA ShareBounds ==
  ASSUME NEW p \in Pool, p.waiters # << >>, Available(p) > 0
  PROVE  /\ Share(p) \in 1 .. Budget
         /\ Share(p) <= Available(p)
         /\ Share(p) <= FairShare(p)
<1>1. Head(p.waiters).want \in Nat \ {0}
  <2>1. p.waiters \in Seq(Waiter)
    BY DEF Pool
  <2>2. Head(p.waiters) \in Waiter
    BY <2>1, HeadAndTail
  <2> QED
    BY <2>2 DEF Waiter
<1>2. Budget \in Nat /\ Available(p) \in Int /\ Available(p) <= Budget
  BY BudgetIsPositive, UsedType DEF Available
<1>3. Interested(p) \in Nat \ {0}
  BY InterestedType
<1>4. Budget \div Interested(p) \in Int
  BY <1>2, <1>3
<1>5. FairShare(p) \in Nat \ {0}
  BY <1>4 DEF FairShare, AtLeastOne
<1> QED
  BY <1>1, <1>2, <1>5 DEF Share, Smaller

\* drain() makes progress whenever somebody waits and a slot is free.
LEMMA CanServeIffRoom ==
  ASSUME NEW p \in Pool
  PROVE  CanServe(p) <=> p.waiters # << >> /\ Available(p) > 0
BY ShareBounds DEF CanServe

\* One iteration of drain().
LEMMA ServeHeadSound ==
  ASSUME NEW p, Sound(p), CanServe(p)
  PROVE  LET q == ServeHead(p)
             c == Head(p.waiters).client
         IN  /\ Sound(q)
             /\ q.waiters = Tail(p.waiters)
             /\ c \in Waiting(p) \ Holders(p)
             /\ Waiting(q) \subseteq Waiting(p)
             /\ q.granted = [p.granted EXCEPT ![c] = Share(p)]
             /\ Holders(q) = Holders(p) \cup {c}
<1> DEFINE q == ServeHead(p)
           c == Head(p.waiters).client
<1>1. /\ p \in Pool
      /\ p.granted \in [Clients -> 0 .. Budget]
      /\ p.waiters \in Seq(Waiter)
      /\ p.waiters # << >>
  BY DEF Sound, CanServe, Pool
<1>2. /\ Share(p) \in 1 .. Budget
      /\ Share(p) <= Available(p)
  BY <1>1, ShareBounds DEF CanServe
<1>3. /\ Head(p.waiters) = p.waiters[1] /\ p.waiters[1] \in Waiter
      /\ Tail(p.waiters) \in Seq(Waiter)
      /\ Len(p.waiters) \in Nat /\ 1 \in 1 .. Len(p.waiters)
      /\ Len(Tail(p.waiters)) = Len(p.waiters) - 1
      /\ \A i \in 1 .. Len(Tail(p.waiters)) :
            i + 1 \in 1 .. Len(p.waiters) /\ Tail(p.waiters)[i] = p.waiters[i + 1]
  <2>1. /\ Head(p.waiters) = p.waiters[1] /\ p.waiters[1] \in Waiter
        /\ Tail(p.waiters) \in Seq(Waiter)
        /\ Len(p.waiters) \in Nat /\ Len(p.waiters) >= 1
        /\ Len(Tail(p.waiters)) = Len(p.waiters) - 1
        /\ \A i \in 1 .. Len(p.waiters) - 1 : Tail(p.waiters)[i] = p.waiters[i + 1]
    BY <1>1, HeadAndTail
  <2> QED
    BY <2>1
<1>4. c \in Clients /\ c \in Waiting(p)
  <2>1. c \in Clients /\ c = p.waiters[1].client
    BY <1>3 DEF Waiter
  <2> QED
    BY <2>1, <1>3 DEF Waiting
<1>5. c \notin Holders(p) /\ p.granted[c] = 0
  BY <1>1, <1>4, BudgetIsPositive DEF Sound, QueuedOnce, Holders
<1>6. /\ q.granted = [p.granted EXCEPT ![c] = Share(p)]
      /\ q.waiters = Tail(p.waiters)
      /\ q = [granted |-> q.granted, waiters |-> q.waiters]
  BY DEF ServeHead
<1>7. q \in Pool
  <2> HIDE DEF q, c
  <2>0. Share(p) \in 0 .. Budget
    BY <1>2, BudgetIsPositive
  <2>1. q.granted \in [Clients -> 0 .. Budget]
    BY <1>1, <1>6, <2>0
  <2>2. q.waiters \in Seq(Waiter)
    BY <1>3, <1>6
  <2> QED
    BY <2>1, <2>2, <1>6 DEF Pool
<1>8. Used(q) <= Budget
  <2>1. Used(q) = Used(p) + Share(p)
    BY <1>1, <1>2, <1>4, <1>5, <1>6, GrantAddsSlots DEF Used
  <2> QED
    BY <2>1, <1>2, UsedType, BudgetIsPositive DEF Available
<1>9. Holders(q) = Holders(p) \cup {c}
  BY <1>1, <1>2, <1>4, <1>6 DEF Holders
<1>10. QueuedOnce(q) /\ Waiting(q) \subseteq Waiting(p)
  <2>1. \A i, j \in 1 .. Len(q.waiters) :
          q.waiters[i].client = q.waiters[j].client => i = j
    BY <1>3, <1>6 DEF Sound, QueuedOnce
  <2>2. ASSUME NEW i \in 1 .. Len(q.waiters)
        PROVE  q.waiters[i].client \in Waiting(p) \ {c}
    <3>1. i + 1 \in 1 .. Len(p.waiters) /\ q.waiters[i] = p.waiters[i + 1]
      BY <1>3, <1>6
    <3>2. i + 1 # 1 /\ c = p.waiters[1].client
      BY <1>3
    <3>3. p.waiters[i + 1].client # c
      BY <1>3, <3>1, <3>2 DEF Sound, QueuedOnce
    <3> QED
      BY <3>1, <3>3 DEF Waiting
  <2>3. Waiting(q) \subseteq Waiting(p) \ {c}
    BY <2>2 DEF Waiting
  <2> QED
    BY <1>9, <2>1, <2>3 DEF Sound, QueuedOnce
<1> HIDE DEF q, c
<1> QED
  BY <1>4, <1>5, <1>6, <1>7, <1>8, <1>9, <1>10 DEF Sound, q, c
-----------------------------------------------------------------------------
(* drain()'s loop. *)

\* The argument type of Iteration includes the pools.
LEMMA PoolIsRaw ==
  ASSUME NEW p \in Pool
  PROVE  p \in RawPool
<1>1. Budget \in Nat /\ 0 .. Budget \subseteq Int
  BY BudgetIsPositive
<1>2. p.granted \in [Clients -> Int]
  BY <1>1 DEF Pool
<1>3. p.waiters \in Seq([client : Clients, want : Int])
  <2>1. p.waiters \in Seq(Waiter)
    BY DEF Pool
  <2> DEFINE Asks == [client : Clients, want : Int]
  <2>2. Waiter \subseteq Asks
    BY DEF Waiter
  <2> HIDE DEF Asks
  <2>3. \A i \in 1 .. Len(p.waiters) : p.waiters[i] \in Asks
    BY <2>1, <2>2
  <2>4. p.waiters \in Seq(Asks)
    BY <2>1, <2>3
  <2> QED
    BY <2>4 DEF Asks
<1>4. p = [granted |-> p.granted, waiters |-> p.waiters]
  BY DEF Pool
<1> QED
  BY <1>2, <1>3, <1>4 DEF RawPool

\* The loop is well defined: DrainRun(p) is the function its equation names.
LEMMA DrainRunUnfolds ==
  ASSUME NEW p, Len(p.waiters) \in Nat
  PROVE  /\ DrainRun(p)[0] = p
         /\ \A k \in 0 .. Len(p.waiters) - 1 :
              DrainRun(p)[k + 1] = Iteration[DrainRun(p)[k]]
<1> DEFINE Body(g, n) == [k \in 0 .. n |-> IF k = 0 THEN p ELSE Iteration[g[k - 1]]]
           S == {n \in Nat : \E g : g = Body(g, n)}
<1>1. 0 \in S
  <2>1. Body([k \in 0 .. 0 |-> p], 0) = [k \in 0 .. 0 |-> p]
    OBVIOUS
  <2> QED
    BY <2>1
<1>2. ASSUME NEW n \in Nat, n \in S
      PROVE  n + 1 \in S
  <2>1. PICK g : g = Body(g, n)
    BY <1>2
  <2> DEFINE h == [k \in 0 .. n + 1 |-> IF k <= n THEN g[k] ELSE Iteration[g[n]]]
  <2>2. h = Body(h, n + 1)
    BY <2>1
  <2> HIDE DEF h, Body
  <2>3. \E f : f = Body(f, n + 1)
    BY <2>2
  <2> QED
    BY <2>3
<1>3. Len(p.waiters) \in S
  BY <1>1, <1>2, SetInduction
<1>4. DrainRun(p) = Body(DrainRun(p), Len(p.waiters))
  BY <1>3 DEF DrainRun
<1> QED
  BY <1>4

\* What every iteration of the loop leaves true: the pool stays sound, only
\* clients it found waiting get anything, and k waiters have been shifted after k
\* iterations unless the loop stopped early.
LEMMA DrainLoop ==
  ASSUME NEW p, Sound(p)
  PROVE  \A k \in 0 .. Len(p.waiters) :
           LET q == DrainRun(p)[k]
           IN  /\ Sound(q)
               /\ Waiting(q) \subseteq Waiting(p)
               /\ \A c \in Clients \ Waiting(p) : q.granted[c] = p.granted[c]
               /\ Len(q.waiters) <= Len(p.waiters) - k \/ ~CanServe(q)
<1> DEFINE R == DrainRun(p)
           Good(q) == /\ Sound(q)
                      /\ Waiting(q) \subseteq Waiting(p)
                      /\ \A c \in Clients \ Waiting(p) : q.granted[c] = p.granted[c]
           S == {k \in 0 .. Len(p.waiters) :
                   /\ Good(R[k])
                   /\ Len(R[k].waiters) <= Len(p.waiters) - k \/ ~CanServe(R[k])}
<1>1. Len(p.waiters) \in Nat
  BY DEF Sound, Pool
<1>2. /\ R[0] = p
      /\ \A k \in 0 .. Len(p.waiters) - 1 : R[k + 1] = Iteration[R[k]]
  BY <1>1, DrainRunUnfolds
<1> HIDE DEF R
<1>3. 0 \in S
  BY <1>1, <1>2
<1>4. ASSUME NEW k \in 0 .. Len(p.waiters) - 1, k \in S
      PROVE  k + 1 \in S
  <2>0. R[k + 1] = IF CanServe(R[k]) THEN ServeHead(R[k]) ELSE R[k]
    BY <1>2, <1>4, PoolIsRaw DEF Iteration, Sound
  <2>1. CASE ~CanServe(R[k])
    <3>1. R[k + 1] = R[k]
      BY <2>0, <2>1
    <3> QED
      BY <1>4, <1>1, <2>1, <3>1
  <2>2. CASE CanServe(R[k])
    <3> DEFINE q == R[k]
               c == Head(q.waiters).client
    <3>1. R[k + 1] = ServeHead(q)
      BY <2>0, <2>2
    <3>2. Good(q) /\ Len(q.waiters) <= Len(p.waiters) - k
      BY <1>4, <2>2
    <3>3. /\ Sound(R[k + 1])
          /\ R[k + 1].waiters = Tail(q.waiters)
          /\ c \in Waiting(q)
          /\ Waiting(R[k + 1]) \subseteq Waiting(q)
          /\ R[k + 1].granted = [q.granted EXCEPT ![c] = Share(q)]
      BY <2>2, <3>1, <3>2, ServeHeadSound
    <3>4. q.waiters \in Seq(Waiter) /\ q.waiters # << >>
      BY <2>2, <3>2 DEF Sound, Pool, CanServe
    <3>5. Len(R[k + 1].waiters) = Len(q.waiters) - 1 /\ Len(q.waiters) \in Nat
      BY <3>3, <3>4, HeadAndTail
    <3>6. q.granted \in [Clients -> 0 .. Budget]
      BY <3>2 DEF Sound, Pool
    <3>7. ASSUME NEW d \in Clients \ Waiting(p)
          PROVE  R[k + 1].granted[d] = p.granted[d]
      <4>1. q.granted[d] = p.granted[d] /\ d # c
        BY <3>2, <3>3
      <4> QED
        BY <3>3, <3>6, <4>1
    <3>8. Good(R[k + 1])
      BY <3>2, <3>3, <3>7
    <3> HIDE DEF q, Good
    <3> QED
      BY <1>1, <3>2, <3>5, <3>8
  <2> QED
    BY <2>1, <2>2
<1>5. 0 .. Len(p.waiters) \subseteq S
  BY <1>1, <1>3, <1>4, BoundedInduction
<1> QED
  BY <1>5 DEF R

\* The loop ends for the reason the code gives: nobody waits or nothing is free.
LEMMA DrainSound ==
  ASSUME NEW p, Sound(p)
  PROVE  /\ Sound(Drain(p))
         /\ Drain(p).waiters # << >> => Available(Drain(p)) = 0
         /\ \A c \in Clients \ Waiting(p) : Drain(p).granted[c] = p.granted[c]
<1> DEFINE q == Drain(p)
<1>1. Len(p.waiters) \in Nat
  BY DEF Sound, Pool
<1>2. /\ Sound(q)
      /\ \A c \in Clients \ Waiting(p) : q.granted[c] = p.granted[c]
      /\ Len(q.waiters) <= 0 \/ ~CanServe(q)
  BY <1>1, DrainLoop DEF Drain
<1> HIDE DEF q
<1>3. q \in Pool /\ Used(q) <= Budget
  BY <1>2 DEF Sound
<1>4. q.waiters \in Seq(Waiter)
  BY <1>3 DEF Pool
<1>5. q.waiters # << >> => Len(q.waiters) > 0
  BY <1>4
<1>6. q.waiters # << >> => ~(Available(q) > 0)
  BY <1>2, <1>3, <1>4, <1>5, CanServeIffRoom
<1>7. Available(q) >= 0
  BY <1>3, UsedType, BudgetIsPositive DEF Available
<1>8. q.waiters # << >> => Available(q) = 0
  BY <1>6, <1>7, UsedType
<1> QED
  BY <1>2, <1>8 DEF q
-----------------------------------------------------------------------------
(* Whom drain() serves, and with how much. *)

\* q is p after drain() has served its first m waiters: the others still wait in
\* their order, only those m are new holders, nobody got more than p's fair share,
\* and the number of clients the shares are divided by has not changed.
ServedFirst(p, q, m) ==
  /\ Sound(q)
  /\ m \in 0 .. Len(p.waiters)
  /\ Len(q.waiters) = Len(p.waiters) - m
  /\ \A i \in 1 .. Len(q.waiters) : q.waiters[i] = p.waiters[i + m]
  /\ \A c \in Holders(q) \ Holders(p) :
       q.granted[c] <= FairShare(p) /\ \E l \in 1 .. m : p.waiters[l].client = c
  /\ Interested(q) = Interested(p)

\* One more iteration of the loop serves one more waiter.
LEMMA ServeNext ==
  ASSUME NEW p, Sound(p), NEW q, NEW m, ServedFirst(p, q, m), CanServe(q)
  PROVE  ServedFirst(p, ServeHead(q), m + 1)
<1> DEFINE r == ServeHead(q)
           c == Head(q.waiters).client
<1>1. /\ Sound(r)
      /\ r.waiters = Tail(q.waiters)
      /\ c \in Waiting(q) \ Holders(q)
      /\ r.granted = [q.granted EXCEPT ![c] = Share(q)]
      /\ Holders(r) = Holders(q) \cup {c}
  BY ServeHeadSound DEF ServedFirst
<1>2. /\ q \in Pool /\ q.waiters \in Seq(Waiter) /\ q.waiters # << >>
      /\ q.granted \in [Clients -> 0 .. Budget]
      /\ p.waiters \in Seq(Waiter)
  BY DEF ServedFirst, Sound, Pool, CanServe
<1>3. /\ Head(q.waiters) = q.waiters[1]
      /\ Len(q.waiters) \in Nat /\ Len(q.waiters) >= 1
      /\ Len(r.waiters) = Len(q.waiters) - 1
      /\ \A i \in 1 .. Len(q.waiters) - 1 : r.waiters[i] = q.waiters[i + 1]
  BY <1>1, <1>2, HeadAndTail
<1>4. Len(p.waiters) \in Nat /\ m \in 0 .. Len(p.waiters)
      /\ Len(q.waiters) = Len(p.waiters) - m
      /\ \A i \in 1 .. Len(q.waiters) : q.waiters[i] = p.waiters[i + m]
  BY <1>2 DEF ServedFirst
<1>5. c \in Clients /\ c \notin Holders(q)
  <2>1. Head(q.waiters) \in Waiter
    BY <1>2, HeadAndTail
  <2>2. c \in Clients
    BY <2>1 DEF Waiter
  <2> QED
    BY <1>1, <2>2
<1>6. FairShare(q) = FairShare(p) /\ Interested(q) = Interested(p)
  BY DEF ServedFirst, FairShare
<1>7. Share(q) <= FairShare(p)
  BY <1>2, <1>6, ShareBounds DEF CanServe
<1> HIDE DEF r
<1>8. m + 1 \in 0 .. Len(p.waiters) /\ Len(r.waiters) = Len(p.waiters) - (m + 1)
  BY <1>3, <1>4
<1>9. \A i \in 1 .. Len(r.waiters) : r.waiters[i] = p.waiters[i + (m + 1)]
  <2> SUFFICES ASSUME NEW i \in 1 .. Len(r.waiters)
               PROVE  r.waiters[i] = p.waiters[i + (m + 1)]
    OBVIOUS
  <2>1. i + 1 \in 1 .. Len(q.waiters) /\ r.waiters[i] = q.waiters[i + 1]
    BY <1>3
  <2>2. (i + 1) + m = i + (m + 1)
    BY <1>3, <1>4
  <2> QED
    BY <1>4, <2>1, <2>2
<1>10. c = p.waiters[m + 1].client
  BY <1>3, <1>4
<1> HIDE DEF c
<1>11. ASSUME NEW d \in Holders(r) \ Holders(p)
       PROVE  r.granted[d] <= FairShare(p) /\ \E l \in 1 .. m + 1 : p.waiters[l].client = d
  <2>1. CASE d = c
    <3>1. r.granted[d] = Share(q)
      BY <1>1, <1>2, <1>5, <2>1
    <3>2. m + 1 \in 1 .. m + 1
      BY <1>4
    <3> QED
      BY <1>7, <1>10, <2>1, <3>1, <3>2
  <2>2. CASE d # c
    <3>1. d \in Holders(q) \ Holders(p)
      BY <1>1, <2>2
    <3>2. r.granted[d] = q.granted[d]
      BY <1>1, <1>2, <2>2, <3>1 DEF Holders
    <3>3. PICK l \in 1 .. m : p.waiters[l].client = d
      BY <3>1 DEF ServedFirst
    <3>4. l \in 1 .. m + 1
      BY <1>4
    <3>5. q.granted[d] <= FairShare(p)
      BY <3>1 DEF ServedFirst
    <3> QED
      BY <3>2, <3>3, <3>4, <3>5
  <2> QED
    BY <2>1, <2>2
<1>12. Interested(r) = Interested(p)
  <2>1. IsFiniteSet(Holders(q)) /\ Cardinality(Holders(q)) \in Nat
    BY <1>2, InterestedType, FS_CardinalityType
  <2>2. Cardinality(Holders(r)) = Cardinality(Holders(q)) + 1
    BY <1>1, <1>5, <2>1, FS_AddElement
  <2> QED
    BY <1>3, <1>6, <2>1, <2>2 DEF Interested
<1> QED
  BY <1>1, <1>8, <1>9, <1>11, <1>12 DEF ServedFirst, r

\* Every iteration has served the waiters of a prefix of the queue.
LEMMA DrainServesFirst ==
  ASSUME NEW p, Sound(p)
  PROVE  \E m : ServedFirst(p, Drain(p), m)
<1> DEFINE R == DrainRun(p)
           S == {k \in 0 .. Len(p.waiters) : \E m : ServedFirst(p, R[k], m)}
<1>1. Len(p.waiters) \in Nat
  BY DEF Sound, Pool
<1>2. /\ R[0] = p
      /\ \A k \in 0 .. Len(p.waiters) - 1 : R[k + 1] = Iteration[R[k]]
  BY <1>1, DrainRunUnfolds
<1> HIDE DEF R
<1>3. 0 \in S
  <2>1. ServedFirst(p, p, 0)
    BY <1>1 DEF ServedFirst
  <2> QED
    BY <1>1, <1>2, <2>1
<1>4. ASSUME NEW k \in 0 .. Len(p.waiters) - 1, k \in S
      PROVE  k + 1 \in S
  <2>1. PICK m : ServedFirst(p, R[k], m)
    BY <1>4
  <2>2. R[k + 1] = IF CanServe(R[k]) THEN ServeHead(R[k]) ELSE R[k]
    BY <1>2, <1>4, <2>1, PoolIsRaw DEF Iteration, ServedFirst, Sound
  <2>3. \E l : ServedFirst(p, R[k + 1], l)
    <3>1. CASE CanServe(R[k])
      BY <2>1, <2>2, <3>1, ServeNext
    <3>2. CASE ~CanServe(R[k])
      BY <2>1, <2>2, <3>2
    <3> QED
      BY <3>1, <3>2
  <2> QED
    BY <1>1, <2>3
<1>5. 0 .. Len(p.waiters) \subseteq S
  <2> HIDE DEF S
  <2> QED
    BY <1>1, <1>3, <1>4, BoundedInduction
<1>6. Len(p.waiters) \in S
  <2> HIDE DEF S
  <2> QED
    BY <1>1, <1>5
<1> QED
  BY <1>6 DEF R, Drain

\* The waiters a drained pool has served all stood ahead of those it has not.
LEMMA DrainOrder ==
  ASSUME NEW p, Sound(p)
  PROVE  \E m : /\ \A c \in Holders(Drain(p)) \ Holders(p) :
                     \E l \in 1 .. Len(p.waiters) : l <= m /\ p.waiters[l].client = c
                /\ \A c \in Waiting(Drain(p)) :
                     \E x \in 1 .. Len(p.waiters) : x > m /\ p.waiters[x].client = c
                /\ m \in Int
<1> DEFINE q == Drain(p)
<1>1. PICK m : ServedFirst(p, q, m)
  BY DrainServesFirst
<1> HIDE DEF q
<1>2. Len(p.waiters) \in Nat /\ m \in 0 .. Len(p.waiters)
      /\ Len(q.waiters) = Len(p.waiters) - m
      /\ \A i \in 1 .. Len(q.waiters) : q.waiters[i] = p.waiters[i + m]
  BY <1>1 DEF ServedFirst, Sound, Pool
<1>3. ASSUME NEW c \in Holders(q) \ Holders(p)
      PROVE  \E l \in 1 .. Len(p.waiters) : l <= m /\ p.waiters[l].client = c
  <2>1. PICK l \in 1 .. m : p.waiters[l].client = c
    BY <1>1 DEF ServedFirst
  <2>2. l \in 1 .. Len(p.waiters) /\ l <= m
    BY <1>2
  <2> QED
    BY <2>1, <2>2
<1>4. ASSUME NEW c \in Waiting(q)
      PROVE  \E x \in 1 .. Len(p.waiters) : x > m /\ p.waiters[x].client = c
  <2>1. PICK i \in 1 .. Len(q.waiters) : q.waiters[i].client = c
    BY DEF Waiting
  <2>2. i + m \in 1 .. Len(p.waiters) /\ i + m > m
    BY <1>2
  <2>3. p.waiters[i + m].client = c
    BY <1>2, <2>1
  <2> QED
    BY <2>2, <2>3
<1>5. m \in Int
  BY <1>2
<1> QED
  BY <1>3, <1>4, <1>5, Zenon DEF q

\* Interested is the number of clients that hold or wait: each counts once.
LEMMA InterestedCounts ==
  ASSUME NEW p, Sound(p)
  PROVE  Interested(p) = Cardinality(Holders(p) \cup Waiting(p))
<1> DEFINE n == Len(p.waiters)
           f == [i \in 1 .. n |-> p.waiters[i].client]
<1>1. n \in Nat /\ p \in Pool
  BY DEF Sound, Pool
<1>2. \A i, j \in 1 .. n : p.waiters[i].client = p.waiters[j].client => i = j
  BY DEF Sound, QueuedOnce
<1>3. f \in Bijection(1 .. n, Waiting(p))
  BY <1>2 DEF Waiting, Bijection, Injection, Surjection, IsInjective
<1>4. ExistsBijection(1 .. n, Waiting(p))
  BY <1>3 DEF ExistsBijection
<1>5. IsFiniteSet(1 .. n) /\ Cardinality(1 .. n) = n
  BY <1>1, FS_Interval
<1> HIDE DEF f, n
<1>6. IsFiniteSet(Waiting(p)) /\ Cardinality(Waiting(p)) = n
  BY <1>4, <1>5, FS_Bijection
<1>7. IsFiniteSet(Holders(p)) /\ Cardinality(Holders(p)) \in Nat
  BY <1>1, InterestedType, FS_CardinalityType
<1>8. Cardinality(Holders(p) \cap Waiting(p)) = 0
  BY FS_EmptySet DEF Sound, QueuedOnce
<1>9. Cardinality(Holders(p) \cup Waiting(p)) =
        Cardinality(Holders(p)) + Cardinality(Waiting(p))
          - Cardinality(Holders(p) \cap Waiting(p))
  BY <1>6, <1>7, FS_Union
<1> QED
  BY <1>1, <1>6, <1>7, <1>8, <1>9 DEF Interested, n

\* A drained pool has given each new holder at most the fair share of the clients
\* it knows.
LEMMA DrainShares ==
  ASSUME NEW p, Sound(p), NEW c \in Holders(Drain(p)) \ Holders(p)
  PROVE  Drain(p).granted[c] <=
           AtLeastOne(Budget \div Cardinality(Holders(Drain(p)) \cup Waiting(Drain(p))))
<1> DEFINE q == Drain(p)
<1>1. PICK m : ServedFirst(p, q, m)
  BY DrainServesFirst
<1> HIDE DEF q
<1>2. q.granted[c] <= FairShare(p) /\ Interested(q) = Interested(p) /\ Sound(q)
  <2>1. c \in Holders(q) \ Holders(p)
    BY DEF q
  <2> QED
    BY <1>1, <2>1 DEF ServedFirst
<1>3. FairShare(p) = AtLeastOne(Budget \div Cardinality(Holders(q) \cup Waiting(q)))
  BY <1>2, InterestedCounts DEF FairShare
<1> QED
  BY <1>2, <1>3 DEF q
-----------------------------------------------------------------------------
(* release(): the filter, then the whole operation. *)

\* s is the subsequence of t that leaves out client c, and nobody else: f maps its
\* positions, in order, to positions of t.
KeepsOrder(s, t, c) ==
  \E f \in [1 .. Len(s) -> 1 .. Len(t)] :
    /\ \A i \in 1 .. Len(s) : s[i] = t[f[i]] /\ s[i].client # c
    /\ \A i, j \in 1 .. Len(s) : i < j => f[i] < f[j]
    /\ \A l \in 1 .. Len(t) : t[l].client # c => \E i \in 1 .. Len(s) : f[i] = l

\* Filtering keeps everybody else, in their order, and invents nobody.
LEMMA WithoutKeepsOrder ==
  ASSUME NEW t \in Seq(Waiter), NEW c
  PROVE  Without(t, c) \in Seq(Waiter) /\ KeepsOrder(Without(t, c), t, c)
<1> DEFINE Step(s, i) == IF t[i].client = c THEN s ELSE Append(s, t[i])
           Body(g, n) == [i \in 0 .. n |-> IF i = 0 THEN << >> ELSE Step(g[i - 1], i)]
           E == {n \in Nat : \E g : g = Body(g, n)}
           kept == CHOOSE g : g = Body(g, Len(t))
           Up(s, k) == \E f \in [1 .. Len(s) -> 1 .. k] :
                         /\ \A i \in 1 .. Len(s) : s[i] = t[f[i]] /\ s[i].client # c
                         /\ \A i, j \in 1 .. Len(s) : i < j => f[i] < f[j]
                         /\ \A l \in 1 .. k : t[l].client # c => \E i \in 1 .. Len(s) : f[i] = l
           S == {k \in 0 .. Len(t) : kept[k] \in Seq(Waiter) /\ Up(kept[k], k)}
<1>0. Len(t) \in Nat /\ \A i \in 1 .. Len(t) : t[i] \in Waiter
  OBVIOUS
<1>1. kept = Body(kept, Len(t))
  <2> HIDE DEF Step
  <2>1. 0 \in E
    <3>1. Body([i \in 0 .. 0 |-> << >>], 0) = [i \in 0 .. 0 |-> << >>]
      OBVIOUS
    <3> QED
      BY <3>1
  <2>2. ASSUME NEW n \in Nat, n \in E
        PROVE  n + 1 \in E
    <3>1. PICK g : g = Body(g, n)
      BY <2>2
    <3> DEFINE h == [i \in 0 .. n + 1 |-> IF i <= n THEN g[i] ELSE Step(g[n], n + 1)]
    <3>2. h = Body(h, n + 1)
      BY <3>1
    <3> HIDE DEF h, Body
    <3>3. \E f : f = Body(f, n + 1)
      BY <3>2
    <3> QED
      BY <3>3
  <2>3. Len(t) \in E
    BY <1>0, <2>1, <2>2, SetInduction
  <2> QED
    BY <2>3
<1>2. Without(t, c) = kept[Len(t)]
  BY DEF Without
<1> HIDE DEF kept
<1>3. /\ kept[0] = << >>
      /\ \A k \in 0 .. Len(t) - 1 : kept[k + 1] = Step(kept[k], k + 1)
  <2> HIDE DEF Step
  <2>1. kept[0] = << >>
    BY <1>0, <1>1
  <2>2. ASSUME NEW k \in 0 .. Len(t) - 1
        PROVE  kept[k + 1] = Step(kept[k], k + 1)
    <3>1. k + 1 \in 0 .. Len(t) /\ k + 1 # 0 /\ (k + 1) - 1 = k
      BY <1>0
    <3> QED
      BY <1>1, <3>1
  <2> QED
    BY <2>1, <2>2
<1>4. 0 \in S
  <2>1. Up(<< >>, 0)
    <3> DEFINE f == [i \in 1 .. 0 |-> i]
    <3>1. Len(<< >>) = 0 /\ 1 .. 0 = {}
      OBVIOUS
    <3>2. f \in [1 .. 0 -> 1 .. 0]
      OBVIOUS
    <3> HIDE DEF f
    <3> QED
      BY <3>1, <3>2
  <2>2. << >> \in Seq(Waiter)
    OBVIOUS
  <2>3. kept[0] = << >>
    BY <1>3
  <2> HIDE DEF Up
  <2>4. kept[0] \in Seq(Waiter) /\ Up(kept[0], 0)
    BY <2>1, <2>2, <2>3, Zenon
  <2> QED
    BY <1>0, <2>4
<1>5. ASSUME NEW k \in 0 .. Len(t) - 1, k \in S
      PROVE  k + 1 \in S
  <2>1. kept[k] \in Seq(Waiter)
    BY <1>5
  <2>2. PICK f \in [1 .. Len(kept[k]) -> 1 .. k] :
          /\ \A i \in 1 .. Len(kept[k]) : kept[k][i] = t[f[i]] /\ kept[k][i].client # c
          /\ \A i, j \in 1 .. Len(kept[k]) : i < j => f[i] < f[j]
          /\ \A l \in 1 .. k : t[l].client # c => \E i \in 1 .. Len(kept[k]) : f[i] = l
    BY <1>5
  <2>3. CASE t[k + 1].client = c
    <3>1. kept[k + 1] = kept[k]
      BY <1>3, <2>3
    <3>2. f \in [1 .. Len(kept[k]) -> 1 .. k + 1]
      BY <1>0
    <3>3. \A l \in 1 .. k + 1 : t[l].client # c => \E i \in 1 .. Len(kept[k]) : f[i] = l
      <4>1. \A l \in 1 .. k + 1 : l \in 1 .. k \/ l = k + 1
        BY <1>0
      <4> QED
        BY <2>2, <2>3, <4>1
    <3>4. Up(kept[k + 1], k + 1)
      BY <2>2, <3>1, <3>2, <3>3
    <3> HIDE DEF Up
    <3> QED
      BY <1>0, <2>1, <3>1, <3>4
  <2>4. CASE t[k + 1].client # c
    <3> DEFINE u == Append(kept[k], t[k + 1])
               m == Len(kept[k])
               h == [i \in 1 .. m + 1 |-> IF i <= m THEN f[i] ELSE k + 1]
    <3>1. kept[k + 1] = u
      BY <1>3, <2>4
    <3>2. /\ u \in Seq(Waiter) /\ m \in Nat /\ Len(u) = m + 1
          /\ \A i \in 1 .. m : u[i] = kept[k][i]
          /\ u[m + 1] = t[k + 1]
      BY <1>0, <2>1
    <3>3. h \in [1 .. Len(u) -> 1 .. k + 1]
      BY <1>0, <3>2
    <3>4. \A i \in 1 .. Len(u) : u[i] = t[h[i]] /\ u[i].client # c
      BY <2>2, <2>4, <3>2
    <3>5. ASSUME NEW i \in 1 .. Len(u), NEW j \in 1 .. Len(u), i < j
          PROVE  h[i] < h[j]
      <4>1. i \in 1 .. m /\ h[i] = f[i] /\ f[i] \in 1 .. k
        <5>1. m \in Nat /\ Len(u) = m + 1
          BY <3>2
        <5> HIDE DEF u, m
        <5>2. i \in 1 .. m /\ i \in 1 .. m + 1 /\ i <= m
          BY <3>5, <5>1
        <5> QED
          BY <5>2 DEF m
      <4>2. CASE j = m + 1
        BY <1>0, <3>2, <4>1, <4>2
      <4>3. CASE j # m + 1
        <5>1. j \in 1 .. m /\ h[j] = f[j]
          BY <3>2, <4>3
        <5> QED
          BY <2>2, <3>5, <4>1, <5>1
      <4> QED
        BY <4>2, <4>3
    <3>6. ASSUME NEW l \in 1 .. k + 1, t[l].client # c
          PROVE  \E i \in 1 .. Len(u) : h[i] = l
      <4>1. CASE l = k + 1
        <5>1. m + 1 \in 1 .. Len(u) /\ h[m + 1] = k + 1
          BY <3>2
        <5> QED
          BY <4>1, <5>1
      <4>2. CASE l # k + 1
        <5>1. l \in 1 .. k
          BY <1>0, <4>2
        <5>2. PICK i \in 1 .. m : f[i] = l
          BY <2>2, <3>6, <5>1
        <5>3. i \in 1 .. Len(u) /\ h[i] = f[i]
          BY <3>2
        <5> QED
          BY <5>2, <5>3
      <4> QED
        BY <4>1, <4>2
    <3> HIDE DEF h, u
    <3>7. Up(u, k + 1)
      BY <3>3, <3>4, <3>5, <3>6
    <3> HIDE DEF Up
    <3> QED
      BY <1>0, <3>1, <3>2, <3>7
  <2> QED
    BY <2>3, <2>4
<1>6. Len(t) \in S
  <2> HIDE DEF S
  <2>1. 0 .. Len(t) \subseteq S
    BY <1>0, <1>4, <1>5, BoundedInduction
  <2> QED
    BY <1>0, <2>1
<1>7. kept[Len(t)] \in Seq(Waiter) /\ Up(kept[Len(t)], Len(t))
  <2> HIDE DEF Up
  <2> QED
    BY <1>6
<1> QED
  BY <1>2, <1>7 DEF KeepsOrder

LEMMA ForgetSound ==
  ASSUME NEW p, Sound(p), NEW c \in Clients
  PROVE  /\ Sound(Forget(p, c))
         /\ \A d \in Clients \ {c} : Forget(p, c).granted[d] = p.granted[d]
         /\ Forget(p, c).granted[c] = 0
         /\ Waiting(Forget(p, c)) = Waiting(p) \ {c}
<1> DEFINE q == Forget(p, c)
           s == Without(p.waiters, c)
<1>1. p.granted \in [Clients -> 0 .. Budget] /\ p.waiters \in Seq(Waiter)
  BY DEF Sound, Pool
<1>2. /\ q.granted = [p.granted EXCEPT ![c] = 0]
      /\ q.waiters = s
      /\ q = [granted |-> q.granted, waiters |-> q.waiters]
  BY DEF Forget
<1>3. s \in Seq(Waiter) /\ KeepsOrder(s, p.waiters, c)
  BY <1>1, WithoutKeepsOrder
<1>4. PICK f \in [1 .. Len(s) -> 1 .. Len(p.waiters)] :
        /\ \A i \in 1 .. Len(s) : s[i] = p.waiters[f[i]] /\ s[i].client # c
        /\ \A i, j \in 1 .. Len(s) : i < j => f[i] < f[j]
        /\ \A l \in 1 .. Len(p.waiters) :
             p.waiters[l].client # c => \E i \in 1 .. Len(s) : f[i] = l
  BY <1>3 DEF KeepsOrder
<1> HIDE DEF q, s
<1>5. q.granted \in [Clients -> 0 .. Budget]
  BY <1>1, <1>2, BudgetIsPositive
<1>6. q \in Pool
  BY <1>2, <1>3, <1>5 DEF Pool
<1>7. /\ \A d \in Clients \ {c} : q.granted[d] = p.granted[d]
      /\ q.granted[c] = 0
  BY <1>1, <1>2
<1>8. Used(q) <= Budget
  <2>1. \A d \in Clients : q.granted[d] <= p.granted[d]
    BY <1>1, <1>7, BudgetIsPositive
  <2>2. Used(q) <= Used(p)
    BY <1>1, <1>5, <2>1, FewerSlots DEF Used
  <2> QED
    BY <2>2, UsedType, BudgetIsPositive DEF Sound
<1>9. Holders(q) \subseteq Holders(p)
  BY <1>7 DEF Holders
<1>10. Waiting(q) = Waiting(p) \ {c}
  <2>1. Waiting(q) \subseteq Waiting(p) \ {c}
    BY <1>2, <1>4 DEF Waiting
  <2>2. ASSUME NEW d \in Waiting(p) \ {c}
        PROVE  d \in Waiting(q)
    <3>1. PICK l \in 1 .. Len(p.waiters) : p.waiters[l].client = d
      BY DEF Waiting
    <3>2. PICK i \in 1 .. Len(s) : f[i] = l
      BY <1>4, <3>1
    <3> QED
      BY <1>2, <1>4, <3>1, <3>2 DEF Waiting
  <2> QED
    BY <2>1, <2>2
<1>11. ASSUME NEW i \in 1 .. Len(q.waiters), NEW j \in 1 .. Len(q.waiters),
              q.waiters[i].client = q.waiters[j].client
       PROVE  i = j
  <2>1. i \in 1 .. Len(s) /\ j \in 1 .. Len(s) /\ Len(s) \in Nat
    BY <1>2, <1>3
  <2>2. /\ f[i] \in 1 .. Len(p.waiters) /\ f[j] \in 1 .. Len(p.waiters)
        /\ p.waiters[f[i]].client = p.waiters[f[j]].client
    BY <1>2, <1>4, <1>11, <2>1
  <2>3. f[i] = f[j]
    BY <2>2 DEF Sound, QueuedOnce
  <2>4. ~(i < j) /\ ~(j < i)
    BY <1>1, <1>4, <2>1, <2>2, <2>3
  <2> QED
    BY <2>1, <2>4
<1>12. QueuedOnce(q)
  BY <1>9, <1>10, <1>11 DEF Sound, QueuedOnce
<1> QED
  BY <1>6, <1>7, <1>8, <1>10, <1>12 DEF Sound, q

LEMMA EnqueueSound ==
  ASSUME NEW p, Sound(p), NEW c \in Clients \ (Holders(p) \cup Waiting(p)),
         NEW want \in Int
  PROVE  /\ Sound(Enqueue(p, c, want))
         /\ Enqueue(p, c, want).granted = p.granted
         /\ Waiting(Enqueue(p, c, want)) = Waiting(p) \cup {c}
<1> DEFINE q == Enqueue(p, c, want)
           w == [client |-> c, want |-> AtLeastOne(want)]
           n == Len(p.waiters)
<1>1. p \in Pool /\ p.waiters \in Seq(Waiter)
  BY DEF Sound, Pool
<1>2. w \in Waiter /\ w.client = c
  BY DEF Waiter, AtLeastOne
<1>3. q.granted = p.granted /\ q.waiters = Append(p.waiters, w)
  BY <1>1 DEF Enqueue, Pool
<1>4. q \in Pool
  <2>1. Append(p.waiters, w) \in Seq(Waiter)
    BY <1>1, <1>2
  <2> QED
    BY <1>1, <2>1 DEF Enqueue, Pool
<1> HIDE DEF w
<1>5. /\ n \in Nat /\ Len(q.waiters) = n + 1
      /\ \A i \in 1 .. n : q.waiters[i] = p.waiters[i]
      /\ q.waiters[n + 1] = w
  BY <1>1, <1>2, <1>3
<1> HIDE DEF q, n
<1>6. Used(q) <= Budget /\ Holders(q) = Holders(p)
  BY <1>3 DEF Sound, Used, Holders
<1>7. Waiting(q) = Waiting(p) \cup {c}
  <2>1. Waiting(q) \subseteq Waiting(p) \cup {c}
    BY <1>2, <1>5 DEF Waiting, n
  <2>2. c \in Waiting(q)
    <3>1. n + 1 \in 1 .. Len(q.waiters) /\ q.waiters[n + 1].client = c
      BY <1>2, <1>5
    <3> QED
      BY <3>1 DEF Waiting
  <2>3. Waiting(p) \subseteq Waiting(q)
    <3>1. \A i \in 1 .. n : i \in 1 .. Len(q.waiters) /\ q.waiters[i].client = p.waiters[i].client
      BY <1>5
    <3> QED
      BY <3>1 DEF Waiting, n
  <2> QED
    BY <2>1, <2>2, <2>3
<1>8. ASSUME NEW i \in 1 .. Len(q.waiters), NEW j \in 1 .. Len(q.waiters),
             q.waiters[i].client = q.waiters[j].client
      PROVE  i = j
  <2>1. \A k \in 1 .. n : q.waiters[k].client \in Waiting(p)
    BY <1>5 DEF Waiting, n
  <2>2. CASE i = n + 1 \/ j = n + 1
    BY <1>2, <1>5, <1>8, <2>1, <2>2
  <2>3. CASE i # n + 1 /\ j # n + 1
    <3>1. /\ i \in 1 .. Len(p.waiters) /\ j \in 1 .. Len(p.waiters)
          /\ p.waiters[i].client = p.waiters[j].client
      BY <1>5, <1>8, <2>3 DEF n
    <3> QED
      BY <3>1 DEF Sound, QueuedOnce
  <2> QED
    BY <2>2, <2>3
<1>9. QueuedOnce(q)
  BY <1>6, <1>7, <1>8 DEF Sound, QueuedOnce
<1> QED
  BY <1>3, <1>4, <1>6, <1>7, <1>9 DEF Sound, q

-----------------------------------------------------------------------------
(* What the two operations do, for the broker that calls them. *)

\* The clients a pool knows.
Known(p) == Holders(p) \cup Waiting(p)

\* A new pool is sound and knows nobody.
LEMMA EmptyPoolIsSound == Sound(EmptyPool) /\ Known(EmptyPool) = {}
<1> DEFINE p == EmptyPool
<1>1. /\ p.granted = [c \in Clients |-> 0] /\ p.waiters = << >>
      /\ p = [granted |-> p.granted, waiters |-> p.waiters]
  BY DEF EmptyPool
<1> HIDE DEF p
<1>2. p \in Pool
  <2>1. p.granted \in [Clients -> 0 .. Budget]
    BY <1>1, BudgetIsPositive
  <2>2. p.waiters \in Seq(Waiter)
    BY <1>1
  <2> QED
    BY <1>1, <2>1, <2>2 DEF Pool
<1>3. Slots(p.granted) = {}
  BY <1>1 DEF Slots
<1>4. Used(p) = 0
  BY <1>3, FS_EmptySet DEF Used
<1>5. QueuedOnce(p) /\ Known(p) = {}
  BY <1>1 DEF QueuedOnce, Known, Holders, Waiting
<1> QED
  BY <1>2, <1>4, <1>5, BudgetIsPositive DEF Sound, p

\* drain() forgets nobody and hears of nobody: it knows as many clients as before
\* (ServedFirst), none of them new.
LEMMA DrainKeepsClients ==
  ASSUME NEW p, Sound(p)
  PROVE  /\ Sound(Drain(p))
         /\ Known(Drain(p)) = Known(p)
         /\ \A d \in Holders(p) : Drain(p).granted[d] = p.granted[d]
<1> DEFINE q == Drain(p)
<1>1. PICK m : ServedFirst(p, q, m)
  BY DrainServesFirst
<1>2. /\ Sound(q) /\ Waiting(q) \subseteq Waiting(p)
      /\ \A c \in Clients \ Waiting(p) : q.granted[c] = p.granted[c]
  <2>1. Waiting(q) \subseteq Waiting(p)
    <3>1. Len(p.waiters) \in Nat
      BY DEF Sound, Pool
    <3> QED
      BY <3>1, <1>1 DEF ServedFirst, Waiting
  <2> QED
    BY <2>1, DrainSound
<1> HIDE DEF q
<1>3. \A d \in Holders(p) : d \in Clients \ Waiting(p)
  BY DEF Sound, QueuedOnce, Holders
<1>4. Known(q) \subseteq Known(p)
  BY <1>2 DEF Known, Holders
<1>5. Cardinality(Known(q)) = Cardinality(Known(p))
  BY <1>1, <1>2, InterestedCounts DEF ServedFirst, Known
<1>6. IsFiniteSet(Known(p))
  <2>1. \A i \in 1 .. Len(p.waiters) : p.waiters[i].client \in Clients
    <3>1. p.waiters \in Seq(Waiter)
      BY DEF Sound, Pool
    <3>2. \A i \in 1 .. Len(p.waiters) : p.waiters[i] \in Waiter
      BY <3>1
    <3> QED
      BY <3>2 DEF Waiter
  <2>2. Known(p) \subseteq Clients
    BY <2>1 DEF Known, Holders, Waiting
  <2> QED
    BY <2>2, ClientsAssumption, FS_Subset
<1>7. Known(q) = Known(p)
  BY <1>4, <1>5, <1>6, FS_Subset
<1> QED
  BY <1>2, <1>3, <1>7 DEF q

\* request(): the pool now knows the client too, and whoever held slots holds the
\* same slots.
LEMMA RequestEffect ==
  ASSUME NEW p, Sound(p), NEW c \in Clients \ Known(p), NEW want \in Int
  PROVE  /\ Sound(RequestSlots(p, c, want))
         /\ Known(RequestSlots(p, c, want)) = Known(p) \cup {c}
         /\ \A d \in Holders(p) : RequestSlots(p, c, want).granted[d] = p.granted[d]
<1> DEFINE q == Enqueue(p, c, want)
<1>1. Sound(q) /\ q.granted = p.granted /\ Waiting(q) = Waiting(p) \cup {c}
  BY EnqueueSound DEF Known
<1> HIDE DEF q
<1>2. Holders(q) = Holders(p)
  BY <1>1 DEF Holders
<1> QED
  BY <1>1, <1>2, DrainKeepsClients DEF RequestSlots, Known, q

\* release(): the pool forgets that client and nobody else, and whoever else held
\* slots holds the same slots.
LEMMA ReleaseEffect ==
  ASSUME NEW p, Sound(p), NEW c \in Clients
  PROVE  /\ Sound(ReleaseSlots(p, c))
         /\ Known(ReleaseSlots(p, c)) = Known(p) \ {c}
         /\ \A d \in Holders(p) \ {c} : ReleaseSlots(p, c).granted[d] = p.granted[d]
<1> DEFINE q == Forget(p, c)
<1>1. /\ Sound(q) /\ Waiting(q) = Waiting(p) \ {c}
      /\ \A d \in Clients \ {c} : q.granted[d] = p.granted[d]
      /\ q.granted[c] = 0
  BY ForgetSound
<1> HIDE DEF q
<1>2. Holders(q) = Holders(p) \ {c}
  BY <1>1 DEF Holders
<1> QED
  BY <1>1, <1>2, DrainKeepsClients DEF ReleaseSlots, Known, Holders, q

-----------------------------------------------------------------------------
(* The theorems. *)

\* The inductive invariant: between two calls the pool is sound and drained.
Inv == Sound(pool) /\ NoSlotIdleWhileWaiting

LEMMA InitInv == Init => Inv
BY EmptyPoolIsSound DEF Init, Inv, NoSlotIdleWhileWaiting, EmptyPool

LEMMA NextInv == Inv /\ [Next]_vars => Inv'
<1> SUFFICES ASSUME Inv, [Next]_vars PROVE Inv'
  OBVIOUS
<1>1. CASE UNCHANGED vars
  BY <1>1 DEF Inv, vars, NoSlotIdleWhileWaiting
<1>2. ASSUME NEW c \in Clients, NEW want \in Wants, Request(c, want)
      PROVE  Inv'
  <2>1. Sound(Enqueue(pool, c, want))
    BY <1>2, WantsAssumption, EnqueueSound DEF Inv, Request
  <2>2. pool' = Drain(Enqueue(pool, c, want))
    BY <1>2 DEF Request, RequestSlots
  <2> QED
    BY <2>1, <2>2, DrainSound DEF Inv, NoSlotIdleWhileWaiting
<1>3. ASSUME NEW c \in Clients, Release(c)
      PROVE  Inv'
  <2>1. Sound(Forget(pool, c))
    BY ForgetSound DEF Inv
  <2>2. pool' = Drain(Forget(pool, c))
    BY <1>3 DEF Release, ReleaseSlots
  <2> QED
    BY <2>1, <2>2, DrainSound DEF Inv, NoSlotIdleWhileWaiting
<1> QED
  BY <1>1, <1>2, <1>3 DEF Next

\* The pool's bookkeeping always holds, for every budget and set of clients.
THEOREM PoolInvariant == Spec => []Inv
BY InitInv, NextInv, PTL DEF Spec

\* The pool is a map of entries within the budget and a queue of positive asks.
THEOREM TypeCorrect == Spec => []TypeOK
<1>1. Inv => TypeOK
  BY DEF Inv, Sound, TypeOK
<1> QED
  BY <1>1, PoolInvariant, PTL

\* queue-core.ts:19, "the sum of granted slots never exceeds budget".
THEOREM BudgetIsHardCap == Spec => []WithinBudget
<1>1. Inv => WithinBudget
  BY DEF Inv, Sound, WithinBudget
<1> QED
  BY <1>1, PoolInvariant, PTL

\* No slot lies idle while a client waits: release() hands on what it freed.
THEOREM WorkConserving == Spec => []NoSlotIdleWhileWaiting
<1>1. Inv => NoSlotIdleWhileWaiting
  BY DEF Inv
<1> QED
  BY <1>1, PoolInvariant, PTL

\* Nobody holds slots and waits for slots, or waits twice.
THEOREM ClientsKnownOnce == Spec => []KnownOnce
<1>1. Inv => KnownOnce
  BY DEF Inv, Sound, QueuedOnce, KnownOnce
<1> QED
  BY <1>1, PoolInvariant, PTL

\* The pool's books are exact after every request and every release: typed, within
\* the budget, with no slot idle beside a waiter, and each client known once.
THEOREM PoolStaysExact == Spec => []PoolIsExact
<1>1. TypeOK /\ WithinBudget /\ NoSlotIdleWhileWaiting /\ KnownOnce => PoolIsExact
  BY DEF PoolIsExact
<1> QED
  BY <1>1, TypeCorrect, BudgetIsHardCap, WorkConserving, ClientsKnownOnce, PTL

\* A grant stays as it was made until the client releases it.
THEOREM GrantsStand == Spec => GrantsNeverResized
<1> DEFINE Kept == \A c \in Holders(pool) : pool'.granted[c] \in {0, pool.granted[c]}
<1>1. ASSUME Inv, Next PROVE Kept
  <2>1. ASSUME NEW d \in Clients, NEW want \in Wants, Request(d, want)
        PROVE  Kept
    <3> DEFINE q == Enqueue(pool, d, want)
    <3>1. /\ Sound(q) /\ q.granted = pool.granted
          /\ Waiting(q) \subseteq Waiting(pool) \cup {d}
          /\ d \notin Holders(pool)
      BY <1>1, <2>1, WantsAssumption, EnqueueSound DEF Inv, Request
    <3>2. pool' = Drain(q)
      BY <2>1 DEF Request, RequestSlots
    <3> HIDE DEF q
    <3>3. ASSUME NEW c \in Holders(pool)
          PROVE  pool'.granted[c] = pool.granted[c]
      <4>1. c \in Clients \ Waiting(q)
        BY <1>1, <3>1 DEF Inv, Sound, QueuedOnce, Holders
      <4> QED
        BY <3>1, <3>2, <4>1, DrainSound
    <3> QED
      BY <3>3
  <2>2. ASSUME NEW d \in Clients, Release(d)
        PROVE  Kept
    <3> DEFINE q == Forget(pool, d)
    <3>1. /\ Sound(q)
          /\ \A c \in Clients \ {d} : q.granted[c] = pool.granted[c]
          /\ q.granted[d] = 0
          /\ Waiting(q) \subseteq Waiting(pool) \ {d}
      BY <1>1, ForgetSound DEF Inv
    <3>2. pool' = Drain(q)
      BY <2>2 DEF Release, ReleaseSlots
    <3> HIDE DEF q
    <3>3. ASSUME NEW c \in Holders(pool)
          PROVE  pool'.granted[c] \in {0, pool.granted[c]}
      <4>1. c \in Clients \ Waiting(q)
        BY <1>1, <3>1 DEF Inv, Sound, QueuedOnce, Holders
      <4>2. pool'.granted[c] = q.granted[c]
        BY <3>1, <3>2, <4>1, DrainSound
      <4> QED
        BY <3>1, <4>1, <4>2
    <3> QED
      BY <3>3
  <2> QED
    BY <1>1, <2>1, <2>2 DEF Next
<1> QED
  BY <1>1, PoolInvariant, PTL DEF Spec, GrantsNeverResized

\* What an operation hands out goes to the oldest waiters, in fair shares, and
\* leaves every running command its slots.
THEOREM GrantsStayFair == Spec => GrantsAreFair
<1> DEFINE Ordered ==
             \A i, j \in 1 .. Len(pool.waiters) :
               /\ i < j
               /\ pool.waiters[j].client \in NewlyGranted(pool, pool')
               => pool.waiters[i].client \notin Waiting(pool')
           Shared ==
             \A c \in NewlyGranted(pool, pool') :
               pool'.granted[c] <=
                 AtLeastOne(Budget \div Cardinality((Holders(pool) \cup Waiting(pool))'))
<1>1. ASSUME Inv, Next PROVE Ordered /\ Shared
  <2>0. Sound(pool) /\ Len(pool.waiters) \in Nat
    BY <1>1 DEF Inv, Sound, Pool
  <2>1. ASSUME NEW d \in Clients, NEW want \in Wants, Request(d, want)
        PROVE  Ordered /\ Shared
    <3> DEFINE q == Enqueue(pool, d, want)
    <3>1. Sound(q) /\ q.granted = pool.granted
      BY <1>1, <2>1, WantsAssumption, EnqueueSound DEF Inv, Request
    <3>2. pool' = Drain(q)
      BY <2>1 DEF Request, RequestSlots
    <3>3. /\ Len(q.waiters) \in Nat /\ Len(q.waiters) >= Len(pool.waiters)
          /\ \A i \in 1 .. Len(pool.waiters) : q.waiters[i] = pool.waiters[i]
      <4> DEFINE w == [client |-> d, want |-> AtLeastOne(want)]
      <4>1. q.waiters = Append(pool.waiters, w) /\ pool.waiters \in Seq(Waiter)
        BY <2>0 DEF Enqueue, Sound, Pool
      <4>2. w \in Waiter
        BY <2>1, WantsAssumption DEF Waiter, AtLeastOne
      <4> HIDE DEF w
      <4> QED
        BY <4>1, <4>2
    <3> HIDE DEF q
    <3>4. Holders(q) = Holders(pool)
      BY <3>1 DEF Holders
    <3>5. Ordered
      <4> SUFFICES ASSUME NEW i \in 1 .. Len(pool.waiters), NEW j \in 1 .. Len(pool.waiters),
                          i < j, pool.waiters[j].client \in NewlyGranted(pool, pool'),
                          pool.waiters[i].client \in Waiting(pool')
                   PROVE  FALSE
        OBVIOUS
      <4>1. PICK m \in Int :
              /\ \A c \in Holders(pool') \ Holders(q) :
                   \E l \in 1 .. Len(q.waiters) : l <= m /\ q.waiters[l].client = c
              /\ \A c \in Waiting(pool') :
                   \E x \in 1 .. Len(q.waiters) : x > m /\ q.waiters[x].client = c
        BY <3>1, <3>2, DrainOrder
      <4>2. PICK l \in 1 .. Len(q.waiters) : l <= m /\ q.waiters[l].client = pool.waiters[j].client
        BY <3>4, <4>1 DEF NewlyGranted
      <4>3. PICK x \in 1 .. Len(q.waiters) : x > m /\ q.waiters[x].client = pool.waiters[i].client
        BY <4>1
      <4>4. l = j /\ x = i
        <5>1. i \in 1 .. Len(q.waiters) /\ j \in 1 .. Len(q.waiters)
          BY <2>0, <3>3
        <5> QED
          BY <3>1, <3>3, <4>2, <4>3, <5>1 DEF Sound, QueuedOnce
      <4> QED
        BY <2>0, <4>2, <4>3, <4>4
    <3>6. Shared
      BY <3>1, <3>2, <3>4, DrainShares DEF NewlyGranted
    <3> QED
      BY <3>5, <3>6
  <2>2. ASSUME NEW d \in Clients, Release(d)
        PROVE  Ordered /\ Shared
    <3> DEFINE q == Forget(pool, d)
    <3>1. /\ Sound(q)
          /\ \A c \in Clients \ {d} : q.granted[c] = pool.granted[c]
          /\ Waiting(q) \subseteq Waiting(pool) \ {d}
      BY <1>1, ForgetSound DEF Inv
    <3>2. pool' = Drain(q)
      BY <2>2 DEF Release, ReleaseSlots
    <3>3. PICK f \in [1 .. Len(q.waiters) -> 1 .. Len(pool.waiters)] :
            /\ \A i \in 1 .. Len(q.waiters) :
                 q.waiters[i] = pool.waiters[f[i]] /\ q.waiters[i].client # d
            /\ \A i, j \in 1 .. Len(q.waiters) : i < j => f[i] < f[j]
      <4>1. pool.waiters \in Seq(Waiter)
        BY <2>0 DEF Sound, Pool
      <4>2. KeepsOrder(q.waiters, pool.waiters, d)
        BY <4>1, WithoutKeepsOrder DEF Forget
      <4> HIDE DEF q
      <4> QED
        BY <4>2 DEF KeepsOrder
    <3> HIDE DEF q
    <3>4. Len(q.waiters) \in Nat
      BY <3>1 DEF Sound, Pool
    <3>5. PICK m \in Int :
            /\ \A c \in Holders(pool') \ Holders(q) :
                 \E l \in 1 .. Len(q.waiters) : l <= m /\ q.waiters[l].client = c
            /\ \A c \in Waiting(pool') :
                 \E x \in 1 .. Len(q.waiters) : x > m /\ q.waiters[x].client = c
      BY <3>1, <3>2, DrainOrder
    <3>6. NewlyGranted(pool, pool') \subseteq Holders(pool') \ Holders(q)
      <4> SUFFICES ASSUME NEW c \in NewlyGranted(pool, pool'), c \in Holders(q)
                   PROVE  FALSE
        BY DEF NewlyGranted
      <4>1. c \in Clients /\ c \notin Holders(pool) /\ c \in Holders(pool')
        BY DEF NewlyGranted, Holders
      <4>2. CASE c = d
        <5>1. q.granted[d] = 0
          BY <1>1, ForgetSound DEF Inv, q
        <5> QED
          BY <4>2, <5>1 DEF Holders
      <4>3. CASE c # d
        BY <3>1, <4>1, <4>3 DEF Holders
      <4> QED
        BY <4>2, <4>3
    <3>7. Ordered
      <4> SUFFICES ASSUME NEW i \in 1 .. Len(pool.waiters), NEW j \in 1 .. Len(pool.waiters),
                          i < j, pool.waiters[j].client \in NewlyGranted(pool, pool'),
                          pool.waiters[i].client \in Waiting(pool')
                   PROVE  FALSE
        OBVIOUS
      <4>1. PICK l \in 1 .. Len(q.waiters) : l <= m /\ q.waiters[l].client = pool.waiters[j].client
        BY <3>5, <3>6
      <4>2. PICK x \in 1 .. Len(q.waiters) : x > m /\ q.waiters[x].client = pool.waiters[i].client
        BY <3>5
      <4>3. f[l] = j /\ f[x] = i
        <5>1. /\ f[l] \in 1 .. Len(pool.waiters)
              /\ pool.waiters[f[l]].client = pool.waiters[j].client
              /\ f[x] \in 1 .. Len(pool.waiters)
              /\ pool.waiters[f[x]].client = pool.waiters[i].client
          BY <3>3, <4>1, <4>2
        <5>2. \A a, b \in 1 .. Len(pool.waiters) :
                pool.waiters[a].client = pool.waiters[b].client => a = b
          BY <2>0 DEF Sound, QueuedOnce
        <5> QED
          BY <5>1, <5>2
      <4>4. l < x
        BY <3>4, <4>1, <4>2
      <4>5. j < i
        BY <3>3, <4>3, <4>4
      <4> QED
        BY <2>0, <4>5
    <3>8. Shared
      BY <3>1, <3>2, <3>6, DrainShares
    <3> QED
      BY <3>7, <3>8
  <2> QED
    BY <1>1, <2>1, <2>2 DEF Next
<1>2. ASSUME Inv, UNCHANGED vars PROVE Ordered /\ Shared
  BY <1>2 DEF vars, NewlyGranted
<1>3. Inv /\ [Next]_vars => Ordered /\ Shared
  BY <1>1, <1>2
<1>4. Spec => [][Ordered]_vars /\ [][Shared]_vars
  BY <1>3, PoolInvariant, PTL DEF Spec
<1>5. Spec => ServedInOrder /\ NoMoreThanFairShare
  BY <1>4 DEF ServedInOrder, NoMoreThanFairShare
<1> QED
  BY <1>5, GrantsStand DEF GrantsAreFair
=============================================================================
