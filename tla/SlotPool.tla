------------------------------ MODULE SlotPool ------------------------------
(***************************************************************************)
(* The worker-slot pool of packages/nopo/src/queue-core.ts: one budget of  *)
(* slots, the clients holding some of them, and a FIFO queue of clients    *)
(* waiting for some.  The pool is single-threaded: request() and release() *)
(* run to completion, drain() included, so each is one action.             *)
(*                                                                         *)
(* A pool is a record so that the broker (QueueSession) can own one:       *)
(*   granted  the Map clientId -> slots; 0 stands for "no entry", which    *)
(*            is sound because every entry drain() writes is at least 1    *)
(*            (lemma ShareBounds of SlotPoolProofs)                        *)
(*   waiters  the FIFO array of {clientId, want}                           *)
(***************************************************************************)
EXTENDS Integers, FiniteSets, Sequences

CONSTANTS Clients,    \* client ids the broker may hand out
          RawBudget,  \* the number given to the constructor
          Wants       \* the numbers clients put in their acq message

ASSUME ClientsAssumption == IsFiniteSet(Clients)
ASSUME RawBudgetAssumption == RawBudget \in Int
ASSUME WantsAssumption == Wants \subseteq Int

AtLeastOne(n) == IF n >= 1 THEN n ELSE 1
Smaller(m, n) == IF m <= n THEN m ELSE n

\* A pool must be able to run at least one worker.
Budget == AtLeastOne(RawBudget)

-----------------------------------------------------------------------------
(* Reading a pool. *)

Waiter == [client : Clients, want : Nat \ {0}]
Pool   == [granted : [Clients -> 0 .. Budget], waiters : Seq(Waiter)]

EmptyPool == [granted |-> [c \in Clients |-> 0], waiters |-> << >>]

Holders(p)  == {c \in Clients : p.granted[c] > 0}
Waiting(p)  == {p.waiters[i].client : i \in 1 .. Len(p.waiters)}

\* The slots handed out: slot <<c, i>> is the i-th slot of client c, so that
\* counting the pairs adds up the entries of the granted map.
Slots(g) == {s \in Clients \X (1 .. Budget) : s[2] <= g[s[1]]}
Used(p)  == Cardinality(Slots(p.granted))
Available(p) == Budget - Used(p)
\* Broken: a pool that only holds slots counts as idle.
IdleForgetsHolders(p) == p.waiters = << >>
Idle(p)  == Holders(p) = {} /\ p.waiters = << >>

-----------------------------------------------------------------------------
(* drain(): serve the queue from its head while a slot is free. *)

Interested(p) == Cardinality(Holders(p)) + Len(p.waiters)
FairShare(p)  == AtLeastOne(Budget \div Interested(p))
Share(p) == Smaller(Head(p.waiters).want, Smaller(FairShare(p), Available(p)))

CanServe(p) == p.waiters # << >> /\ Available(p) > 0 /\ Share(p) >= 1
\* Broken: the served waiter stays in the queue.
ServeHeadUnshifted(p) ==
  [p EXCEPT !.granted[Head(p.waiters).client] = Share(p)]
\* Broken: the newest waiter is served first.
ServeLast(p) ==
  [granted |-> [p.granted EXCEPT ![p.waiters[Len(p.waiters)].client] = Share(p)],
   waiters |-> SubSeq(p.waiters, 1, Len(p.waiters) - 1)]
ServeHead(p) == [granted |-> [p.granted EXCEPT ![Head(p.waiters).client] = Share(p)],
                 waiters |-> Tail(p.waiters)]

\* The loop's successive states.  Every iteration shifts one waiter, so as many
\* iterations as there are waiters exhaust the loop.  (One iteration is a
\* function rather than an operator so that TLC evaluates its argument once.)
RawPool == [granted : [Clients -> Int], waiters : Seq([client : Clients, want : Int])]
Iteration[p \in RawPool] == IF CanServe(p) THEN ServeHead(p) ELSE p
DrainRun(p) ==
  LET run[k \in 0 .. Len(p.waiters)] == IF k = 0 THEN p ELSE Iteration[run[k-1]]
  IN run
Drain(p) == DrainRun(p)[Len(p.waiters)]

-----------------------------------------------------------------------------
(* The pool's two operations. *)

Enqueue(p, c, want) ==
  [p EXCEPT !.waiters = Append(@, [client |-> c, want |-> AtLeastOne(want)])]
RequestSlots(p, c, want) == Drain(Enqueue(p, c, want))

\* waiters.filter((w) => w.clientId !== c): a left-to-right pass that keeps the
\* others (SelectSeq as a recursive function, which the proofs can unfold).
Without(s, c) ==
  LET kept[i \in 0 .. Len(s)] ==
        IF i = 0 THEN << >>
        ELSE IF s[i].client = c THEN kept[i-1] ELSE Append(kept[i-1], s[i])
  IN kept[Len(s)]

Forget(p, c) == [granted |-> [p.granted EXCEPT ![c] = 0],
                 waiters |-> Without(p.waiters, c)]
\* Broken: the freed slots are not handed on.
ReleaseUndrained(p, c) == Forget(p, c)
ReleaseSlots(p, c) == Drain(Forget(p, c))

\* The grants an operation returns: who got an entry it did not have.
NewlyGranted(p, q) == Holders(q) \ Holders(p)

-----------------------------------------------------------------------------
VARIABLE pool
vars == <<pool>>

Init == pool = EmptyPool

\* One acq per connection (queue-client.ts writes it once), so a client asks
\* only when the pool does not know it.
Request(c, want) ==
  /\ c \notin Holders(pool) \cup Waiting(pool)
  /\ pool' = RequestSlots(pool, c, want)

\* The broker releases a client whenever its connection goes away, whether it
\* holds slots, waits for them or never asked.
Release(c) == pool' = ReleaseSlots(pool, c)

Next == \E c \in Clients : Release(c) \/ \E want \in Wants : Request(c, want)

\* A command ends some day and its socket closes with it: a client that holds
\* slots does not hold them for ever.  Nothing makes a waiting client give up.
Fairness == \A c \in Clients : WF_vars(c \in Holders(pool) /\ Release(c))

Spec     == Init /\ [][Next]_vars
FairSpec == Spec /\ Fairness

-----------------------------------------------------------------------------
(* Properties. *)

TypeOK == pool \in Pool

\* The hard cap of queue-core.ts:19: the slots granted to all clients together
\* never exceed the budget, whatever the order of requests and releases.
WithinBudget == Used(pool) <= Budget

\* drain() leaves no free slot behind while somebody waits: a slot released by
\* one client is handed on in the same call (no lost wake-up).
NoSlotIdleWhileWaiting == pool.waiters # << >> => Available(pool) = 0

\* A client is known to the pool at most once: it does not wait for slots while
\* it holds some, and it is not queued twice.
KnownOnce ==
  /\ Holders(pool) \cap Waiting(pool) = {}
  /\ \A i, j \in 1 .. Len(pool.waiters) :
       pool.waiters[i].client = pool.waiters[j].client => i = j

\* All of these at once: the pool's books are exact after every operation.
PoolIsExact == TypeOK /\ WithinBudget /\ NoSlotIdleWhileWaiting /\ KnownOnce

\* Strictly first come first served: when a step serves a waiter, everybody who
\* was queued ahead of it is served or gone after that step.
ServedInOrder ==
  [][\A i, j \in 1 .. Len(pool.waiters) :
       /\ i < j
       /\ pool.waiters[j].client \in NewlyGranted(pool, pool')
       => pool.waiters[i].client \notin Waiting(pool')]_vars

\* A grant is fixed for the life of its command: a step gives a client all of
\* its slots, or takes all of them away, and never resizes a grant.
GrantsNeverResized ==
  [][\A c \in Holders(pool) : pool'.granted[c] \in {0, pool.granted[c]}]_vars

\* Nobody is granted more than the fair share of the clients the pool then
\* knows, holding and waiting together (queue-core.ts:20-23).
NoMoreThanFairShare ==
  [][\A c \in NewlyGranted(pool, pool') :
       pool'.granted[c] <=
         AtLeastOne(Budget \div Cardinality((Holders(pool) \cup Waiting(pool))'))]_vars

\* What an operation hands out: the oldest waiters first, to each a fair share,
\* and never a slot of somebody who runs.
GrantsAreFair == ServedInOrder /\ GrantsNeverResized /\ NoMoreThanFairShare

\* No waiter starves (queue-core.ts:20): it is served or it leaves.
NoStarvation ==
  \A c \in Clients : (c \in Waiting(pool)) ~> (c \notin Waiting(pool))
=============================================================================
