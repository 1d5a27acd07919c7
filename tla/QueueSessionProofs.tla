------------------------- MODULE QueueSessionProofs -------------------------
(***************************************************************************)
(* Proofs about QueueSession for every set of commands, every budget and   *)
(* any number of crashes.  What the broker has read of a command and what  *)
(* is still on its sockets always fit together: IInv names the stages such *)
(* a link goes through.  The facts about the pool are the lemmas of        *)
(* SlotPoolProofs about its operations.                                    *)
(***************************************************************************)
EXTENDS QueueSession, FiniteSetTheorems, SequenceTheorems, TLAPS

PP == INSTANCE SlotPoolProofs WITH Clients <- Commands

-----------------------------------------------------------------------------
(* The inductive invariant. *)

Known(p)   == P!Holders(p) \cup P!Waiting(p)
Grants     == 1 .. P!Budget
Granted(c) == c \in P!Holders(pool) /\ lease[c] = pool.granted[c]

\* Before its connection is made a command has no socket and no slots.
Unconnected(c) == pc[c] \in {"new", "retrying"} /\ c \notin linked /\ lease[c] = 0
                  /\ toClient[c] = << >>

\* A command linked to the live broker: what the broker has not read yet is what
\* is left of connect, acq and the close of the socket; it is in the clients map
\* from the first of them to the last, and known to the pool from the second.
Visiting(c) ==
  /\ pc[c] = "visiting" /\ lease[c] = 0 /\ c \notin Known(pool)
  /\ \/ toBroker[c] = <<ConnectMsg>> /\ c \notin accepted
     \/ toBroker[c] = << >> /\ c \in accepted
AskUnread(c) ==
  /\ pc[c] = "asked" /\ lease[c] = 0 /\ c \notin Known(pool)
  /\ toClient[c] = << >>
  /\ \E n \in Wants :
       \/ toBroker[c] = <<ConnectMsg, AcqMsg(n)>> /\ c \notin accepted
       \/ toBroker[c] = <<AcqMsg(n)>> /\ c \in accepted
AskRead(c) ==
  /\ pc[c] = "asked" /\ lease[c] = 0 /\ c \in Known(pool)
  /\ toBroker[c] = << >> /\ c \in accepted
  /\ toClient[c] = IF c \in P!Holders(pool) THEN <<pool.granted[c]>> ELSE << >>
Running(c) ==
  /\ pc[c] = "running" /\ Granted(c)
  /\ toBroker[c] = << >> /\ c \in accepted /\ toClient[c] = << >>
Leaving(c) ==
  /\ pc[c] = "over" /\ lease[c] = 0
  /\ \/ toBroker[c] = <<FinMsg>> /\ c \in accepted
     \/ /\ c \notin Known(pool)
        /\ \/ toBroker[c] = <<ConnectMsg, FinMsg>> /\ c \notin accepted
           \/ \E n \in Wants :
                \/ toBroker[c] = <<ConnectMsg, AcqMsg(n), FinMsg>> /\ c \notin accepted
                \/ toBroker[c] = <<AcqMsg(n), FinMsg>> /\ c \in accepted
Linked(c) ==
  /\ c \in linked /\ broker = "up"
  /\ Visiting(c) \/ AskUnread(c) \/ AskRead(c) \/ Running(c) \/ Leaving(c)

\* A command whose broker has died, or that never had one: the close of the
\* socket is the last thing it reads.
Cut(c) ==
  /\ c \notin linked
  /\ \/ pc[c] \in {"visiting", "over"} /\ lease[c] = 0
     \/ /\ pc[c] = "asked" /\ lease[c] = 0
        /\ toClient[c] = <<Closed>> \/ \E n \in Grants : toClient[c] = <<n, Closed>>
     \/ pc[c] = "running" /\ (lease[c] = 0 \/ toClient[c] = <<Closed>>)
NoLink(c) == (Unconnected(c) \/ Cut(c)) /\ toBroker[c] = << >> /\ c \notin accepted

\* Every spawned broker that has yet to bind was spawned by a command of its own.
Unspawned == {c \in Commands : pc[c] = "new"}

IInv ==
  /\ TypeOK
  /\ PP!Sound(pool)
  /\ Known(pool) \subseteq accepted
  /\ broker = "up" /\ accepted = {} => timer
  /\ startups + Cardinality(Unspawned) <= Cardinality(Commands)
  /\ \A c \in Commands : Linked(c) \/ NoLink(c)
-----------------------------------------------------------------------------
(* The pool's lemmas, for the pool of this broker. *)

\* The instance of SlotPool and the instance of its proofs define the same.
LEMMA SamePool ==
  /\ P!Budget = PP!Budget /\ P!Pool = PP!Pool /\ P!EmptyPool = PP!EmptyPool
  /\ \A p : /\ P!Holders(p) = PP!Holders(p) /\ P!Waiting(p) = PP!Waiting(p)
            /\ P!Used(p) = PP!Used(p)
  /\ \A g : P!Slots(g) = PP!Slots(g)
BY DEF P!Budget, PP!Budget, P!AtLeastOne, PP!AtLeastOne, P!Pool, PP!Pool,
       P!Waiter, PP!Waiter, P!EmptyPool, PP!EmptyPool, P!Holders, PP!Holders,
       P!Waiting, PP!Waiting, P!Used, PP!Used, P!Slots, PP!Slots,
       P!Cardinality, PP!Cardinality

LEMMA SameDrain == \A p : P!Drain(p) = PP!Drain(p)
BY DEF P!Drain, PP!Drain, P!DrainRun, PP!DrainRun, P!Iteration, PP!Iteration,
       P!RawPool, PP!RawPool, P!CanServe, PP!CanServe, P!Share, PP!Share,
       P!Available, PP!Available, P!Used, PP!Used, P!Slots, PP!Slots,
       P!Budget, PP!Budget, P!AtLeastOne, PP!AtLeastOne, P!Smaller, PP!Smaller,
       P!FairShare, PP!FairShare, P!Interested, PP!Interested, P!Holders, PP!Holders,
       P!ServeHead, PP!ServeHead, P!Cardinality, PP!Cardinality

LEMMA SameRequest == \A p, c, n : P!RequestSlots(p, c, n) = PP!RequestSlots(p, c, n)
BY SameDrain DEF P!RequestSlots, PP!RequestSlots, P!Enqueue, PP!Enqueue,
                 P!AtLeastOne, PP!AtLeastOne

LEMMA SameRelease == \A p, c : P!ReleaseSlots(p, c) = PP!ReleaseSlots(p, c)
<1>1. \A s, c : P!Without(s, c) = PP!Without(s, c)
  BY DEF P!Without, PP!Without
<1> QED
  BY <1>1, SameDrain DEF P!ReleaseSlots, PP!ReleaseSlots, P!Forget, PP!Forget

\* What SlotPool assumes of its constants holds of this broker's.
LEMMA PoolConstants ==
  /\ PP!IsFiniteSet(Commands) /\ RawBudget \in Int /\ Wants \subseteq Int
BY PoolAssumption DEF IsFiniteSet, PP!IsFiniteSet

LEMMA BudgetType == P!Budget \in Nat /\ P!Budget >= 1
BY PoolConstants, SamePool, PP!BudgetIsPositive

LEMMA SoundType ==
  ASSUME NEW p, PP!Sound(p)
  PROVE  /\ p \in P!Pool /\ P!Used(p) <= P!Budget
         /\ p.granted \in [Commands -> 0 .. P!Budget]
         /\ Known(p) \subseteq Commands
<1>1. p \in P!Pool /\ P!Used(p) <= P!Budget
  BY SamePool DEF PP!Sound
<1>2. p.granted \in [Commands -> 0 .. P!Budget] /\ p.waiters \in Seq(P!Waiter)
  BY <1>1 DEF P!Pool
<1>3. \A i \in 1 .. Len(p.waiters) : p.waiters[i] \in P!Waiter
  BY <1>2
<1>4. P!Waiting(p) \subseteq Commands
  BY <1>3 DEF P!Waiting, P!Waiter
<1> QED
  BY <1>1, <1>2, <1>4 DEF Known, P!Holders

\* A new broker's pool, and the two operations.
LEMMA EmptyPoolSound == PP!Sound(P!EmptyPool) /\ Known(P!EmptyPool) = {}
BY PoolConstants, SamePool, PP!EmptyPoolIsSound DEF Known, PP!Known

LEMMA Requested ==
  ASSUME NEW p, PP!Sound(p), NEW c \in Commands \ Known(p), NEW want \in Int
  PROVE  LET q == P!RequestSlots(p, c, want)
         IN  /\ PP!Sound(q) /\ Known(q) = Known(p) \cup {c}
             /\ \A d \in P!Holders(p) : q.granted[d] = p.granted[d]
BY PoolConstants, SamePool, SameRequest, PP!RequestEffect DEF Known, PP!Known

LEMMA Released ==
  ASSUME NEW p, PP!Sound(p), NEW c \in Commands
  PROVE  LET q == P!ReleaseSlots(p, c)
         IN  /\ PP!Sound(q) /\ Known(q) = Known(p) \ {c}
             /\ \A d \in P!Holders(p) \ {c} : q.granted[d] = p.granted[d]
BY PoolConstants, SamePool, SameRelease, PP!ReleaseEffect DEF Known, PP!Known
-----------------------------------------------------------------------------
(* Steps keep the invariant. *)

LEMMA MessageTypes ==
  /\ ConnectMsg \in Messages /\ FinMsg \in Messages
  /\ \A n \in Wants : AcqMsg(n) \in Messages
BY DEF Messages

\* The three kinds of message differ.
LEMMA MessageKinds ==
  /\ ConnectMsg.t = "connect" /\ FinMsg.t = "fin"
  /\ \A n : AcqMsg(n).t = "acq" /\ AcqMsg(n).want = n
BY DEF ConnectMsg, FinMsg, AcqMsg

\* A command the step does not concern.
LEMMA Unaffected ==
  ASSUME NEW d \in Commands, Linked(d) \/ NoLink(d),
         broker' = broker, pool' = pool, pc'[d] = pc[d], lease'[d] = lease[d],
         toBroker'[d] = toBroker[d], toClient'[d] = toClient[d],
         d \in linked' <=> d \in linked, d \in accepted' <=> d \in accepted
  PROVE  (Linked(d) \/ NoLink(d))'
<1>1. (d \in Known(pool)' <=> d \in Known(pool))
      /\ (d \in P!Holders(pool)' <=> d \in P!Holders(pool))
  BY DEF Known, P!Holders, P!Waiting
<1>2. CASE Linked(d)
  BY <1>1, <1>2 DEF Linked, Visiting, AskUnread, AskRead, Running, Leaving, Granted
<1>3. CASE NoLink(d)
  BY <1>1, <1>3 DEF NoLink, Unconnected, Cut
<1> QED
  BY <1>2, <1>3

\* Commands that are not new any more only become fewer spawners.
LEMMA FewerUnspawned ==
  ASSUME Unspawned' \subseteq Unspawned
  PROVE  /\ Cardinality(Unspawned') <= Cardinality(Unspawned)
         /\ Cardinality(Unspawned') \in Nat /\ Cardinality(Unspawned) \in Nat
<1>1. Unspawned \subseteq Commands
  BY DEF Unspawned
<1>2. IsFiniteSet(Unspawned)
  BY <1>1, PoolAssumption, FS_Subset
<1>3. IsFiniteSet(Unspawned') /\ Cardinality(Unspawned') <= Cardinality(Unspawned)
  BY <1>2, FS_Subset
<1> QED
  BY <1>2, <1>3, FS_CardinalityType

\* A step of one command that leaves the broker's own state alone.
LEMMA CommandStep ==
  ASSUME IInv, NEW c \in Commands, UNCHANGED brokerVars,
         NEW p \in Stages \ {"new"}, pc' = [pc EXCEPT ![c] = p],
         NEW l \in 0 .. P!Budget, lease' = [lease EXCEPT ![c] = l],
         NEW b \in Seq(Messages), toBroker' = [toBroker EXCEPT ![c] = b],
         NEW r \in Seq(0 .. P!Budget), toClient' = [toClient EXCEPT ![c] = r],
         linked' \in {linked, linked \cup {c}},
         (Linked(c) \/ NoLink(c))'
  PROVE  IInv'
<1> USE DEF IInv, brokerVars
<1>1. TypeOK'
  BY DEF TypeOK
<1>2. \A d \in Commands \ {c} :
        /\ pc'[d] = pc[d] /\ lease'[d] = lease[d]
        /\ toBroker'[d] = toBroker[d] /\ toClient'[d] = toClient[d]
        /\ d \in linked' <=> d \in linked
  BY DEF TypeOK
<1>3. \A d \in Commands \ {c} : (Linked(d) \/ NoLink(d))'
  BY <1>2, Unaffected
<1>4. Unspawned' \subseteq Unspawned
  BY DEF TypeOK, Unspawned
<1>5. (startups + Cardinality(Unspawned) <= Cardinality(Commands))'
  <2>1. startups' = startups /\ startups \in Int /\ Cardinality(Commands) \in Nat
    BY PoolAssumption, FS_CardinalityType DEF TypeOK
  <2> QED
    BY <1>4, <2>1, FewerUnspawned
<1>6. (Known(pool) \subseteq accepted)' /\ PP!Sound(pool)'
  BY DEF Known, P!Holders, P!Waiting
<1> QED
  BY <1>1, <1>3, <1>5, <1>6

LEMMA ConnectIInv ==
  ASSUME IInv, NEW c \in Commands, Connect(c)
  PROVE  IInv'
<1>1. PICK want \in Wants : toBroker' = [toBroker EXCEPT ![c] = <<ConnectMsg, AcqMsg(want)>>]
  BY DEF Connect
<1>2. /\ pc[c] \in {"new", "retrying"} /\ broker = "up"
      /\ pc' = [pc EXCEPT ![c] = "asked"] /\ linked' = linked \cup {c}
      /\ UNCHANGED brokerVars /\ lease' = lease /\ toClient' = toClient
  BY DEF Connect
<1>3. NoLink(c) /\ Unconnected(c)
  BY <1>2 DEF IInv, Linked, Visiting, AskUnread, AskRead, Running, Leaving, NoLink, Cut
<1>4. TypeOK /\ Known(pool) \subseteq accepted
  BY DEF IInv
<1>5. AskUnread(c)'
  <2>1. pc'[c] = "asked" /\ lease'[c] = 0 /\ toClient'[c] = << >>
        /\ toBroker'[c] = <<ConnectMsg, AcqMsg(want)>>
    BY <1>1, <1>2, <1>3, <1>4 DEF TypeOK, Unconnected
  <2>2. c \notin accepted' /\ c \notin Known(pool)'
    BY <1>2, <1>3, <1>4 DEF NoLink, brokerVars, Known, P!Holders, P!Waiting
  <2> QED
    BY <2>1, <2>2 DEF AskUnread
<1>6. Linked(c)'
  BY <1>2, <1>5 DEF Linked, brokerVars
<1>7. /\ lease[c] \in 0 .. P!Budget /\ lease' = [lease EXCEPT ![c] = lease[c]]
      /\ toClient[c] \in Seq(0 .. P!Budget) /\ toClient' = [toClient EXCEPT ![c] = toClient[c]]
      /\ <<ConnectMsg, AcqMsg(want)>> \in Seq(Messages)
  BY <1>2, <1>4, MessageTypes DEF TypeOK
<1> QED
  BY <1>1, <1>2, <1>6, <1>7, CommandStep DEF Stages

LEMMA SpawnIInv ==
  ASSUME IInv, NEW c \in Commands, Spawn(c)
  PROVE  IInv'
<1>1. /\ pc[c] = "new" /\ pc' = [pc EXCEPT ![c] = "retrying"] /\ startups' = startups + 1
      /\ UNCHANGED <<broker, crashes, pool, accepted, timer, lease, linked, toBroker, toClient>>
  BY DEF Spawn
<1>2. NoLink(c) /\ Unconnected(c)
  BY <1>1 DEF IInv, Linked, Visiting, AskUnread, AskRead, Running, Leaving, NoLink, Cut
<1>3. NoLink(c)'
  BY <1>1, <1>2 DEF NoLink, Unconnected, IInv, TypeOK
<1>4. \A d \in Commands \ {c} : (Linked(d) \/ NoLink(d))'
  <2>1. \A d \in Commands \ {c} : pc'[d] = pc[d]
    BY <1>1 DEF IInv, TypeOK
  <2> QED
    BY <1>1, <2>1, Unaffected DEF IInv
<1>5. Unspawned' = Unspawned \ {c} /\ c \in Unspawned
  BY <1>1 DEF Unspawned, IInv, TypeOK
<1>6. IsFiniteSet(Unspawned)
  BY PoolAssumption, FS_Subset DEF Unspawned
<1>7. Cardinality(Unspawned') = Cardinality(Unspawned) - 1 /\ Cardinality(Unspawned) \in Nat
      /\ Cardinality(Unspawned') \in Nat /\ Cardinality(Commands) \in Nat
  BY <1>5, <1>6, PoolAssumption, FS_RemoveElement, FS_CardinalityType
<1>8. (startups + Cardinality(Unspawned) <= Cardinality(Commands))'
  BY <1>1, <1>7 DEF IInv, TypeOK
<1>9. TypeOK'
  <2>1. startups' \in 0 .. Cardinality(Commands)
    BY <1>1, <1>7, <1>8 DEF IInv, TypeOK
  <2> QED
    BY <1>1, <2>1 DEF IInv, TypeOK, Stages
<1>10. (Known(pool) \subseteq accepted)' /\ PP!Sound(pool)'
  BY <1>1 DEF IInv, Known, P!Holders, P!Waiting
<1> QED
  BY <1>1, <1>3, <1>4, <1>8, <1>9, <1>10 DEF IInv

LEMMA GiveUpIInv ==
  ASSUME IInv, NEW c \in Commands, GiveUp(c)
  PROVE  IInv'
<1>1. /\ pc[c] = "retrying" /\ pc' = [pc EXCEPT ![c] = "running"]
      /\ UNCHANGED brokerVars /\ UNCHANGED <<lease, linked, toBroker, toClient>>
  BY DEF GiveUp
<1>2. NoLink(c) /\ Unconnected(c)
  BY <1>1 DEF IInv, Linked, Visiting, AskUnread, AskRead, Running, Leaving, NoLink, Cut
<1>3. NoLink(c)'
  BY <1>1, <1>2 DEF NoLink, Unconnected, Cut, IInv, TypeOK, brokerVars
<1>4. /\ lease[c] \in 0 .. P!Budget /\ lease' = [lease EXCEPT ![c] = lease[c]]
      /\ toClient[c] \in Seq(0 .. P!Budget) /\ toClient' = [toClient EXCEPT ![c] = toClient[c]]
      /\ toBroker[c] \in Seq(Messages) /\ toBroker' = [toBroker EXCEPT ![c] = toBroker[c]]
  BY <1>1 DEF IInv, TypeOK
<1> QED
  BY <1>1, <1>3, <1>4, CommandStep DEF Stages

LEMMA VisitIInv ==
  ASSUME IInv, NEW c \in Commands, Visit(c)
  PROVE  IInv'
<1>1. /\ pc[c] = "new" /\ broker = "up"
      /\ pc' = [pc EXCEPT ![c] = "visiting"] /\ linked' = linked \cup {c}
      /\ toBroker' = [toBroker EXCEPT ![c] = <<ConnectMsg>>]
      /\ UNCHANGED brokerVars /\ lease' = lease /\ toClient' = toClient
  BY DEF Visit
<1>2. NoLink(c) /\ Unconnected(c)
  BY <1>1 DEF IInv, Linked, Visiting, AskUnread, AskRead, Running, Leaving, NoLink, Cut
<1>3. Visiting(c)'
  <2>1. c \notin accepted' /\ c \notin Known(pool)'
    BY <1>1, <1>2 DEF IInv, NoLink, brokerVars, Known, P!Holders, P!Waiting
  <2> QED
    BY <1>1, <1>2, <2>1 DEF Visiting, IInv, TypeOK, Unconnected
<1>4. Linked(c)'
  BY <1>1, <1>3 DEF Linked, brokerVars
<1>5. /\ lease[c] \in 0 .. P!Budget /\ lease' = [lease EXCEPT ![c] = lease[c]]
      /\ toClient[c] \in Seq(0 .. P!Budget) /\ toClient' = [toClient EXCEPT ![c] = toClient[c]]
      /\ <<ConnectMsg>> \in Seq(Messages)
  BY <1>1, MessageTypes DEF IInv, TypeOK
<1> QED
  BY <1>1, <1>4, <1>5, CommandStep DEF Stages

\* What a waiting command reads is its grant, or the close of its socket.
LEMMA AnswerIsGrantOrClose ==
  ASSUME IInv, NEW c \in Commands, pc[c] = "asked", toClient[c] # << >>
  PROVE  \/ /\ Linked(c) /\ AskRead(c) /\ c \in P!Holders(pool)
            /\ toClient[c] = <<pool.granted[c]>>
         \/ /\ NoLink(c) /\ Cut(c)
            /\ toClient[c] = <<Closed>> \/ \E n \in Grants : toClient[c] = <<n, Closed>>
BY DEF IInv, Linked, Visiting, AskUnread, AskRead, Running, Leaving, NoLink, Unconnected, Cut

LEMMA AnsweredIInv ==
  ASSUME IInv, NEW c \in Commands, Answered(c)
  PROVE  IInv'
<1>1. /\ pc[c] = "asked" /\ toClient[c] # << >>
      /\ pc' = [pc EXCEPT ![c] = "running"]
      /\ lease' = [lease EXCEPT ![c] = Head(toClient[c])]
      /\ toClient' = [toClient EXCEPT ![c] = Tail(toClient[c])]
      /\ UNCHANGED brokerVars /\ linked' = linked /\ toBroker' = toBroker
  BY DEF Answered
<1>2. TypeOK
  BY DEF IInv
<1>3. /\ pc'[c] = "running" /\ lease'[c] = Head(toClient[c])
      /\ toClient'[c] = Tail(toClient[c]) /\ toBroker'[c] = toBroker[c]
  BY <1>1, <1>2 DEF TypeOK
<1>4. (Linked(c) \/ NoLink(c))'
  <2>1. CASE Linked(c) /\ AskRead(c) /\ toClient[c] = <<pool.granted[c]>>
               /\ c \in P!Holders(pool)
    <3>1. lease'[c] = pool.granted[c] /\ toClient'[c] = << >>
      BY <1>3, <2>1
    <3>2. Running(c)'
      BY <1>1, <1>3, <2>1, <3>1 DEF Running, Granted, AskRead, brokerVars, P!Holders
    <3> QED
      BY <1>1, <2>1, <3>2 DEF Linked, brokerVars
  <2>2. CASE NoLink(c) /\ toClient[c] = <<Closed>>
    <3>1. lease'[c] = 0
      BY <1>3, <2>2 DEF Closed
    <3> QED
      BY <1>1, <1>3, <2>2, <3>1 DEF NoLink, Unconnected, Cut, brokerVars
  <2>3. CASE NoLink(c) /\ \E n \in Grants : toClient[c] = <<n, Closed>>
    <3>1. toClient'[c] = <<Closed>>
      BY <1>3, <2>3
    <3> QED
      BY <1>1, <1>3, <2>3, <3>1 DEF NoLink, Unconnected, Cut, brokerVars
  <2> QED
    BY <1>1, <2>1, <2>2, <2>3, AnswerIsGrantOrClose
<1>5. Head(toClient[c]) \in 0 .. P!Budget /\ Tail(toClient[c]) \in Seq(0 .. P!Budget)
  <2>1. toClient[c] \in Seq(0 .. P!Budget)
    BY <1>2 DEF TypeOK
  <2>2. \A t \in Seq(0 .. P!Budget) :
          t # << >> => Head(t) \in 0 .. P!Budget /\ Tail(t) \in Seq(0 .. P!Budget)
    BY HeadTailProperties
  <2> QED
    BY <1>1, <2>1, <2>2
<1>6. toBroker[c] \in Seq(Messages) /\ toBroker' = [toBroker EXCEPT ![c] = toBroker[c]]
  BY <1>1, <1>2 DEF TypeOK
<1> QED
  BY <1>1, <1>4, <1>5, <1>6, CommandStep DEF Stages

\* What is appended to a short sequence, element by element.
LEMMA AppendToTuple ==
  ASSUME NEW S, NEW m \in S, NEW n \in S, NEW k \in S
  PROVE  /\ Append(<< >>, k) = <<k>> /\ Append(<<m>>, k) = <<m, k>>
         /\ Append(<<m, n>>, k) = <<m, n, k>>
<1>1. Append(<<m>>, k) = <<m, k>>
  <2> DEFINE a == Append(<<m>>, k)
  <2>1. <<m>> \in Seq(S) /\ Len(<<m>>) = 1
    OBVIOUS
  <2>2. a \in Seq(S) /\ Len(a) = 2 /\ a[2] = k
    BY <2>1
  <2>3. a[1] = m
    BY <2>1
  <2> HIDE DEF a
  <2>4. \A i \in 1 .. 2 : a[i] = <<m, k>>[i]
    BY <2>2, <2>3
  <2>5. a = [i \in 1 .. 2 |-> a[i]]
    BY <2>2
  <2>6. <<m, k>> = [i \in 1 .. 2 |-> <<m, k>>[i]]
    OBVIOUS
  <2> QED
    BY <2>4, <2>5, <2>6 DEF a
<1>2. Append(<<m, n>>, k) = <<m, n, k>>
  <2> DEFINE a == Append(<<m, n>>, k)
  <2>1. <<m, n>> \in Seq(S) /\ Len(<<m, n>>) = 2
    OBVIOUS
  <2>2. a \in Seq(S) /\ Len(a) = 3 /\ a[3] = k
    BY <2>1
  <2>3. a[1] = m
    BY <2>1
  <2>4. a[2] = n
    BY <2>1
  <2> HIDE DEF a
  <2>5. \A i \in 1 .. 3 : a[i] = <<m, n, k>>[i]
    BY <2>2, <2>3, <2>4
  <2>6. a = [i \in 1 .. 3 |-> a[i]]
    BY <2>2
  <2>7. <<m, n, k>> = [i \in 1 .. 3 |-> <<m, n, k>>[i]]
    OBVIOUS
  <2> QED
    BY <2>5, <2>6, <2>7 DEF a
<1> QED
  BY <1>1, <1>2

\* The close of a socket is written behind everything else.
LEMMA AppendFin ==
  /\ Append(<< >>, FinMsg) = <<FinMsg>>
  /\ Append(<<ConnectMsg>>, FinMsg) = <<ConnectMsg, FinMsg>>
  /\ \A n \in Wants :
       /\ Append(<<AcqMsg(n)>>, FinMsg) = <<AcqMsg(n), FinMsg>>
       /\ Append(<<ConnectMsg, AcqMsg(n)>>, FinMsg) = <<ConnectMsg, AcqMsg(n), FinMsg>>
<1>1. \A m, n, k \in Messages :
        /\ Append(<< >>, k) = <<k>> /\ Append(<<m>>, k) = <<m, k>>
        /\ Append(<<m, n>>, k) = <<m, n, k>>
  BY AppendToTuple
<1> QED
  BY <1>1, MessageTypes

LEMMA LeaveIInv ==
  ASSUME IInv, NEW c \in Commands, Leave(c)
  PROVE  IInv'
<1> DEFINE b == IF c \in linked THEN Append(toBroker[c], FinMsg) ELSE toBroker[c]
<1>1. /\ pc[c] # "over" /\ pc' = [pc EXCEPT ![c] = "over"]
      /\ lease' = [lease EXCEPT ![c] = 0] /\ toBroker' = [toBroker EXCEPT ![c] = b]
      /\ UNCHANGED brokerVars /\ linked' = linked /\ toClient' = toClient
  BY DEF Leave
<1>2. TypeOK /\ toBroker[c] \in Seq(Messages)
  BY DEF IInv, TypeOK
<1>3. /\ pc'[c] = "over" /\ lease'[c] = 0 /\ toBroker'[c] = b /\ toClient'[c] = toClient[c]
  BY <1>1, <1>2 DEF TypeOK
<1>4. (c \in Known(pool)' <=> c \in Known(pool)) /\ (c \in accepted' <=> c \in accepted)
  BY <1>1 DEF brokerVars, Known, P!Holders, P!Waiting
<1>5. (Linked(c) \/ NoLink(c))'
  <2>1. CASE Linked(c)
    <3>1. c \in linked /\ b = Append(toBroker[c], FinMsg)
      BY <2>1 DEF Linked
    <3> HIDE DEF b
    <3>2. ASSUME Visiting(c) PROVE Leaving(c)'
      <4>1. \/ b = <<ConnectMsg, FinMsg>> /\ c \notin accepted
            \/ b = <<FinMsg>> /\ c \in accepted
        <5>1. CASE toBroker[c] = <<ConnectMsg>> /\ c \notin accepted
          BY <3>1, <5>1, AppendFin
        <5>2. CASE toBroker[c] = << >> /\ c \in accepted
          BY <3>1, <5>2, AppendFin
        <5> QED
          BY <3>2, <5>1, <5>2 DEF Visiting
      <4>2. pc'[c] = "over" /\ lease'[c] = 0 /\ toBroker'[c] = b
        BY <1>3 DEF b
      <4> QED
        BY <1>4, <3>2, <4>1, <4>2 DEF Visiting, Leaving
    <3>3. ASSUME AskUnread(c) PROVE Leaving(c)'
      <4>1. PICK n \in Wants : \/ toBroker[c] = <<ConnectMsg, AcqMsg(n)>> /\ c \notin accepted
                               \/ toBroker[c] = <<AcqMsg(n)>> /\ c \in accepted
        BY <3>3 DEF AskUnread
      <4>2. \/ b = <<ConnectMsg, AcqMsg(n), FinMsg>> /\ c \notin accepted
            \/ b = <<AcqMsg(n), FinMsg>> /\ c \in accepted
        BY <3>1, <4>1, AppendFin
      <4>3. pc'[c] = "over" /\ lease'[c] = 0 /\ toBroker'[c] = b
        BY <1>3 DEF b
      <4> QED
        BY <1>4, <3>3, <4>2, <4>3 DEF AskUnread, Leaving
    <3>4. ASSUME AskRead(c) \/ Running(c) PROVE Leaving(c)'
      <4>1. b = <<FinMsg>> /\ c \in accepted
        BY <3>1, <3>4, AppendFin DEF AskRead, Running
      <4>2. pc'[c] = "over" /\ lease'[c] = 0 /\ toBroker'[c] = b
        BY <1>3 DEF b
      <4> QED
        BY <1>4, <4>1, <4>2 DEF Leaving
    <3>5. Leaving(c)'
      BY <1>1, <2>1, <3>2, <3>3, <3>4 DEF Linked, Leaving
    <3> QED
      BY <1>1, <2>1, <3>5 DEF Linked, brokerVars
  <2>2. CASE NoLink(c)
    <3>1. c \notin linked /\ toBroker'[c] = << >>
      BY <1>3, <2>2 DEF NoLink, Unconnected, Cut, b
    <3>2. Cut(c)'
      BY <1>1, <1>3, <3>1 DEF Cut
    <3> QED
      BY <1>4, <2>2, <3>1, <3>2 DEF NoLink
  <2> QED
    BY <2>1, <2>2 DEF IInv
<1>6. /\ b \in Seq(Messages) /\ 0 \in 0 .. P!Budget
      /\ toClient[c] \in Seq(0 .. P!Budget) /\ toClient' = [toClient EXCEPT ![c] = toClient[c]]
  <2>1. FinMsg \in Messages
    BY MessageTypes
  <2> QED
    BY <1>1, <1>2, <2>1, BudgetType DEF TypeOK
<1> HIDE DEF b
<1> QED
  BY <1>1, <1>5, <1>6, CommandStep DEF Stages

\* What the broker reads first of a socket tells where its command is.
LEMMA FirstMessage ==
  ASSUME IInv, NEW c \in Commands, toBroker[c] # << >>
  PROVE  /\ Linked(c) /\ ~NoLink(c)
         /\ Head(toBroker[c]).t = "connect" =>
              /\ c \notin accepted /\ c \notin Known(pool)
              /\ \/ Visiting(c) /\ toBroker[c] = <<ConnectMsg>>
                 \/ Leaving(c) /\ toBroker[c] = <<ConnectMsg, FinMsg>>
                 \/ \E n \in Wants :
                      \/ AskUnread(c) /\ toBroker[c] = <<ConnectMsg, AcqMsg(n)>>
                      \/ Leaving(c) /\ toBroker[c] = <<ConnectMsg, AcqMsg(n), FinMsg>>
         /\ Head(toBroker[c]).t = "acq" =>
              /\ c \in accepted /\ c \notin Known(pool)
              /\ \E n \in Wants :
                   \/ AskUnread(c) /\ toBroker[c] = <<AcqMsg(n)>>
                   \/ Leaving(c) /\ toBroker[c] = <<AcqMsg(n), FinMsg>>
         /\ Head(toBroker[c]).t = "fin" =>
              Leaving(c) /\ toBroker[c] = <<FinMsg>> /\ c \in accepted
<1>1. Linked(c) /\ ~NoLink(c)
  BY DEF IInv, NoLink
<1>2. \/ Visiting(c) /\ toBroker[c] = <<ConnectMsg>> /\ c \notin accepted
      \/ Leaving(c) /\ toBroker[c] = <<FinMsg>> /\ c \in accepted
      \/ Leaving(c) /\ toBroker[c] = <<ConnectMsg, FinMsg>> /\ c \notin accepted /\ c \notin Known(pool)
      \/ \E n \in Wants :
           \/ AskUnread(c) /\ toBroker[c] = <<ConnectMsg, AcqMsg(n)>> /\ c \notin accepted
           \/ AskUnread(c) /\ toBroker[c] = <<AcqMsg(n)>> /\ c \in accepted
           \/ /\ Leaving(c) /\ toBroker[c] = <<ConnectMsg, AcqMsg(n), FinMsg>>
              /\ c \notin accepted /\ c \notin Known(pool)
           \/ /\ Leaving(c) /\ toBroker[c] = <<AcqMsg(n), FinMsg>>
              /\ c \in accepted /\ c \notin Known(pool)
  BY <1>1 DEF Linked, Visiting, AskUnread, AskRead, Running, Leaving
<1>3. /\ Head(<<ConnectMsg>>).t = "connect" /\ Head(<<FinMsg>>).t = "fin"
      /\ Head(<<ConnectMsg, FinMsg>>).t = "connect"
      /\ \A n : /\ Head(<<ConnectMsg, AcqMsg(n)>>).t = "connect"
                /\ Head(<<AcqMsg(n)>>).t = "acq"
                /\ Head(<<ConnectMsg, AcqMsg(n), FinMsg>>).t = "connect"
                /\ Head(<<AcqMsg(n), FinMsg>>).t = "acq"
  BY MessageKinds
<1>4. (Visiting(c) \/ AskUnread(c)) => c \notin Known(pool)
  BY DEF Visiting, AskUnread
<1> QED
  BY <1>1, <1>2, <1>3, <1>4

\* Reading a message takes it off its socket only.
LEMMA ReadTypes ==
  ASSUME TypeOK, NEW c \in Commands, toBroker[c] # << >>,
         toBroker' = [toBroker EXCEPT ![c] = Tail(@)]
  PROVE  /\ toBroker' \in [Commands -> Seq(Messages)]
         /\ toBroker'[c] = Tail(toBroker[c])
         /\ \A d \in Commands \ {c} : toBroker'[d] = toBroker[d]
<1>1. toBroker \in [Commands -> Seq(Messages)]
  BY DEF TypeOK
<1>2. Tail(toBroker[c]) \in Seq(Messages)
  <2>1. toBroker[c] \in Seq(Messages)
    BY <1>1
  <2>2. \A t \in Seq(Messages) : t # << >> => Tail(t) \in Seq(Messages)
    BY HeadTailProperties
  <2> QED
    BY <2>1, <2>2
<1> QED
  BY <1>1, <1>2

\* A step of the broker for one client: the others see nothing of it but the grants.
LEMMA Delivered ==
  ASSUME IInv, PP!Sound(pool'), NEW c \in Commands, Deliver(c, pool', accepted'),
         \A d \in Commands \ {c} : d \in Known(pool') <=> d \in Known(pool),
         \A d \in P!Holders(pool) \ {c} : pool'.granted[d] = pool.granted[d],
         accepted' \ {c} = accepted \ {c}, linked' \ {c} = linked \ {c},
         broker' = broker, pc' = pc, lease' = lease,
         NEW d \in Commands \ {c}, toBroker'[d] = toBroker[d]
  PROVE  (Linked(d) \/ NoLink(d))'
<1>1. /\ Known(pool)' = Known(pool') /\ P!Holders(pool)' = P!Holders(pool')
      /\ (d \in accepted' <=> d \in accepted) /\ (d \in linked' <=> d \in linked)
  BY DEF Known, P!Holders, P!Waiting
<1>2. d \in P!Holders(pool) =>
        d \in P!Holders(pool') /\ pool'.granted[d] = pool.granted[d]
  BY DEF P!Holders
<1>3. toClient'[d] = IF d \in P!Holders(pool') /\ d \notin P!Holders(pool) /\ d \in accepted
                     THEN Append(toClient[d], pool'.granted[d]) ELSE toClient[d]
  BY <1>1 DEF Deliver, P!NewlyGranted
<1>4. ASSUME Linked(d) PROVE Linked(d)'
  <2>1. ASSUME Visiting(d) PROVE Visiting(d)'
    BY <1>1, <2>1 DEF Visiting
  <2>2. ASSUME AskUnread(d) PROVE AskUnread(d)'
    <3>1. d \notin Known(pool') /\ d \notin P!Holders(pool')
      BY <2>2 DEF AskUnread, Known
    <3> QED
      BY <1>1, <1>3, <2>2, <3>1 DEF AskUnread
  <2>3. ASSUME AskRead(d) PROVE AskRead(d)'
    <3>1. d \in Known(pool)' /\ d \in accepted
      BY <1>1, <2>3 DEF AskRead
    <3>2. CASE d \in P!Holders(pool)
      BY <1>1, <1>2, <1>3, <2>3, <3>1, <3>2 DEF AskRead
    <3>3. CASE d \notin P!Holders(pool)
      <4>1. toClient[d] = << >>
        BY <2>3, <3>3 DEF AskRead
      <4>2. Append(<< >>, pool'.granted[d]) = <<pool'.granted[d]>>
        OBVIOUS
      <4>3. toClient'[d] = IF d \in P!Holders(pool') THEN <<pool'.granted[d]>> ELSE << >>
        BY <1>3, <3>1, <3>3, <4>1, <4>2
      <4> QED
        BY <1>1, <2>3, <3>1, <4>3 DEF AskRead
    <3> QED
      BY <3>2, <3>3
  <2>4. ASSUME Running(d) PROVE Running(d)'
    BY <1>1, <1>2, <1>3, <2>4 DEF Running, Granted
  <2>5. ASSUME Leaving(d) PROVE Leaving(d)'
    BY <1>1, <2>5 DEF Leaving
  <2> QED
    BY <1>1, <1>4, <2>1, <2>2, <2>3, <2>4, <2>5 DEF Linked
<1>5. ASSUME NoLink(d) PROVE NoLink(d)'
  <2>1. toClient'[d] = toClient[d]
    BY <1>3, <1>5 DEF NoLink
  <2> QED
    BY <1>1, <1>5, <2>1 DEF NoLink, Unconnected, Cut
<1> QED
  BY <1>4, <1>5 DEF IInv

\* What it hands out fits on the sockets.
LEMMA DeliveredTypes ==
  ASSUME TypeOK, PP!Sound(pool'), NEW c, Deliver(c, pool', accepted')
  PROVE  pool' \in P!Pool /\ toClient' \in [Commands -> Seq(0 .. P!Budget)]
<1>1. pool' \in P!Pool /\ pool'.granted \in [Commands -> 0 .. P!Budget]
  BY SoundType
<1>2. \A d \in Commands : toClient[d] \in Seq(0 .. P!Budget)
                          /\ Append(toClient[d], pool'.granted[d]) \in Seq(0 .. P!Budget)
  BY <1>1 DEF TypeOK
<1> QED
  BY <1>1, <1>2 DEF Deliver

\* A pool in which nobody waits has an empty queue.
LEMMA NobodyWaits ==
  ASSUME NEW p \in P!Pool
  PROVE  p.waiters = << >> <=> P!Waiting(p) = {}
<1>1. p.waiters \in Seq(P!Waiter)
  BY DEF P!Pool
<1>2. Len(p.waiters) \in Nat /\ (p.waiters = << >> <=> Len(p.waiters) = 0)
  BY <1>1, EmptySeq
<1>3. ASSUME Len(p.waiters) # 0 PROVE p.waiters[1].client \in P!Waiting(p)
  BY <1>2, <1>3 DEF P!Waiting
<1>4. ASSUME Len(p.waiters) = 0 PROVE P!Waiting(p) = {}
  <2>1. 1 .. Len(p.waiters) = {}
    BY <1>4
  <2> QED
    BY <2>1 DEF P!Waiting
<1> QED
  BY <1>2, <1>3, <1>4

\* The commands that have yet to spawn a broker are as many as before.
LEMMA SameSpawners ==
  ASSUME IInv, pc' = pc, startups' \in Nat, startups' <= startups
  PROVE  /\ (startups + Cardinality(Unspawned) <= Cardinality(Commands))'
         /\ startups' \in 0 .. Cardinality(Commands)
<1>1. Unspawned' = Unspawned
  BY DEF Unspawned
<1>2. Cardinality(Unspawned) \in Nat /\ Cardinality(Commands) \in Nat /\ startups \in Int
  BY PoolAssumption, FewerUnspawned, <1>1, FS_CardinalityType DEF IInv, TypeOK
<1> QED
  BY <1>1, <1>2 DEF IInv

LEMMA AcceptIInv ==
  ASSUME IInv, NEW c \in Commands, Accept(c)
  PROVE  IInv'
<1>1. /\ broker = "up" /\ toBroker[c] # << >> /\ Head(toBroker[c]).t = "connect"
      /\ accepted' = accepted \cup {c} /\ timer' = FALSE
      /\ toBroker' = [toBroker EXCEPT ![c] = Tail(@)]
      /\ UNCHANGED <<broker, startups, crashes, pool, pc, lease, linked, toClient>>
  BY DEF Accept, Incoming
<1>2. TypeOK
  BY DEF IInv
<1>3. /\ toBroker' \in [Commands -> Seq(Messages)] /\ toBroker'[c] = Tail(toBroker[c])
      /\ \A d \in Commands \ {c} : toBroker'[d] = toBroker[d]
  BY <1>1, <1>2, ReadTypes
<1>4. /\ Linked(c) /\ c \notin Known(pool)
      /\ \/ Visiting(c) /\ toBroker[c] = <<ConnectMsg>>
         \/ Leaving(c) /\ toBroker[c] = <<ConnectMsg, FinMsg>>
         \/ \E n \in Wants :
              \/ AskUnread(c) /\ toBroker[c] = <<ConnectMsg, AcqMsg(n)>>
              \/ Leaving(c) /\ toBroker[c] = <<ConnectMsg, AcqMsg(n), FinMsg>>
  BY <1>1, FirstMessage
<1>5. c \notin Known(pool)' /\ c \in accepted'
  BY <1>1, <1>4 DEF Known, P!Holders, P!Waiting
<1>6. Linked(c)'
  <2>1. CASE Visiting(c) /\ toBroker[c] = <<ConnectMsg>>
    <3>1. toBroker'[c] = << >>
      BY <1>3, <2>1
    <3>2. Visiting(c)'
      BY <1>1, <1>5, <2>1, <3>1 DEF Visiting
    <3> QED
      BY <1>1, <1>4, <3>2 DEF Linked
  <2>2. CASE Leaving(c) /\ toBroker[c] = <<ConnectMsg, FinMsg>>
    <3>1. toBroker'[c] = <<FinMsg>>
      BY <1>3, <2>2
    <3>2. Leaving(c)'
      BY <1>1, <1>5, <2>2, <3>1 DEF Leaving
    <3> QED
      BY <1>1, <1>4, <3>2 DEF Linked
  <2>3. ASSUME NEW n \in Wants, AskUnread(c), toBroker[c] = <<ConnectMsg, AcqMsg(n)>>
        PROVE  Linked(c)'
    <3>1. toBroker'[c] = <<AcqMsg(n)>>
      BY <1>3, <2>3
    <3>2. AskUnread(c)'
      BY <1>1, <1>5, <2>3, <3>1 DEF AskUnread
    <3> QED
      BY <1>1, <1>4, <3>2 DEF Linked
  <2>4. ASSUME NEW n \in Wants, Leaving(c), toBroker[c] = <<ConnectMsg, AcqMsg(n), FinMsg>>
        PROVE  Linked(c)'
    <3>1. toBroker'[c] = <<AcqMsg(n), FinMsg>>
      BY <1>3, <2>4
    <3>2. Leaving(c)'
      BY <1>1, <1>5, <2>4, <3>1 DEF Leaving
    <3> QED
      BY <1>1, <1>4, <3>2 DEF Linked
  <2> QED
    BY <1>4, <2>1, <2>2, <2>3, <2>4
<1>7. \A d \in Commands \ {c} : (Linked(d) \/ NoLink(d))'
  BY <1>1, <1>3, Unaffected DEF IInv
<1>8. TypeOK'
  BY <1>1, <1>2, <1>3 DEF TypeOK
<1>9. (Known(pool) \subseteq accepted)' /\ PP!Sound(pool)'
  BY <1>1 DEF IInv, Known, P!Holders, P!Waiting
<1>10. (startups + Cardinality(Unspawned) <= Cardinality(Commands))'
  BY <1>1, <1>2, SameSpawners DEF TypeOK
<1> QED
  BY <1>1, <1>6, <1>7, <1>8, <1>9, <1>10 DEF IInv

LEMMA HandleAcqIInv ==
  ASSUME IInv, NEW c \in Commands, HandleAcq(c)
  PROVE  IInv'
<1>1. /\ broker = "up" /\ toBroker[c] # << >> /\ Head(toBroker[c]).t = "acq"
      /\ pool' = P!RequestSlots(pool, c, Head(toBroker[c]).want)
      /\ Deliver(c, pool', accepted) /\ toBroker' = [toBroker EXCEPT ![c] = Tail(@)]
      /\ UNCHANGED <<broker, startups, crashes, accepted, timer, pc, lease, linked>>
  BY DEF HandleAcq, Incoming
<1>2. TypeOK /\ PP!Sound(pool) /\ Known(pool) \subseteq accepted
  BY DEF IInv
<1>3. /\ toBroker' \in [Commands -> Seq(Messages)] /\ toBroker'[c] = Tail(toBroker[c])
      /\ \A d \in Commands \ {c} : toBroker'[d] = toBroker[d]
  BY <1>1, <1>2, ReadTypes
<1>4. /\ Linked(c) /\ c \in accepted /\ c \notin Known(pool)
      /\ \E n \in Wants : \/ AskUnread(c) /\ toBroker[c] = <<AcqMsg(n)>>
                          \/ Leaving(c) /\ toBroker[c] = <<AcqMsg(n), FinMsg>>
  BY <1>1, FirstMessage
<1>5. PICK n \in Wants : \/ AskUnread(c) /\ toBroker[c] = <<AcqMsg(n)>>
                         \/ Leaving(c) /\ toBroker[c] = <<AcqMsg(n), FinMsg>>
  BY <1>4
<1>6. Head(toBroker[c]).want = n /\ n \in Int
  BY <1>5, MessageKinds, PoolConstants
<1>7. /\ PP!Sound(pool') /\ Known(pool') = Known(pool) \cup {c}
      /\ \A d \in P!Holders(pool) : pool'.granted[d] = pool.granted[d]
  BY <1>1, <1>2, <1>4, <1>6, Requested
<1>8. Known(pool)' = Known(pool') /\ P!Holders(pool)' = P!Holders(pool')
  BY DEF Known, P!Holders, P!Waiting
<1>9. Linked(c)'
  <2>1. CASE AskUnread(c) /\ toBroker[c] = <<AcqMsg(n)>>
    <3>1. toBroker'[c] = << >> /\ toClient[c] = << >>
      BY <1>3, <2>1 DEF AskUnread
    <3>2. toClient'[c] = IF c \in P!Holders(pool') THEN <<pool'.granted[c]>> ELSE << >>
      <4>1. c \notin P!Holders(pool)
        BY <1>4 DEF Known
      <4>2. Append(<< >>, pool'.granted[c]) = <<pool'.granted[c]>>
        OBVIOUS
      <4> QED
        BY <1>1, <1>4, <3>1, <4>1, <4>2 DEF Deliver, P!NewlyGranted
    <3>3. AskRead(c)'
      BY <1>1, <1>4, <1>7, <1>8, <2>1, <3>1, <3>2 DEF AskUnread, AskRead
    <3> QED
      BY <1>1, <1>4, <3>3 DEF Linked
  <2>2. CASE Leaving(c) /\ toBroker[c] = <<AcqMsg(n), FinMsg>>
    <3>1. toBroker'[c] = <<FinMsg>>
      BY <1>3, <2>2
    <3>2. Leaving(c)'
      BY <1>1, <1>4, <2>2, <3>1 DEF Leaving
    <3> QED
      BY <1>1, <1>4, <3>2 DEF Linked
  <2> QED
    BY <1>5, <2>1, <2>2
<1>10. Deliver(c, pool', accepted')
  BY <1>1 DEF Deliver
<1>11. \A d \in Commands \ {c} : (Linked(d) \/ NoLink(d))'
  BY <1>1, <1>3, <1>7, <1>10, Delivered
<1>12. TypeOK'
  BY <1>1, <1>2, <1>3, <1>7, <1>10, DeliveredTypes DEF TypeOK
<1>13. (Known(pool) \subseteq accepted)' /\ PP!Sound(pool)'
  BY <1>1, <1>2, <1>4, <1>7, <1>8
<1>14. (startups + Cardinality(Unspawned) <= Cardinality(Commands))'
  BY <1>1, <1>2, SameSpawners DEF TypeOK
<1> QED
  BY <1>1, <1>9, <1>11, <1>12, <1>13, <1>14 DEF IInv

LEMMA OnGoneIInv ==
  ASSUME IInv, NEW c \in Commands, OnGone(c)
  PROVE  IInv'
<1>1. /\ broker = "up" /\ toBroker[c] # << >> /\ Head(toBroker[c]).t = "fin"
      /\ accepted' = accepted \ {c} /\ pool' = P!ReleaseSlots(pool, c)
      /\ Deliver(c, pool', accepted') /\ timer' = P!Idle(pool')
      /\ toBroker' = [toBroker EXCEPT ![c] = Tail(@)] /\ linked' = linked \ {c}
      /\ UNCHANGED <<broker, startups, crashes, pc, lease>>
  BY DEF OnGone, Incoming
<1>2. TypeOK /\ PP!Sound(pool) /\ Known(pool) \subseteq accepted
  BY DEF IInv
<1>3. /\ toBroker' \in [Commands -> Seq(Messages)] /\ toBroker'[c] = Tail(toBroker[c])
      /\ \A d \in Commands \ {c} : toBroker'[d] = toBroker[d]
  BY <1>1, <1>2, ReadTypes
<1>4. Leaving(c) /\ toBroker[c] = <<FinMsg>>
  BY <1>1, FirstMessage
<1>5. /\ PP!Sound(pool') /\ Known(pool') = Known(pool) \ {c}
      /\ \A d \in P!Holders(pool) \ {c} : pool'.granted[d] = pool.granted[d]
  BY <1>1, <1>2, Released
<1>6. Known(pool)' = Known(pool')
  BY DEF Known, P!Holders, P!Waiting
<1>7. NoLink(c)'
  <2>1. toBroker'[c] = << >>
    BY <1>3, <1>4
  <2> QED
    BY <1>1, <1>4, <2>1 DEF NoLink, Cut, Leaving
<1>8. \A d \in Commands \ {c} : (Linked(d) \/ NoLink(d))'
  BY <1>1, <1>3, <1>5, Delivered
<1>9. TypeOK'
  <2>1. timer' \in BOOLEAN
    BY <1>1 DEF P!Idle
  <2> QED
    BY <1>1, <1>2, <1>3, <1>5, <2>1, DeliveredTypes DEF TypeOK
<1>10. (Known(pool) \subseteq accepted)' /\ PP!Sound(pool)'
  BY <1>1, <1>2, <1>5, <1>6
<1>11. (broker = "up" /\ accepted = {} => timer)'
  <2>1. ASSUME accepted' = {} PROVE P!Idle(pool')
    <3>1. P!Holders(pool') = {} /\ P!Waiting(pool') = {}
      BY <1>6, <1>10, <2>1 DEF Known
    <3>2. pool' \in P!Pool
      BY <1>5, SoundType
    <3> QED
      BY <3>1, <3>2, NobodyWaits DEF P!Idle
  <2> QED
    BY <1>1, <2>1
<1>12. (startups + Cardinality(Unspawned) <= Cardinality(Commands))'
  BY <1>1, <1>2, SameSpawners DEF TypeOK
<1> QED
  BY <1>7, <1>8, <1>9, <1>10, <1>11, <1>12 DEF IInv

LEMMA BrokerUpIInv ==
  ASSUME IInv, BrokerUp
  PROVE  IInv'
<1>1. /\ startups > 0 /\ broker = "down" /\ broker' = "up" /\ startups' = startups - 1
      /\ pool' = P!EmptyPool /\ accepted' = {} /\ timer' = TRUE
      /\ UNCHANGED <<crashes, pc, lease, linked, toBroker, toClient>>
  BY DEF BrokerUp
<1>2. TypeOK
  BY DEF IInv
<1>3. \A d \in Commands : NoLink(d)
  BY <1>1 DEF IInv, Linked
<1>4. \A d \in Commands : NoLink(d)'
  BY <1>1, <1>3 DEF NoLink, Unconnected, Cut
<1>5. PP!Sound(pool') /\ Known(pool)' = {} /\ pool' \in P!Pool
  <2>1. Known(pool)' = Known(pool')
    BY DEF Known, P!Holders, P!Waiting
  <2> QED
    BY <1>1, <2>1, EmptyPoolSound, SoundType
<1>6. /\ (startups + Cardinality(Unspawned) <= Cardinality(Commands))'
      /\ startups' \in 0 .. Cardinality(Commands)
  BY <1>1, <1>2, SameSpawners DEF TypeOK
<1>7. TypeOK'
  BY <1>1, <1>2, <1>5, <1>6 DEF TypeOK
<1> QED
  BY <1>1, <1>4, <1>5, <1>6, <1>7 DEF IInv

LEMMA BrokerLosesIInv ==
  ASSUME IInv, BrokerLoses
  PROVE  IInv'
<1>1. /\ startups > 0 /\ startups' = startups - 1
      /\ UNCHANGED <<broker, crashes, pool, accepted, timer, pc, lease, linked,
                     toBroker, toClient>>
  BY DEF BrokerLoses
<1>2. TypeOK
  BY DEF IInv
<1>3. \A d \in Commands : (Linked(d) \/ NoLink(d))'
  BY <1>1, Unaffected DEF IInv
<1>4. /\ (startups + Cardinality(Unspawned) <= Cardinality(Commands))'
      /\ startups' \in 0 .. Cardinality(Commands)
  BY <1>1, <1>2, SameSpawners DEF TypeOK
<1>5. TypeOK'
  BY <1>1, <1>2, <1>4 DEF TypeOK
<1>6. (Known(pool) \subseteq accepted)' /\ PP!Sound(pool)'
  BY <1>1 DEF IInv, Known, P!Holders, P!Waiting
<1> QED
  BY <1>1, <1>3, <1>4, <1>5, <1>6 DEF IInv

\* Every socket of the broker that ends closes, behind the grant lines on it.
LEMMA DisappearIInv ==
  ASSUME IInv, Disappear, crashes' \in 0 .. MaxCrashes
  PROVE  IInv'
<1>1. /\ broker' = "down" /\ pool' = P!EmptyPool /\ accepted' = {} /\ timer' = FALSE
      /\ linked' = {} /\ toBroker' = [c \in Commands |-> << >>]
      /\ toClient' = [c \in Commands |-> IF c \in linked THEN Append(toClient[c], Closed)
                                         ELSE toClient[c]]
      /\ UNCHANGED <<startups, pc, lease>>
  BY DEF Disappear
<1>2. TypeOK /\ PP!Sound(pool)
  BY DEF IInv
<1>3. Closed \in 0 .. P!Budget
  BY BudgetType DEF Closed
<1>4. PP!Sound(pool') /\ Known(pool)' = {} /\ pool' \in P!Pool
  <2>1. Known(pool)' = Known(pool')
    BY DEF Known, P!Holders, P!Waiting
  <2> QED
    BY <1>1, <2>1, EmptyPoolSound, SoundType
<1>5. ASSUME NEW d \in Commands PROVE NoLink(d)'
  <2>1. d \notin accepted' /\ toBroker'[d] = << >> /\ d \notin linked'
    BY <1>1
  <2>2. CASE NoLink(d)
    <3>1. toClient'[d] = toClient[d]
      BY <1>1, <2>2 DEF NoLink, Unconnected, Cut
    <3> QED
      BY <1>1, <2>1, <2>2, <3>1 DEF NoLink, Unconnected, Cut
  <2>3. CASE Linked(d)
    <3>1. toClient'[d] = Append(toClient[d], Closed)
      BY <1>1, <2>3 DEF Linked
    <3>2. Append(<< >>, Closed) = <<Closed>>
          /\ \A n \in Grants : Append(<<n>>, Closed) = <<n, Closed>>
      <4>1. \A n \in 0 .. P!Budget : Append(<<n>>, Closed) = <<n, Closed>>
        BY <1>3, AppendToTuple
      <4>2. Grants \subseteq 0 .. P!Budget
        BY BudgetType DEF Grants
      <4> QED
        BY <4>1, <4>2
    <3>3. ASSUME Visiting(d) \/ Leaving(d) PROVE Cut(d)'
      BY <1>1, <2>1, <3>3 DEF Visiting, Leaving, Cut
    <3>4. ASSUME AskUnread(d) PROVE Cut(d)'
      BY <1>1, <2>1, <3>1, <3>2, <3>4 DEF AskUnread, Cut
    <3>5. ASSUME AskRead(d) PROVE Cut(d)'
      <4>1. toClient[d] = << >> \/ \E n \in Grants : toClient[d] = <<n>>
        <5>1. pool.granted \in [Commands -> 0 .. P!Budget]
          BY <1>2, SoundType
        <5>2. d \in P!Holders(pool) => pool.granted[d] \in Grants
          BY <5>1, BudgetType DEF P!Holders, Grants
        <5> QED
          BY <3>5, <5>2 DEF AskRead
      <4>2. toClient'[d] = <<Closed>> \/ \E n \in Grants : toClient'[d] = <<n, Closed>>
        BY <3>1, <3>2, <4>1
      <4> QED
        BY <1>1, <2>1, <3>5, <4>2 DEF AskRead, Cut
    <3>6. ASSUME Running(d) PROVE Cut(d)'
      BY <1>1, <2>1, <3>1, <3>2, <3>6 DEF Running, Cut
    <3>7. Cut(d)'
      BY <2>3, <3>3, <3>4, <3>5, <3>6 DEF Linked
    <3> QED
      BY <2>1, <3>7 DEF NoLink
  <2> QED
    BY <2>2, <2>3 DEF IInv
<1>6. TypeOK'
  <2>1. toBroker' \in [Commands -> Seq(Messages)]
    BY <1>1
  <2>2. toClient' \in [Commands -> Seq(0 .. P!Budget)]
    <3>1. \A c \in Commands : /\ toClient[c] \in Seq(0 .. P!Budget)
                              /\ Append(toClient[c], Closed) \in Seq(0 .. P!Budget)
      BY <1>2, <1>3 DEF TypeOK
    <3> QED
      BY <1>1, <3>1
  <2> QED
    BY <1>1, <1>2, <1>4, <2>1, <2>2 DEF TypeOK
<1>7. (startups + Cardinality(Unspawned) <= Cardinality(Commands))'
  BY <1>1, <1>2, SameSpawners DEF TypeOK
<1> QED
  BY <1>1, <1>4, <1>5, <1>6, <1>7 DEF IInv

LEMMA IdleFiresIInv ==
  ASSUME IInv, IdleFires
  PROVE  IInv'
<1>1. TypeOK
  BY DEF IInv
<1>2. CASE Disappear /\ UNCHANGED crashes
  BY <1>1, <1>2, DisappearIInv DEF TypeOK
<1>3. CASE /\ ~P!Idle(pool) /\ timer' = FALSE
           /\ UNCHANGED <<broker, startups, crashes, pool, accepted,
                          pc, lease, linked, toBroker, toClient>>
  <2>1. \A d \in Commands : (Linked(d) \/ NoLink(d))'
    BY <1>3, Unaffected DEF IInv
  <2>2. TypeOK'
    BY <1>1, <1>3 DEF TypeOK
  <2>3. accepted # {}
    <3>1. pool.waiters # << >> => P!Waiting(pool) # {}
      BY <1>1, NobodyWaits DEF TypeOK
    <3> QED
      BY <1>3, <3>1 DEF IInv, Known, P!Idle
  <2>4. (startups + Cardinality(Unspawned) <= Cardinality(Commands))'
    BY <1>1, <1>3, SameSpawners DEF TypeOK
  <2>5. (Known(pool) \subseteq accepted)' /\ PP!Sound(pool)'
    BY <1>3 DEF IInv, Known, P!Holders, P!Waiting
  <2> QED
    BY <1>3, <2>1, <2>2, <2>3, <2>4, <2>5 DEF IInv
<1> QED
  BY <1>2, <1>3 DEF IdleFires

LEMMA CrashIInv ==
  ASSUME IInv, Crash
  PROVE  IInv'
<1>1. crashes' \in 0 .. MaxCrashes
  BY MaxCrashesAssumption DEF Crash, IInv, TypeOK
<1> QED
  BY <1>1, DisappearIInv DEF Crash

-----------------------------------------------------------------------------
(* The invariant holds. *)

LEMMA InitIInv == Init => IInv
<1> SUFFICES ASSUME Init PROVE IInv
  OBVIOUS
<1>1. TypeOK
  <2>1. Cardinality(Commands) \in Nat
    BY PoolAssumption, FS_CardinalityType
  <2>2. pool \in P!Pool
    BY EmptyPoolSound, SoundType DEF Init
  <2>3. startups \in 0 .. Cardinality(Commands) /\ crashes \in 0 .. MaxCrashes
    BY <2>1, MaxCrashesAssumption DEF Init
  <2>4. pc \in [Commands -> Stages] /\ lease \in [Commands -> 0 .. P!Budget]
    BY BudgetType DEF Init, Stages
  <2>5. /\ toBroker \in [Commands -> Seq(Messages)]
        /\ toClient \in [Commands -> Seq(0 .. P!Budget)]
    BY DEF Init
  <2> QED
    BY <2>2, <2>3, <2>4, <2>5 DEF Init, TypeOK
<1>2. PP!Sound(pool) /\ Known(pool) \subseteq accepted
  BY EmptyPoolSound DEF Init
<1>3. \A c \in Commands : NoLink(c)
  BY DEF Init, NoLink, Unconnected
<1>4. startups + Cardinality(Unspawned) <= Cardinality(Commands)
  <2>1. Unspawned \subseteq Commands
    BY DEF Unspawned
  <2>2. Cardinality(Unspawned) <= Cardinality(Commands)
        /\ Cardinality(Unspawned) \in Nat
    BY <2>1, PoolAssumption, FS_Subset, FS_CardinalityType
  <2> QED
    BY <2>2 DEF Init
<1> QED
  BY <1>1, <1>2, <1>3, <1>4 DEF IInv, Init

LEMMA NextIInv == IInv /\ [Next]_vars => IInv'
<1> SUFFICES ASSUME IInv, [Next]_vars PROVE IInv'
  OBVIOUS
<1>1. ASSUME NEW c \in Commands, Acquire(c) PROVE IInv'
  BY <1>1, ConnectIInv, SpawnIInv, GiveUpIInv DEF Acquire
<1>2. ASSUME NEW c \in Commands, Visit(c) \/ Answered(c) \/ Leave(c) PROVE IInv'
  BY <1>2, VisitIInv, AnsweredIInv, LeaveIInv
<1>3. ASSUME NEW c \in Commands, Handle(c) PROVE IInv'
  BY <1>3, AcceptIInv, HandleAcqIInv, OnGoneIInv DEF Handle
<1>4. CASE BrokerUp \/ BrokerLoses \/ IdleFires \/ Crash
  BY <1>4, BrokerUpIInv, BrokerLosesIInv, IdleFiresIInv, CrashIInv
<1>5. CASE UNCHANGED vars
  <2>1. \A d \in Commands : (Linked(d) \/ NoLink(d))'
    BY <1>5, Unaffected DEF vars, IInv
  <2>2. TypeOK' /\ (Known(pool) \subseteq accepted)' /\ PP!Sound(pool)'
    BY <1>5 DEF vars, IInv, TypeOK, Known, P!Holders, P!Waiting
  <2>3. Unspawned' = Unspawned
    BY <1>5 DEF vars, Unspawned
  <2> QED
    BY <1>5, <2>1, <2>2, <2>3 DEF vars, IInv
<1> QED
  BY <1>1, <1>2, <1>3, <1>4, <1>5 DEF Next

\* Broker, sockets and commands always fit together.
LEMMA InvariantHolds == Spec => []IInv
BY InitIInv, NextIInv, PTL DEF Spec

-----------------------------------------------------------------------------
(* The theorems. *)

\* SessionIsExact, for any commands and budget: what a running command holds is
\* what the pool has booked for it, no grant is lost between the pool's answer and
\* the command, the pool knows only clients of the map, and a broker that serves
\* nobody has its idle timer armed.
THEOREM SessionStaysExact == Spec => []SessionIsExact
<1>1. ASSUME IInv PROVE SessionIsExact
  <2>1. TypeOK /\ PP!Sound(pool) /\ Known(pool) \subseteq accepted
    BY <1>1 DEF IInv
  <2>2. LeaseIsBacked
    <3>1. ASSUME NEW c \in Commands, pc[c] = "running", lease[c] > 0,
                 toClient[c] # <<Closed>>
          PROVE  pool.granted[c] = lease[c]
      <4>1. ~NoLink(c)
        BY <2>1, <3>1 DEF NoLink, Unconnected, Cut, TypeOK
      <4>2. Running(c)
        BY <1>1, <3>1, <4>1 DEF IInv, Linked, Visiting, AskUnread, AskRead, Leaving
      <4> QED
        BY <4>2 DEF Running, Granted
    <3> QED
      BY <3>1 DEF LeaseIsBacked
  <2>3. NoGrantLost
    <3>1. ASSUME NEW c \in P!Holders(pool)
          PROVE  \/ pc[c] = "running" /\ lease[c] = pool.granted[c]
                 \/ pc[c] = "asked" /\ toClient[c] = <<pool.granted[c]>>
                 \/ toBroker[c] = <<FinMsg>>
      <4>1. c \in Commands /\ c \in Known(pool) /\ c \in accepted
        BY <2>1, <3>1 DEF P!Holders, Known
      <4> QED
        BY <1>1, <3>1, <4>1 DEF IInv, Linked, Visiting, AskUnread, AskRead, Running,
                                Leaving, Granted, NoLink
    <3>2. ASSUME NEW c \in accepted, pc[c] = "asked", toBroker[c] = << >>
          PROVE  c \in P!Waiting(pool) \cup P!Holders(pool)
      <4>1. c \in Commands
        BY <2>1 DEF TypeOK
      <4>2. Linked(c)
        BY <1>1, <4>1 DEF IInv, NoLink
      <4> QED
        BY <3>2, <4>2 DEF Linked, Visiting, AskUnread, AskRead, Running, Leaving, Known
    <3> QED
      BY <2>1, <3>1, <3>2 DEF NoGrantLost, Known
  <2>4. IdleTimerArmed
    <3>1. ASSUME accepted = {} PROVE P!Idle(pool)
      BY <2>1, <3>1, NobodyWaits DEF Known, P!Idle, TypeOK
    <3> QED
      BY <1>1, <3>1 DEF IInv, IdleTimerArmed
  <2> QED
    BY <2>1, <2>2, <2>3, <2>4 DEF SessionIsExact
<1> QED
  BY <1>1, InvariantHolds, PTL

\* NeverShutsDownBusy, for any commands and budget: the broker that goes away
\* without a crash serves nobody at that moment.
THEOREM ShutsDownIdle == Spec => NeverShutsDownBusy
<1>1. ASSUME IInv, [Next]_vars, broker = "up", broker' = "down", crashes' = crashes
      PROVE  P!Holders(pool) = {} /\ P!Waiting(pool) = {}
  <2>1. ~UNCHANGED vars
    BY <1>1 DEF vars
  <2>2. \A c \in Commands : ~(Acquire(c) \/ Visit(c) \/ Answered(c) \/ Leave(c) \/ Handle(c))
    BY <1>1 DEF Acquire, Connect, Spawn, GiveUp, Visit, Answered, Leave, Handle,
                Accept, HandleAcq, OnGone, brokerVars
  <2>3. ~BrokerUp /\ ~BrokerLoses /\ ~Crash
    BY <1>1 DEF BrokerUp, BrokerLoses, Crash, IInv, TypeOK
  <2>4. P!Idle(pool) /\ pool \in P!Pool
    BY <1>1, <2>1, <2>2, <2>3 DEF Next, IdleFires, IInv, TypeOK
  <2> QED
    BY <2>4, NobodyWaits DEF P!Idle
<1>2. IInv /\ [Next]_vars
        => [broker = "up" /\ broker' = "down" /\ crashes' = crashes
              => P!Holders(pool) = {} /\ P!Waiting(pool) = {}]_vars
  BY <1>1
<1> QED
  BY <1>2, InvariantHolds, PTL DEF Spec, NeverShutsDownBusy

-----------------------------------------------------------------------------
(* The session implements WorkerBudget: the mapped state, and what each step   *)
(* is to it.                                                                   *)

StageMap == [c \in Commands |->
              IF pc[c] \in {"new", "retrying"} THEN "idle"
              ELSE IF pc[c] = "asked" THEN "waiting"
              ELSE IF pc[c] # "running" THEN "over"
              ELSE IF c \in linked /\ lease[c] > 0 THEN "leased" ELSE "unthrottled"]
LeaseMap == [c \in Commands |-> IF pc[c] = "running" /\ c \in linked THEN lease[c] ELSE 0]

\* The actions of the promise, over the mapped state.
LEMMA PromiseActions ==
  /\ Promise!Init <=> /\ StageMap = [c \in Commands |-> "idle"]
                      /\ LeaseMap = [c \in Commands |-> 0]
  /\ Promise!vars = <<StageMap, LeaseMap>>
  /\ Promise!LoseBroker <=>
       /\ StageMap' = [c \in Commands |-> IF StageMap[c] = "leased" THEN "unthrottled"
                                          ELSE StageMap[c]]
       /\ LeaseMap' = [c \in Commands |-> 0]
  /\ \A c : /\ Promise!Ask(c) <=>
                 /\ StageMap[c] = "idle"
                 /\ StageMap' = [StageMap EXCEPT ![c] = "waiting"] /\ LeaseMap' = LeaseMap
            /\ Promise!FailOpen(c) <=>
                 /\ StageMap[c] \in {"idle", "waiting"}
                 /\ StageMap' = [StageMap EXCEPT ![c] = "unthrottled"] /\ LeaseMap' = LeaseMap
            /\ Promise!End(c) <=>
                 /\ StageMap[c] # "over"
                 /\ StageMap' = [StageMap EXCEPT ![c] = "over"]
                 /\ LeaseMap' = [LeaseMap EXCEPT ![c] = 0]
            /\ \A n : Promise!Lease(c, n) <=>
                 /\ StageMap[c] = "waiting"
                 /\ Promise!Leased(LeaseMap) + n <= P!Budget
                 /\ StageMap' = [StageMap EXCEPT ![c] = "leased"]
                 /\ LeaseMap' = [LeaseMap EXCEPT ![c] = n]
BY DEF StageMap, LeaseMap, Promise!Init, Promise!vars, Promise!LoseBroker, Promise!Ask,
       Promise!FailOpen, Promise!End, Promise!Lease

\* The slots the promise counts are those the pool counts.
LEMMA LeasedSlots == \A l : Promise!Leased(l) = PP!Cardinality(PP!Slots(l))
BY SamePool DEF Promise!Leased, PP!Slots, Promise!Cardinality, PP!Cardinality, P!Slots

\* The mapped state is that of the one command a step concerns.
LEMMA MapsAtOne ==
  ASSUME NEW c \in Commands,
         \A d \in Commands \ {c} : /\ pc'[d] = pc[d] /\ lease'[d] = lease[d]
                                   /\ d \in linked' <=> d \in linked
  PROVE  /\ StageMap' = [StageMap EXCEPT ![c] = StageMap'[c]]
         /\ LeaseMap' = [LeaseMap EXCEPT ![c] = LeaseMap'[c]]
BY DEF StageMap, LeaseMap

\* A step that changes neither stage nor lease is a stutter of the promise.
LEMMA Stutters ==
  ASSUME NEW c \in Commands, StageMap' = [StageMap EXCEPT ![c] = StageMap[c]],
         LeaseMap' = [LeaseMap EXCEPT ![c] = LeaseMap[c]]
  PROVE  UNCHANGED Promise!vars
<1>1. /\ StageMap = [StageMap EXCEPT ![c] = StageMap[c]]
      /\ LeaseMap = [LeaseMap EXCEPT ![c] = LeaseMap[c]]
  BY DEF StageMap, LeaseMap
<1>2. StageMap' = StageMap /\ LeaseMap' = LeaseMap
  BY <1>1
<1> QED
  BY <1>2 DEF Promise!vars, StageMap, LeaseMap

\* A command's own step changes nothing of the others.
LEMMA OwnStep ==
  ASSUME TypeOK, NEW c \in Commands, NEW p, pc' = [pc EXCEPT ![c] = p],
         NEW l, lease' = [lease EXCEPT ![c] = l], linked' \in {linked, linked \cup {c}, linked \ {c}}
  PROVE  /\ StageMap' = [StageMap EXCEPT ![c] = StageMap'[c]]
         /\ LeaseMap' = [LeaseMap EXCEPT ![c] = LeaseMap'[c]]
         /\ pc'[c] = p /\ lease'[c] = l
<1>1. pc \in [Commands -> Stages] /\ lease \in [Commands -> 0 .. P!Budget]
  BY DEF TypeOK
<1>2. pc'[c] = p /\ lease'[c] = l
  BY <1>1
<1>3. \A d \in Commands \ {c} : pc'[d] = pc[d] /\ lease'[d] = lease[d]
                                /\ (d \in linked' <=> d \in linked)
  BY <1>1
<1> QED
  BY <1>2, <1>3, MapsAtOne

\* The leases of the live broker are booked in its pool, so that one more grant
\* of the pool still fits the budget.
LEMMA LeaseFits ==
  ASSUME IInv, NEW c \in P!Holders(pool), AskRead(c)
  PROVE  /\ pool.granted[c] \in 1 .. P!Budget
         /\ Promise!Leased(LeaseMap) + pool.granted[c] <= P!Budget
<1>1. /\ pool.granted \in [Commands -> 0 .. P!Budget] /\ PP!Sound(pool)
      /\ P!Used(pool) <= P!Budget /\ c \in Commands /\ pool.granted[c] > 0
  BY SoundType DEF IInv, P!Holders
<1> DEFINE n == pool.granted[c]
           h == [LeaseMap EXCEPT ![c] = n]
<1>2. n \in 1 .. P!Budget /\ n \in 0 .. P!Budget
  BY <1>1, BudgetType
<1>3. LeaseMap \in [Commands -> 0 .. P!Budget]
  BY BudgetType DEF LeaseMap, IInv, TypeOK
<1>4. LeaseMap[c] = 0
  BY <1>1 DEF LeaseMap, AskRead
<1>5. \A d \in Commands : LeaseMap[d] <= pool.granted[d]
  <2>1. ASSUME NEW d \in Commands, pc[d] = "running", d \in linked
        PROVE  lease[d] = pool.granted[d]
    BY <2>1 DEF IInv, Linked, Visiting, AskUnread, AskRead, Running, Leaving, Granted,
                NoLink, Unconnected, Cut
  <2> QED
    BY <1>1, <2>1, BudgetType DEF LeaseMap
<1>6. h \in [Commands -> 0 .. P!Budget] /\ \A d \in Commands : h[d] <= pool.granted[d]
  BY <1>1, <1>2, <1>3, <1>5, BudgetType
<1>7. PP!Cardinality(PP!Slots(h)) <= PP!Cardinality(PP!Slots(pool.granted))
  BY <1>1, <1>6, PoolConstants, SamePool, PP!FewerSlots
<1>8. PP!Cardinality(PP!Slots(h)) = PP!Cardinality(PP!Slots(LeaseMap)) + n
  BY <1>1, <1>2, <1>3, <1>4, PoolConstants, SamePool, PP!GrantAddsSlots
<1>9. PP!Cardinality(PP!Slots(pool.granted)) = P!Used(pool)
  BY SamePool DEF PP!Used
<1>10. \A g : PP!Cardinality(PP!Slots(g)) \in Nat
  BY PoolConstants, PP!SlotsAreFinite
<1> HIDE DEF n, h
<1>11. PP!Cardinality(PP!Slots(LeaseMap)) + n <= P!Budget
  BY <1>1, <1>2, <1>7, <1>8, <1>9, <1>10, BudgetType
<1> QED
  BY <1>2, <1>11, LeasedSlots DEF n

\* What a step of one command is to the promise.
LEMMA CommandPromises ==
  ASSUME IInv, NEW c \in Commands, Acquire(c) \/ Visit(c) \/ Answered(c) \/ Leave(c)
  PROVE  Promise!Next \/ UNCHANGED Promise!vars
<1>1. TypeOK /\ (Linked(c) \/ NoLink(c))
  BY DEF IInv
<1>2. /\ lease = [lease EXCEPT ![c] = lease[c]] /\ LeaseMap = [LeaseMap EXCEPT ![c] = LeaseMap[c]]
      /\ StageMap = [StageMap EXCEPT ![c] = StageMap[c]]
  BY <1>1 DEF TypeOK, LeaseMap, StageMap
<1>3. CASE Connect(c)
  <2>1. /\ pc[c] \in {"new", "retrying"} /\ pc' = [pc EXCEPT ![c] = "asked"]
        /\ linked' = linked \cup {c} /\ lease' = [lease EXCEPT ![c] = lease[c]]
    BY <1>2, <1>3 DEF Connect
  <2>2. /\ StageMap' = [StageMap EXCEPT ![c] = StageMap'[c]] /\ pc'[c] = "asked"
        /\ LeaseMap' = [LeaseMap EXCEPT ![c] = LeaseMap'[c]]
    BY <1>1, <2>1, OwnStep
  <2>3. /\ StageMap[c] = "idle" /\ StageMap'[c] = "waiting"
        /\ LeaseMap[c] = 0 /\ LeaseMap'[c] = 0
    BY <2>1, <2>2 DEF StageMap, LeaseMap
  <2>4. Promise!Ask(c)
    BY <1>2, <2>2, <2>3, PromiseActions
  <2> QED
    BY <2>4 DEF Promise!Next
<1>4. CASE Spawn(c)
  <2>1. /\ pc[c] = "new" /\ pc' = [pc EXCEPT ![c] = "retrying"]
        /\ linked' = linked /\ lease' = [lease EXCEPT ![c] = lease[c]]
    BY <1>2, <1>4 DEF Spawn
  <2>2. /\ StageMap' = [StageMap EXCEPT ![c] = StageMap'[c]] /\ pc'[c] = "retrying"
        /\ LeaseMap' = [LeaseMap EXCEPT ![c] = LeaseMap'[c]]
    BY <1>1, <2>1, OwnStep
  <2>3. /\ StageMap[c] = "idle" /\ StageMap'[c] = "idle"
        /\ LeaseMap[c] = 0 /\ LeaseMap'[c] = 0
    BY <2>1, <2>2 DEF StageMap, LeaseMap
  <2> QED
    BY <2>2, <2>3, Stutters
<1>5. CASE GiveUp(c)
  <2>1. /\ pc[c] = "retrying" /\ pc' = [pc EXCEPT ![c] = "running"]
        /\ linked' = linked /\ lease' = [lease EXCEPT ![c] = lease[c]]
    BY <1>2, <1>5 DEF GiveUp
  <2>2. /\ StageMap' = [StageMap EXCEPT ![c] = StageMap'[c]] /\ pc'[c] = "running"
        /\ LeaseMap' = [LeaseMap EXCEPT ![c] = LeaseMap'[c]]
    BY <1>1, <2>1, OwnStep
  <2>3. c \notin linked
    BY <1>1, <2>1 DEF Linked, Visiting, AskUnread, AskRead, Running, Leaving, NoLink,
                      Unconnected, Cut
  <2>4. /\ StageMap[c] = "idle" /\ StageMap'[c] = "unthrottled"
        /\ LeaseMap[c] = 0 /\ LeaseMap'[c] = 0
    BY <2>1, <2>2, <2>3 DEF StageMap, LeaseMap
  <2>5. Promise!FailOpen(c)
    BY <1>2, <2>2, <2>4, PromiseActions
  <2> QED
    BY <2>5 DEF Promise!Next
<1>6. CASE Visit(c)
  <2>1. /\ pc[c] = "new" /\ pc' = [pc EXCEPT ![c] = "visiting"]
        /\ linked' = linked \cup {c} /\ lease' = [lease EXCEPT ![c] = lease[c]]
    BY <1>2, <1>6 DEF Visit
  <2>2. /\ StageMap' = [StageMap EXCEPT ![c] = StageMap'[c]] /\ pc'[c] = "visiting"
        /\ LeaseMap' = [LeaseMap EXCEPT ![c] = LeaseMap'[c]]
    BY <1>1, <2>1, OwnStep
  <2>3. StageMap[c] = "idle" /\ StageMap'[c] = "over" /\ LeaseMap'[c] = 0
    BY <2>1, <2>2 DEF StageMap, LeaseMap
  <2>4. Promise!End(c)
    BY <2>2, <2>3, PromiseActions
  <2> QED
    BY <2>4 DEF Promise!Next
<1>7. CASE Answered(c)
  <2>1. /\ pc[c] = "asked" /\ toClient[c] # << >> /\ pc' = [pc EXCEPT ![c] = "running"]
        /\ linked' = linked /\ lease' = [lease EXCEPT ![c] = Head(toClient[c])]
    BY <1>7 DEF Answered
  <2>2. /\ StageMap' = [StageMap EXCEPT ![c] = StageMap'[c]] /\ pc'[c] = "running"
        /\ LeaseMap' = [LeaseMap EXCEPT ![c] = LeaseMap'[c]]
        /\ lease'[c] = Head(toClient[c])
    BY <1>1, <2>1, OwnStep
  <2>3. StageMap[c] = "waiting" /\ LeaseMap[c] = 0
    BY <2>1 DEF StageMap, LeaseMap
  <2>4. CASE /\ Linked(c) /\ AskRead(c) /\ c \in P!Holders(pool)
             /\ toClient[c] = <<pool.granted[c]>>
    <3>1. /\ pool.granted[c] \in 1 .. P!Budget
          /\ Promise!Leased(LeaseMap) + pool.granted[c] <= P!Budget
      BY <2>4, LeaseFits
    <3>2. lease'[c] = pool.granted[c] /\ c \in linked'
      BY <2>1, <2>2, <2>4 DEF Linked
    <3>3. StageMap'[c] = "leased" /\ LeaseMap'[c] = pool.granted[c]
      BY <2>2, <3>1, <3>2, BudgetType DEF StageMap, LeaseMap
    <3>4. PICK n \in 1 .. P!Budget : n = pool.granted[c]
      BY <3>1
    <3>5. /\ StageMap' = [StageMap EXCEPT ![c] = "leased"]
          /\ LeaseMap' = [LeaseMap EXCEPT ![c] = n]
          /\ Promise!Leased(LeaseMap) + n <= P!Budget
      BY <2>2, <3>1, <3>3, <3>4
    <3>6. Promise!Lease(c, n)
      BY <2>3, <3>5, PromiseActions
    <3> QED
      BY <3>6 DEF Promise!Next
  <2>5. CASE NoLink(c) /\ Cut(c)
    <3>1. StageMap'[c] = "unthrottled" /\ LeaseMap'[c] = 0
      BY <2>1, <2>2, <2>5 DEF StageMap, LeaseMap, Cut
    <3>2. Promise!FailOpen(c)
      BY <1>2, <2>2, <2>3, <3>1, PromiseActions
    <3> QED
      BY <3>2 DEF Promise!Next
  <2> QED
    BY <2>1, <2>4, <2>5, AnswerIsGrantOrClose
<1>8. CASE Leave(c)
  <2>1. /\ pc[c] # "over" /\ pc' = [pc EXCEPT ![c] = "over"]
        /\ linked' = linked /\ lease' = [lease EXCEPT ![c] = 0]
    BY <1>8 DEF Leave
  <2>2. /\ StageMap' = [StageMap EXCEPT ![c] = StageMap'[c]] /\ pc'[c] = "over"
        /\ LeaseMap' = [LeaseMap EXCEPT ![c] = LeaseMap'[c]]
    BY <1>1, <2>1, OwnStep
  <2>3. StageMap'[c] = "over" /\ LeaseMap'[c] = 0
    BY <2>2 DEF StageMap, LeaseMap
  <2>4. CASE StageMap[c] = "over"
    <3>1. LeaseMap[c] = 0
      BY <2>4 DEF StageMap, LeaseMap
    <3> QED
      BY <2>2, <2>3, <2>4, <3>1, Stutters
  <2>5. CASE StageMap[c] # "over"
    <3>1. Promise!End(c)
      BY <2>2, <2>3, <2>5, PromiseActions
    <3> QED
      BY <3>1 DEF Promise!Next
  <2> QED
    BY <2>4, <2>5
<1> QED
  BY <1>3, <1>4, <1>5, <1>6, <1>7, <1>8 DEF Acquire

\* What a step of the broker is to the promise.
LEMMA BrokerPromises ==
  ASSUME IInv, \/ BrokerUp \/ BrokerLoses \/ IdleFires \/ Crash
               \/ \E c \in Commands : Handle(c)
  PROVE  Promise!Next \/ UNCHANGED Promise!vars
<1>1. ASSUME Disappear PROVE Promise!Next
  <2>1. pc' = pc /\ lease' = lease /\ linked' = {}
    BY <1>1 DEF Disappear
  <2>2. LeaseMap' = [c \in Commands |-> 0]
    BY <2>1 DEF LeaseMap
  <2>3. StageMap' = [c \in Commands |-> IF StageMap[c] = "leased" THEN "unthrottled"
                                        ELSE StageMap[c]]
    BY <2>1 DEF StageMap
  <2> QED
    BY <2>2, <2>3, PromiseActions DEF Promise!Next
<1>2. ASSUME UNCHANGED <<pc, lease, linked>> PROVE UNCHANGED Promise!vars
  BY <1>2 DEF Promise!vars
<1>3. ASSUME NEW c \in Commands, OnGone(c) PROVE UNCHANGED Promise!vars
  <2>1. /\ pc' = pc /\ lease' = lease /\ linked' = linked \ {c}
        /\ toBroker[c] # << >> /\ Head(toBroker[c]).t = "fin"
    BY <1>3 DEF OnGone, Incoming
  <2>2. pc[c] = "over"
    BY <2>1, FirstMessage DEF Leaving
  <2>3. StageMap' = StageMap /\ LeaseMap' = LeaseMap
    BY <2>1, <2>2 DEF StageMap, LeaseMap
  <2> QED
    BY <2>3 DEF Promise!vars, StageMap, LeaseMap
<1>4. ASSUME NEW c \in Commands, Accept(c) \/ HandleAcq(c) PROVE UNCHANGED Promise!vars
  BY <1>2, <1>4 DEF Accept, HandleAcq
<1>5. CASE BrokerUp \/ BrokerLoses
  BY <1>2, <1>5 DEF BrokerUp, BrokerLoses
<1>6. CASE IdleFires \/ Crash
  BY <1>1, <1>2, <1>6 DEF IdleFires, Crash
<1> QED
  BY <1>3, <1>4, <1>5, <1>6 DEF Handle

\* ImplementsWorkerBudget, for any commands and budget: to the commands, the
\* broker with its pool, its sockets, its idle shutdown and its crashes is a
\* WorkerBudget, in which the leases of the live broker never exceed the budget.
THEOREM QueueKeepsItsPromise == Spec => ImplementsWorkerBudget
<1>1. Init => Promise!Init
  <2> SUFFICES ASSUME Init PROVE Promise!Init
    OBVIOUS
  <2>1. StageMap = [c \in Commands |-> "idle"] /\ LeaseMap = [c \in Commands |-> 0]
    BY DEF Init, StageMap, LeaseMap
  <2> QED
    BY <2>1, PromiseActions
<1>2. IInv /\ [Next]_vars => [Promise!Next]_Promise!vars
  <2> SUFFICES ASSUME IInv, [Next]_vars PROVE Promise!Next \/ UNCHANGED Promise!vars
    OBVIOUS
  <2>1. CASE \E c \in Commands : Acquire(c) \/ Visit(c) \/ Answered(c) \/ Leave(c)
    BY <2>1, CommandPromises
  <2>2. CASE \/ BrokerUp \/ BrokerLoses \/ IdleFires \/ Crash
             \/ \E c \in Commands : Handle(c)
    BY <2>2, BrokerPromises
  <2>3. CASE UNCHANGED vars
    BY <2>3 DEF vars, Promise!vars
  <2> QED
    BY <2>1, <2>2, <2>3 DEF Next
<1> QED
  BY <1>1, <1>2, InvariantHolds, PTL DEF Spec, ImplementsWorkerBudget, Promise!Spec

=============================================================================
