---------------------------- MODULE QueueSession ----------------------------
(***************************************************************************)
(* One broker (packages/nopo/src/queue-broker.ts), the nopo commands that  *)
(* queue at it (queue-client.ts) and the sockets between them.             *)
(*                                                                         *)
(* A command makes one connection, so commands stand for client ids.  What *)
(* it writes on its socket reaches the broker in order and after a delay   *)
(* (toBroker), as what the broker writes reaches it (toClient); messages   *)
(* of different sockets are handled in any order.  A broker is a single    *)
(* event loop, so each event's handler is one action.                      *)
(*                                                                         *)
(* At most one broker listens at a time here.  When that holds is the      *)
(* subject of BrokerElection.                                              *)
(***************************************************************************)
EXTENDS Integers, FiniteSets, Sequences

CONSTANTS Commands,    \* nopo invocations, and `nopo queue` visits
          RawBudget,   \* the budget the broker is spawned with
          Wants,       \* what autoConcurrency() may return
          MaxCrashes   \* bound: how often the broker may die

ASSUME MaxCrashesAssumption == MaxCrashes \in Nat
ASSUME PoolAssumption ==
  IsFiniteSet(Commands) /\ RawBudget \in Int /\ Wants \subseteq Int

VARIABLES broker,    \* "down" or "up": somebody listens on the socket path
          startups,  \* spawned broker processes that have not tried to bind yet
          crashes,
          pool,      \* the broker's SlotPool
          accepted,  \* the keys of the broker's clients map
          timer,     \* its idle timer is armed
          pc,        \* where a command is, see Stages
          lease,     \* the grant it runs with; 0 is the no-op lease
          linked,    \* commands whose connection leads to the live broker
          toBroker, toClient
brokerVars == <<broker, startups, crashes, pool, accepted, timer>>
vars == <<broker, startups, crashes, pool, accepted, timer,
          pc, lease, linked, toBroker, toClient>>

P == INSTANCE SlotPool WITH Clients <- Commands

Stages == {"new", "retrying", "asked", "visiting", "running", "over"}
Closed == 0    \* on toClient: the socket closes; a positive number is a grant

ConnectMsg == [t |-> "connect"]
AcqMsg(n)  == [t |-> "acq", want |-> n]
FinMsg     == [t |-> "fin"]

Init ==
  /\ broker = "down" /\ startups = 0 /\ crashes = 0
  /\ pool = P!EmptyPool /\ accepted = {} /\ timer = FALSE
  /\ pc = [c \in Commands |-> "new"] /\ lease = [c \in Commands |-> 0]
  /\ linked = {}
  /\ toBroker = [c \in Commands |-> << >>] /\ toClient = [c \in Commands |-> << >>]

-----------------------------------------------------------------------------
(* The command: acquireSlot(), connectOrSpawn(), requestGrant(). *)

\* The connection succeeds.  The "connect" event and everything up to writing
\* acq run in one turn of the command's event loop.
Connect(c) ==
  /\ pc[c] \in {"new", "retrying"} /\ broker = "up"
  /\ pc' = [pc EXCEPT ![c] = "asked"]
  /\ linked' = linked \cup {c}
  /\ \E want \in Wants :
       toBroker' = [toBroker EXCEPT ![c] = <<ConnectMsg, AcqMsg(want)>>]
  /\ UNCHANGED <<brokerVars, lease, toClient>>

Spawn(c) ==
  /\ pc[c] = "new" /\ broker = "down"
  /\ pc' = [pc EXCEPT ![c] = "retrying"]
  /\ startups' = startups + 1
  /\ UNCHANGED <<broker, crashes, pool, accepted, timer, lease, linked, toBroker, toClient>>

\* CONNECT_TIMEOUT_MS passed and still nobody listens: run unthrottled.
GiveUp(c) ==
  /\ pc[c] = "retrying" /\ broker = "down"
  /\ pc' = [pc EXCEPT ![c] = "running"]
  /\ UNCHANGED <<brokerVars, lease, linked, toBroker, toClient>>

\* A connection that never asks: `nopo queue`, or the probe of a broker that
\* lost the spawn race.
Visit(c) ==
  /\ pc[c] = "new" /\ broker = "up"
  /\ pc' = [pc EXCEPT ![c] = "visiting"]
  /\ linked' = linked \cup {c}
  /\ toBroker' = [toBroker EXCEPT ![c] = <<ConnectMsg>>]
  /\ UNCHANGED <<brokerVars, lease, toClient>>

\* The grant line, or the close of the socket before one, ends the wait.
\* Broken: only a grant line does.
AnsweredByGrant(c) ==
  /\ pc[c] = "asked" /\ toClient[c] # << >> /\ Head(toClient[c]) # Closed
  /\ pc' = [pc EXCEPT ![c] = "running"]
  /\ lease' = [lease EXCEPT ![c] = Head(toClient[c])]
  /\ toClient' = [toClient EXCEPT ![c] = Tail(@)]
  /\ UNCHANGED <<brokerVars, linked, toBroker>>
Answered(c) ==
  /\ pc[c] = "asked" /\ toClient[c] # << >>
  /\ pc' = [pc EXCEPT ![c] = "running"]
  /\ lease' = [lease EXCEPT ![c] = Head(toClient[c])]
  /\ toClient' = [toClient EXCEPT ![c] = Tail(@)]
  /\ UNCHANGED <<brokerVars, linked, toBroker>>

\* The command ends, or is killed at any moment; if it has a socket, that closes
\* behind whatever the command has written.
\* Broken: the slots are returned while the command still runs.
LeaveRunning(c) ==
  /\ pc[c] \in {"asked", "visiting", "running"}
  /\ c \in linked => \A i \in 1 .. Len(toBroker[c]) : toBroker[c][i] # FinMsg
  /\ pc' = pc /\ lease' = lease
  /\ toBroker' = [toBroker EXCEPT ![c] = IF c \in linked THEN Append(@, FinMsg) ELSE @]
  /\ UNCHANGED <<brokerVars, linked, toClient>>
Leave(c) ==
  /\ pc[c] # "over"
  /\ pc' = [pc EXCEPT ![c] = "over"]
  /\ lease' = [lease EXCEPT ![c] = 0]
  /\ toBroker' = [toBroker EXCEPT ![c] = IF c \in linked THEN Append(@, FinMsg) ELSE @]
  /\ UNCHANGED <<brokerVars, linked, toClient>>

-----------------------------------------------------------------------------
(* The broker: runBroker(). *)

BrokerUp ==
  /\ startups > 0 /\ broker = "down"
  /\ broker' = "up" /\ startups' = startups - 1
  /\ pool' = P!EmptyPool /\ accepted' = {} /\ timer' = TRUE
  /\ UNCHANGED <<crashes, pc, lease, linked, toBroker, toClient>>

\* The others find the socket taken and exit.
BrokerLoses ==
  /\ startups > 0 /\ broker = "up"
  /\ startups' = startups - 1
  /\ UNCHANGED <<broker, crashes, pool, accepted, timer, pc, lease, linked, toBroker, toClient>>

Incoming(c, t) == broker = "up" /\ toBroker[c] # << >> /\ Head(toBroker[c]).t = t

\* deliver(): a grant line to each newly granted client that is in the map.
\* Broken: the grant is sent only to the client whose message is being handled.
DeliverToSelf(c, p, live) ==
  toClient' = [d \in Commands |-> IF d \in P!NewlyGranted(pool, p) \cap live \cap {c}
                                  THEN Append(toClient[d], p.granted[d]) ELSE toClient[d]]
Deliver(c, p, live) ==
  toClient' = [d \in Commands |-> IF d \in P!NewlyGranted(pool, p) \cap live
                                  THEN Append(toClient[d], p.granted[d]) ELSE toClient[d]]

\* on("connection"): the client enters the map and the idle timer is cleared.
Accept(c) ==
  /\ Incoming(c, "connect")
  /\ accepted' = accepted \cup {c}
  /\ timer' = FALSE
  /\ toBroker' = [toBroker EXCEPT ![c] = Tail(@)]
  /\ UNCHANGED <<broker, startups, crashes, pool, pc, lease, linked, toClient>>

\* handleMessage() of an acq line.
HandleAcq(c) ==
  /\ Incoming(c, "acq")
  /\ pool' = P!RequestSlots(pool, c, Head(toBroker[c]).want)
  /\ Deliver(c, pool', accepted)
  /\ toBroker' = [toBroker EXCEPT ![c] = Tail(@)]
  /\ UNCHANGED <<broker, startups, crashes, accepted, timer, pc, lease, linked>>

OnGone(c) ==
  /\ Incoming(c, "fin")
  /\ accepted' = accepted \ {c}
  /\ pool' = P!ReleaseSlots(pool, c)
  /\ Deliver(c, pool', accepted')
  /\ timer' = P!Idle(pool')
  /\ toBroker' = [toBroker EXCEPT ![c] = Tail(@)]
  /\ linked' = linked \ {c}
  /\ UNCHANGED <<broker, startups, crashes, pc, lease>>

\* The broker process ends: its sockets close, those still in the listen backlog
\* too, behind the grant lines already written; its pool is gone.
Disappear ==
  /\ broker' = "down" /\ pool' = P!EmptyPool /\ accepted' = {} /\ timer' = FALSE
  /\ linked' = {}
  /\ toBroker' = [c \in Commands |-> << >>]
  /\ toClient' = [c \in Commands |-> IF c \in linked THEN Append(toClient[c], Closed)
                                     ELSE toClient[c]]
  /\ UNCHANGED <<startups, pc, lease>>

\* The idle timer fires; it looks at the pool again before it shuts down.
IdleFires ==
  /\ broker = "up" /\ timer
  /\ IF P!Idle(pool) THEN Disappear /\ UNCHANGED crashes
     ELSE /\ timer' = FALSE
          /\ UNCHANGED <<broker, startups, crashes, pool, accepted,
                         pc, lease, linked, toBroker, toClient>>

Crash ==
  /\ broker = "up" /\ crashes < MaxCrashes
  /\ crashes' = crashes + 1
  /\ Disappear

-----------------------------------------------------------------------------
Acquire(c) == Connect(c) \/ Spawn(c) \/ GiveUp(c)
Handle(c)  == Accept(c) \/ HandleAcq(c) \/ OnGone(c)

Next == \/ BrokerUp \/ BrokerLoses \/ IdleFires \/ Crash
        \/ \E c \in Commands :
             Acquire(c) \/ Visit(c) \/ Answered(c) \/ Leave(c) \/ Handle(c)

\* The event loops run, timers fire, spawned processes start, and a command that
\* runs (or looks at the queue) ends some day.  Nobody is obliged to be killed
\* before that, neither a command nor the broker.
Fairness ==
  /\ WF_vars(BrokerUp \/ BrokerLoses) /\ WF_vars(IdleFires)
  /\ \A c \in Commands : /\ WF_vars(Acquire(c)) /\ WF_vars(Answered(c))
                         /\ WF_vars(Handle(c))
                         /\ WF_vars(pc[c] \in {"visiting", "running"} /\ Leave(c))

Spec     == Init /\ [][Next]_vars
FairSpec == Spec /\ Fairness

-----------------------------------------------------------------------------
(* Properties. *)

Messages == {ConnectMsg, FinMsg} \cup {AcqMsg(n) : n \in Wants}

TypeOK ==
  /\ broker \in {"down", "up"} /\ startups \in 0 .. Cardinality(Commands)
  /\ crashes \in 0 .. MaxCrashes
  /\ pool \in P!Pool /\ accepted \subseteq Commands /\ timer \in BOOLEAN
  /\ pc \in [Commands -> Stages] /\ lease \in [Commands -> 0 .. P!Budget]
  /\ linked \subseteq Commands
  /\ toBroker \in [Commands -> Seq(Messages)]
  /\ toClient \in [Commands -> Seq(0 .. P!Budget)]

\* A command runs with exactly the slots the pool has booked for it, unless the
\* broker that granted them has died: no slot is granted on before its command
\* is over, however long the close of its socket takes to arrive.
LeaseIsBacked ==
  \A c \in Commands :
    pc[c] = "running" /\ lease[c] > 0 /\ toClient[c] # <<Closed>> =>
      pool.granted[c] = lease[c]

\* Nothing is lost between the pool and the command: a client that holds slots
\* runs with them, has the grant line on its way, or has closed its socket; one
\* that asked and was read is known to the pool; nobody else is.
NoGrantLost ==
  /\ \A c \in P!Holders(pool) :
       \/ pc[c] = "running" /\ lease[c] = pool.granted[c]
       \/ pc[c] = "asked" /\ toClient[c] = <<pool.granted[c]>>
       \/ toBroker[c] = <<FinMsg>>
  /\ \A c \in accepted :
       pc[c] = "asked" /\ toBroker[c] = << >> =>
         c \in P!Waiting(pool) \cup P!Holders(pool)
  /\ P!Waiting(pool) \cup P!Holders(pool) \subseteq accepted

\* A broker that serves nobody has its idle timer armed, so that it goes away:
\* clearing it on every connection never leaves the broker running for good.
IdleTimerArmed == broker = "up" /\ accepted = {} => timer /\ P!Idle(pool)

\* Broker, sockets and commands agree at every moment.
SessionIsExact == TypeOK /\ LeaseIsBacked /\ NoGrantLost /\ IdleTimerArmed

\* Only a crash takes the broker away from a client that holds or awaits slots.
NeverShutsDownBusy ==
  [][broker = "up" /\ broker' = "down" /\ crashes' = crashes
       => P!Holders(pool) = {} /\ P!Waiting(pool) = {}]_vars

\* Every command that queues gets to run: granted, or unthrottled (fail open).
EveryCommandRuns ==
  \A c \in Commands : pc[c] \in {"new", "asked"} ~> pc[c] \in {"running", "over"}

\* When the commands are over the broker stops by itself.
BrokerStops == <>[](broker = "down")

\* Nobody waits for ever: neither a command for the broker nor the broker for
\* commands that are over.
SessionsEnd == EveryCommandRuns /\ BrokerStops

\* The queue keeps the promise of WorkerBudget.
Promise == INSTANCE WorkerBudget WITH
  Slots <- P!Budget,
  stage <- [c \in Commands |->
              IF pc[c] \in {"new", "retrying"} THEN "idle"
              ELSE IF pc[c] = "asked" THEN "waiting"
              ELSE IF pc[c] # "running" THEN "over"
              ELSE IF c \in linked /\ lease[c] > 0 THEN "leased" ELSE "unthrottled"],
  lease <- [c \in Commands |-> IF pc[c] = "running" /\ c \in linked THEN lease[c] ELSE 0]
ImplementsWorkerBudget == Promise!Spec

\* optimization.md:95, "Total workers across every session never exceed the
\* budget": the commands that run on granted slots, together.
TotalWithinBudget == P!Used([pool EXCEPT !.granted = lease]) <= P!Budget
=============================================================================
