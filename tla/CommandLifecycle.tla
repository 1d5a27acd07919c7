-------------------------- MODULE CommandLifecycle --------------------------
(***************************************************************************)
(* Whole nopo commands (packages/nopo/src/index.ts, child-registry.ts, the *)
(* spawning of io.ts and lib.ts): a command asks the worker queue for      *)
(* slots, runs its steps as child processes, is stopped by its wall-clock  *)
(* limit or killed, and reports an exit code.  A step may itself be a nopo *)
(* command.  The queue is a SlotPool that sees a command go as soon as its *)
(* process does; QueueSession has the messages in between.                 *)
(***************************************************************************)
EXTENDS Integers, FiniteSets, Sequences

CONSTANTS
  Commands,
  Kind,         \* command -> "queued", "exempt" (skipQueue) or "plugin"
  StepsOf,      \* command -> the child processes it wants to run, disjoint
  Nested,       \* child -> the nopo command it is, as {command}, or {}
  Via,          \* child -> "exec" (lib.ts), "io" (io.spawn) or "raw" (untracked)
  Width,        \* concurrency of a command that has no grant
  RawBudget, Wants,
  MayTimeOut,   \* queued commands that have a wall-clock limit
  MayBeKilled,  \* commands may be killed from outside
  MayHang,      \* children that may run for ever
  BySignal      \* children may be ended by a signal from outside

Children == UNION {StepsOf[c] : c \in Commands}

LifecycleAssumption ==
  /\ \A c1, c2 \in Commands : c1 # c2 => StepsOf[c1] \cap StepsOf[c2] = {}
  /\ Kind \in [Commands -> {"queued", "exempt", "plugin"}]
  /\ Width \in Nat \ {0}

VARIABLES
  pool,      \* the broker's SlotPool
  stage,     \* command -> "new", "waiting", "running", "over"
  exit,      \* command -> exit code, -1 while it lives or when it was killed
  child,     \* child -> "none", "alive", "signalled", "ended"
  failure,   \* command -> what the first failed step's error says of its code
  ended      \* child -> how it ended: [code, signal]
vars == <<pool, stage, exit, child, failure, ended>>

P == INSTANCE SlotPool WITH Clients <- Commands

None == [code |-> -1, signal |-> FALSE]
Passed(ch) == ended[ch] = [code |-> 0, signal |-> FALSE]
Alive(ch) == child[ch] \in {"alive", "signalled"}
Signalled(ch) == child[ch] = "signalled"
Live(c) == {ch \in StepsOf[c] : Alive(ch)}

Init ==
  /\ pool = P!EmptyPool
  /\ stage = [c \in Commands |-> "new"]
  /\ exit = [c \in Commands |-> -1]
  /\ child = [ch \in Children |-> "none"]
  /\ failure = [c \in Commands |-> {}]
  /\ ended = [ch \in Children |-> None]

\* A nested command starts when its process does, the others at any time.
Carrier(c) == {ch \in Children : c \in Nested[ch]}

-----------------------------------------------------------------------------
(* main(). *)

Queues(c) == Kind[c] = "queued"

Main(c) ==
  /\ stage[c] = "new"
  /\ \A ch \in Carrier(c) : child[ch] = "alive"
  /\ IF Queues(c)
     THEN /\ \E want \in Wants : pool' = P!RequestSlots(pool, c, want)
          /\ stage' = [stage EXCEPT ![c] = "waiting"]
     ELSE /\ stage' = [stage EXCEPT ![c] = "running"]
          /\ UNCHANGED pool
  /\ UNCHANGED <<exit, child, failure, ended>>

Granted(c) ==
  /\ stage[c] = "waiting" /\ c \in P!Holders(pool)
  /\ stage' = [stage EXCEPT ![c] = "running"]
  /\ UNCHANGED <<pool, exit, child, failure, ended>>

\* NOPO_CONCURRENCY is the grant.
Workers(c) == IF c \in P!Holders(pool) THEN pool.granted[c] ELSE Width

Spawn(c, ch) ==
  /\ stage[c] = "running" /\ child[ch] = "none" /\ failure[c] = {}
  /\ Cardinality(Live(c)) < Workers(c)
  /\ child' = [child EXCEPT ![ch] = "alive"]
  /\ UNCHANGED <<pool, stage, exit, failure, ended>>

\* What the error of a failed child says its exit code was: 128 + n when it
\* comes by io.spawn, but (code || 0) when by exec.
ExitCodeOf(ch, end) ==
  IF ~end.signal THEN end.code ELSE IF Via[ch] = "exec" THEN 0 ELSE 137

FailureKept(c, ch, end) ==
  IF end = [code |-> 0, signal |-> FALSE] \/ failure[c] # {} THEN failure[c]
  ELSE {ExitCodeOf(ch, end)}

\* The child closes.  A signal that it has been sent ends it sooner or later.
Closes(c, ch) ==
  /\ Alive(ch)
  /\ \A n \in Nested[ch] : stage[n] = "over"
  /\ \E end \in [code : {0, 1}, signal : BOOLEAN] :
       /\ end.signal => Signalled(ch) \/ BySignal
       /\ \A n \in Nested[ch] : exit[n] # -1 =>
                end = [code |-> IF exit[n] = 0 THEN 0 ELSE 1, signal |-> FALSE]
       /\ ended' = [ended EXCEPT ![ch] = end]
       /\ failure' = [failure EXCEPT ![c] = FailureKept(c, ch, end)]
  /\ child' = [child EXCEPT ![ch] = "ended"]
  /\ UNCHANGED <<pool, stage, exit>>

\* The process is gone: the kernel closes its socket, and the broker takes the
\* slots back.
\* Broken: the slots stay with the dead.
LeavesKeeping(c, code) ==
  /\ stage' = [stage EXCEPT ![c] = "over"]
  /\ exit' = [exit EXCEPT ![c] = code]
  /\ UNCHANGED pool
Leaves(c, code) ==
  /\ stage' = [stage EXCEPT ![c] = "over"]
  /\ exit' = [exit EXCEPT ![c] = code]
  /\ pool' = P!ReleaseSlots(pool, c)

Finish(c) ==
  /\ stage[c] = "running" /\ Live(c) = {}
  /\ failure[c] # {} \/ \A ch \in StepsOf[c] : child[ch] = "ended"
  /\ Leaves(c, IF failure[c] = {} THEN 0 ELSE CHOOSE code \in failure[c] : TRUE)
  /\ UNCHANGED <<child, failure, ended>>

Registered(c) == {ch \in Live(c) : Via[ch] # "raw"}

\* killTrackedChildren(), lease.release(), io.exit(124), in one go.
TimeOut(c) ==
  /\ stage[c] = "running" /\ Queues(c) /\ c \in MayTimeOut
  /\ child' = [ch \in Children |-> IF ch \in Registered(c) THEN "signalled" ELSE child[ch]]
  /\ Leaves(c, 124)
  /\ UNCHANGED <<failure, ended>>

\* Killed from outside, or by the signal its own parent sent.
Dies(c) ==
  /\ stage[c] \in {"waiting", "running"}
  /\ MayBeKilled \/ \E ch \in Carrier(c) : Signalled(ch)
  /\ Leaves(c, -1)
  /\ UNCHANGED <<child, failure, ended>>

Next == \E c \in Commands :
          \/ Main(c) \/ Granted(c) \/ Finish(c) \/ TimeOut(c) \/ Dies(c)
          \/ \E ch \in StepsOf[c] : Spawn(c, ch) \/ Closes(c, ch)

Spec == Init /\ [][Next]_vars

-----------------------------------------------------------------------------

TypeOK ==
  /\ pool \in P!Pool
  /\ stage \in [Commands -> {"new", "waiting", "running", "over"}]
  /\ child \in [Children -> {"none", "alive", "signalled", "ended"}]
  /\ \A c \in Commands : Cardinality(failure[c]) <= 1

\* Slots are held by living queued commands only, and a queued command that
\* runs holds some.
SlotsAreOfTheLiving ==
  \A c \in Commands :
    /\ c \in P!Holders(pool) => stage[c] \in {"waiting", "running"} /\ Kind[c] = "queued"
    /\ stage[c] = "running" /\ Kind[c] = "queued" => c \in P!Holders(pool)

\* Worker processes of queued commands; a step that is a nopo command brings
\* its own workers.
WorkersAlive == {ch \in Children : Alive(ch) /\ Nested[ch] = {}
                  /\ \E c \in Commands : ch \in StepsOf[c] /\ Kind[c] = "queued"}

\* No command was stopped before its steps were over.
NobodyStopped == \A c \in Commands : stage[c] = "over" => exit[c] \in {0, 1, 137}

\* As long as every command ends by itself, the workers of all sessions together
\* stay within the budget, whatever ends of its children a command sees first
\* (optimization.md:95-96).
TotalWorkersWithinBudget == NobodyStopped => Cardinality(WorkersAlive) <= P!Budget

\* Exit code 0 means that every step has run and ended with code 0.
ExitIsHonest ==
  \A c \in Commands : exit[c] = 0 => \A ch \in StepsOf[c] : Passed(ch)

\* optimization.md:185-187: on a timeout nopo "SIGTERMs every in-flight
\* subprocess"; no step of it goes on undisturbed.
TimeoutReachesAll ==
  \A c \in Commands : exit[c] = 124 => \A ch \in StepsOf[c] : child[ch] # "alive"

\* No command waits: for slots, its children, or a nested command's slots.
NobodyWaits == \A c \in Commands : stage[c] \in {"new", "over"}
=============================================================================
