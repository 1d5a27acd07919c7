------------------------------ MODULE MCCommand ------------------------------
(***************************************************************************)
(* What a nopo command does while it runs, one component beside the other: *)
(* a behaviour is one of commands and their children, of a decision        *)
(* client, of the shared Vitest coordinator, of an invocation's hooks, of  *)
(* a cached plan or of a bucket's client.                                  *)
(***************************************************************************)
EXTENDS Integers, FiniteSets, TLC

CONSTANTS
  \* the commands that run side by side, and their queue
  Crowd, CrowdKinds, CrowdSteps, CrowdWidth, CrowdBudget, CrowdWants, CrowdLimits,
  \* a decision client, what it is asked and what it is answered
  Calls, Asked, bad, Bodies, ClientSettings, RequestBudget, Places,
  \* the requests to the coordinator, those with a signal, and its process's crashes
  TestRuns, Discoveries, ProcessCrashes,
  \* the projects and what is asked of them, and the bound on cleanups
  PluginProjects, BuildTargets, CommandLines, MaxCleanups

\* The model values of the instance below.
CONSTANTS a, b, e, n, a1, a2, b1, e1, n1, c1, c2, c3, r1, r2, r3, d1, p1, p2

VARIABLES
  part,   \* which component runs; the others are not there
  v1, v2, v3, v4, v5, v6, v7, v8, v9, v10, v11   \* its variables, in the order they are declared in
vars == <<part, v1, v2, v3, v4, v5, v6, v7, v8, v9, v10, v11>>

(* Two queued commands and one that is exempt from the queue, with a budget *)
(* of two slots, where everything may be killed, hang, be signalled and time *)
(* out; and a queued command, a step of which is a queued command.          *)
MCCrowd == {a, b, e}
MCKinds == [c \in MCCrowd |-> IF c = e THEN "exempt" ELSE "queued"]
MCSteps == [c \in MCCrowd |-> CASE c = a -> {a1, a2} [] c = b -> {b1} [] OTHER -> {e1}]
Family == {a, n}
FamilySteps == [c \in Family |-> IF c = a THEN {a1, a2} ELSE {n1}]
FamilyChildren == {a1, a2, n1}

(* Calls of a decision client with one place and a budget of two: a choice, *)
(* or a score and a noul; and answers to them that fit or do not.           *)
MCCalls == {c1, c2, c3}
Choice == [type |-> "choice", options |-> {0, 1}]
Score == [type |-> "score", options |-> {0, 1}]
Noul == [type |-> "noul", options |-> {}]
MCAsked == {("q" :> Choice), ("q" :> Score @@ "n" :> Noul)}
Answer(type, value, p0, legend) ==
  [type |-> type, value |-> value, legend |-> legend,
   probabilities |-> (0 :> p0 @@ 1 :> (1000 - p0))]
MCBodies ==
  {("q" :> Answer("choice", 1, 400, {})), ("q" :> Answer("choice", 2, 400, {})),
   ("q" :> Answer("score", 1, 400, {0, 1})),
   ("q" :> Answer("score", 0, 400, {0, 1}) @@ "n" :> Answer("noul", 0, 0, {}))}
MCSettings ==
  {[configured |-> TRUE, token |-> t, secret |-> s, fixture |-> f] :
     t \in BOOLEAN, s \in BOOLEAN, f \in {"none", "empty", "full"}}
  \cup {[configured |-> FALSE, token |-> FALSE, secret |-> FALSE, fixture |-> "none"]}

(* Three test runs and a discovery that may be aborted.                     *)
MCTestRuns == {r1, r2, r3, d1}

(* Projects of two plugins, with and without a map of runtimes, and every   *)
(* command on them.                                                         *)
MCTargets == {"t1", "t2"}
Plugin(name, hooks, overrides) ==
  [name |-> name, hooks |-> hooks, overrides |-> overrides, commands |-> <<"go">>,
   default |-> "none", fits |-> TRUE]
Docker ==
  Plugin("docker", {<<"pre", "build">>, <<"post", "build">>, <<"pre", "up">>, <<"pre", "down">>},
         {"build", "up"})
Compose ==
  Plugin("compose", {<<"pre", "build">>, <<"pre", "up">>, <<"post", "up">>, <<"pre", "down">>,
                     <<"pre", "status">>, <<"post", "down">>}, {"up", "down", "status"})
RuntimeMap == [default |-> "compose", prod |-> "docker"]
MCProjects ==
  {[refs |-> <<>>, runtimes |-> <<>>],
   [refs |-> <<Docker, Compose>>, runtimes |-> <<>>],
   [refs |-> <<Docker, Compose>>, runtimes |-> RuntimeMap],
   [refs |-> <<Compose, Docker>>, runtimes |-> RuntimeMap]}
Ask(command, runtime, build) == [command |-> command, runtime |-> runtime, build |-> build]
MCLines == {Ask("build", "none", FALSE), Ask("plugin", "none", FALSE)}
  \cup {Ask("up", r, x) : r \in {"none", "prod", "stage"}, x \in BOOLEAN}
  \cup {Ask(c, r, FALSE) : c \in {"down", "status"}, r \in {"none", "prod", "stage"}}

(* A plan of two nodes, the second a batch, cached in a store whose writes  *)
(* may never settle; and a bucket that may never answer.                    *)
SmallPlans == {(1 :> {} @@ 2 :> {1}), (1 :> {2} @@ 2 :> {})}
SmallBatch == (1 :> {} @@ 2 :> {"t1", "t2"})
Procs == {p1, p2}

-----------------------------------------------------------------------------
CrowdChildren == UNION {CrowdSteps[c] : c \in Crowd}
Crowded == INSTANCE CommandLifecycle WITH
  pool <- v1, stage <- v2, exit <- v3, child <- v4, failure <- v5, ended <- v6,
  Commands <- Crowd, Kind <- CrowdKinds, StepsOf <- CrowdSteps,
  Nested <- [x \in CrowdChildren |-> {}],
  Via <- [x \in CrowdChildren |-> "io"], Width <- CrowdWidth,
  RawBudget <- CrowdBudget, Wants <- CrowdWants, MayTimeOut <- CrowdLimits, MayBeKilled <- TRUE,
  MayHang <- CrowdChildren, BySignal <- TRUE
Nesting == INSTANCE CommandLifecycle WITH
  pool <- v1, stage <- v2, exit <- v3, child <- v4, failure <- v5, ended <- v6,
  Commands <- Family, Kind <- [c \in Family |-> "queued"],
  StepsOf <- FamilySteps,
  Nested <- [x \in FamilyChildren |-> IF x = a1 THEN {n} ELSE {}],
  Via <- [x \in FamilyChildren |-> "exec"], Width <- 2, RawBudget <- 1,
  Wants <- {1, 2}, MayTimeOut <- Family, MayBeKilled <- FALSE,
  MayHang <- FamilyChildren, BySignal <- FALSE
Decisions == INSTANCE DecisionClient WITH
  config <- v1, requests <- v2, active <- v3, call <- v4,
  Calls <- Calls, Requests <- Asked, Malformed <- bad, Bodies <- Bodies,
  Settings <- ClientSettings, maxRequests <- RequestBudget, maxConcurrency <- Places
Vitest == INSTANCE VitestSession WITH
  request <- v1, queue <- v2, active <- v3, ended <- v4, draining <- v5,
  worker <- v6, outbox <- v7, inbox <- v8, crashes <- v9, gone <- v10,
  Requests <- TestRuns, Abortable <- Discoveries, maxCrashes <- ProcessCrashes
Hooks == INSTANCE Invocation WITH
  project <- v1, ask <- v2, scripts <- v3, node <- v4, todo <- v5,
  failure <- v6, calls <- v7, cleanups <- v8, closing <- v9, closed <- v10,
  exit <- v11,
  Projects <- PluginProjects, Targets <- BuildTargets, Asks <- CommandLines,
  maxCleanups <- MaxCleanups
Cached == INSTANCE CachedPlan WITH
  needs <- v1, phase <- v2, at <- v3, found <- v4, sliced <- v5,
  adjusted <- v6, status <- v7, writes <- v8, recorded <- v9, stats <- v10,
  mode <- v11, Modes <- {"fail-fast", "keep-going"},
  NodeCount <- 2, Plans <- SmallPlans, Batch <- SmallBatch,
  LookupMayFail <- FALSE, NetworkStore <- TRUE
Bucket == INSTANCE ObjectStore WITH
  object <- v1, sent <- v2, answers <- v3, clock <- v4, call <- v5, ops <- v6,
  result <- v7,
  Procs <- Procs, Keys <- {"k1"},
  Lives <- [p \in Procs |-> IF p = p1 THEN 0 ELSE 1], MaxTime <- 1,
  MaxOps <- 1

Off == "off"

Init ==
  \/ /\ part = "crowd" /\ Crowded!Init
     /\ v7 = Off /\ v8 = Off /\ v9 = Off /\ v10 = Off /\ v11 = Off
  \/ /\ part = "nested" /\ Nesting!Init
     /\ v7 = Off /\ v8 = Off /\ v9 = Off /\ v10 = Off /\ v11 = Off
  \/ /\ part = "decision" /\ Decisions!Init
     /\ v5 = Off /\ v6 = Off /\ v7 = Off /\ v8 = Off /\ v9 = Off /\ v10 =
        Off /\ v11 = Off
  \/ /\ part = "vitest" /\ Vitest!Init
     /\ v11 = Off
  \/ /\ part = "hooks" /\ Hooks!Init
  \/ /\ part = "cached" /\ Cached!Init
  \/ /\ part = "bucket" /\ Bucket!Init
     /\ v8 = Off /\ v9 = Off /\ v10 = Off /\ v11 = Off

Next ==
  /\ UNCHANGED part
  /\ \/ part = "crowd" /\ Crowded!Next /\ UNCHANGED <<v7, v8, v9, v10, v11>>
     \/ part = "nested" /\ Nesting!Next /\ UNCHANGED <<v7, v8, v9, v10, v11>>
     \/ part = "decision" /\ Decisions!Next
        /\ UNCHANGED <<v5, v6, v7, v8, v9, v10, v11>>
     \/ part = "vitest" /\ Vitest!Next /\ UNCHANGED <<v11>>
     \/ part = "hooks" /\ Hooks!Next
     \/ part = "cached" /\ Cached!Next
     \/ part = "bucket" /\ Bucket!Next /\ UNCHANGED <<v8, v9, v10, v11>>

Spec == Init /\ [][Next]_vars

(* What goes on by itself.  In a command: event loops turn, timers fire,    *)
(* signals are delivered, and children that were signalled end; nobody has  *)
(* to be killed and no child has to end.  In the decision client and the    *)
(* bucket: a timer that is due fires and an await whose promise has settled *)
(* resumes; neither service need answer.  In the coordinator: callbacks     *)
(* run, close() has its timer, and a process that is killed or shut down    *)
(* ends; a test run may never end.  In the cached plan, lookups, handlers   *)
(* and the loop go on; a write may never settle.                            *)
nestedVars == Nesting!vars
decisionVars == Decisions!vars
bucketVars == Bucket!vars
vitestVars == Vitest!vars
hooksVars == Hooks!vars
cachedVars == Cached!vars

CommandsGoOn ==
  \A c \in Family :
    /\ WF_nestedVars(part = "nested" /\ (Nesting!Granted(c) \/ Nesting!Finish(c)))
    /\ WF_nestedVars(part = "nested" /\ Nesting!TimeOut(c))
    /\ WF_nestedVars(part = "nested" /\ Nesting!Carrier(c) # {} /\ Nesting!Main(c))
    /\ WF_nestedVars(part = "nested" /\ (\E x \in Nesting!Carrier(c) : Nesting!Signalled(x))
               /\ Nesting!Dies(c))
    /\ \A x \in FamilySteps[c] :
         /\ WF_nestedVars(part = "nested" /\ Nesting!Spawn(c, x))
         /\ WF_nestedVars(part = "nested" /\ Nesting!Signalled(x) /\ Nesting!Closes(c, x))
ServicesAreTimed ==
  /\ \A c \in Calls : /\ WF_decisionVars(part = "decision" /\ Decisions!timeout(c))
                      /\ WF_decisionVars(part = "decision" /\ Decisions!returns(c))
  /\ \A p \in Procs : WF_bucketVars(part = "bucket" /\ Bucket!TimeOut(p))
CoordinatorGoesOn ==
  /\ WF_vitestVars(part = "vitest" /\ Vitest!onMessage)
  /\ WF_vitestVars(part = "vitest" /\ Vitest!exited)
  /\ WF_vitestVars(part = "vitest" /\ Vitest!closeTimer)
  /\ WF_vitestVars(part = "vitest" /\ Vitest!handle)
  /\ WF_vitestVars(part = "vitest" /\ Vitest!shutdown)
  /\ WF_vitestVars(part = "vitest" /\ Vitest!dies)
PlansGoOn ==
  /\ WF_hooksVars(part = "hooks" /\ Hooks!Next)
  /\ WF_cachedVars(part = "cached" /\ Cached!Loop)
  /\ \A k \in 1 .. 2 : WF_cachedVars(part = "cached" /\ Cached!NodeMoves(k))

FairSpec == Spec /\ CommandsGoOn /\ ServicesAreTimed /\ CoordinatorGoesOn /\ PlansGoOn


-----------------------------------------------------------------------------
ASSUME CommandAssumptions ==
  /\ Crowded!LifecycleAssumption /\ Nesting!LifecycleAssumption
  /\ Vitest!RequestsAssumption /\ Hooks!InvocationAssumption

\* The pool's assumptions on the commands of a crowd, whose steps are as many as
\* a plan names.
ASSUME CrowdAssumption ==
  /\ IsFiniteSet(Crowd) /\ CrowdBudget \in Int /\ CrowdWants \subseteq Int
  /\ \A c \in Crowd : IsFiniteSet(CrowdSteps[c])

\* maxRequests and maxConcurrency are positive integers (decisions/index.ts:32-33);
\* that they are no less than 0 is all that counts.
ASSUME DecisionAssumption ==
  IsFiniteSet(Calls) /\ RequestBudget \in Nat /\ Places \in Nat

ASSUME SessionAssumption ==
  /\ IsFiniteSet(TestRuns) /\ ProcessCrashes \in Nat
  /\ "none" \notin TestRuns /\ "close" \notin TestRuns

\* Slots are held by living queued commands only; as long as nobody is stopped
\* the workers of all of them fit the budget; exit code 0 means that every step
\* passed; and a timeout leaves no tracked child undisturbed.
CommandsStayInBudget ==
  part = "crowd" =>
    /\ Crowded!TypeOK /\ Crowded!SlotsAreOfTheLiving /\ Crowded!TotalWorkersWithinBudget
    /\ Crowded!ExitIsHonest /\ Crowded!TimeoutReachesAll

\* The places in use are the calls that wait, though the work of those that
\* timed out goes on; the service sees no more requests than the limits say;
\* and an accepted answer answers every question that was asked.
AnswersAreBounded ==
  part = "decision" =>
    /\ Decisions!TypeOK /\ Decisions!PlacesArePending
    /\ Decisions!RequestsAreBounded /\ Decisions!BudgetIsSpent /\ Decisions!AnswersFit

\* What comes too late changes nothing: nothing is sent for a call that timed
\* out, its late answer is dropped, and a request that was aborted while it
\* waited is never sent to the test process.
LateNewsIsIgnored ==
  [][/\ part = "decision" => Decisions!NothingSentLate /\ Decisions!FirstResultStands
     /\ part = "vitest" => Vitest!AbortedNeverSent]_vars

\* The test process has one request at a time from the send to the answer, what
\* it writes is credited to that request, no waiting request is forgotten when
\* the process crashes or is killed, and each such end fails one request.
OneRunAtATime ==
  part = "vitest" =>
    /\ Vitest!TypeOK /\ Vitest!OneAtATime /\ Vitest!OutputIsItsOwn
    /\ Vitest!NoneForgotten /\ Vitest!CrashFailsOne

\* Hooks run in the order of phases and declarations and none after a failure;
\* exit code 0 means that all of them ran; the runtime's plugin, and it alone,
\* brings a project up or down; and no cleanup runs twice or is left out.
HooksRunInOrder ==
  part = "hooks" =>
    /\ Hooks!TypeOK /\ Hooks!InOrder /\ Hooks!NothingAfterFailure
    /\ Hooks!ZeroMeansDone /\ Hooks!RuntimesOwnerActs /\ Hooks!CleansOnce

\* In the end nobody waits: every command and invocation that began is over,
\* with a step that asks for the slots of its own parent, every decision and
\* every request to a bucket has its result, every test run is settled but
\* behind one that never ends, no coordinator outlives nopo, and a plan returns
\* though its cache writes never settle.
EverythingEnds ==
  <>[](/\ part = "nested" => Nesting!NobodyWaits
       /\ part = "decision" => Decisions!NobodyWaits
       /\ part = "bucket" => Bucket!NobodyWaits
       /\ part = "vitest" => Vitest!InTheEnd
       /\ part = "hooks" => Hooks!HasEnded
       /\ part = "cached" => Cached!HasReturned)
=============================================================================
