--------------------------- MODULE BrokerElection ---------------------------
(***************************************************************************)
(* Who owns the socket path: listen() and shutdown() of queue-broker.ts    *)
(* and the spawning of brokers by queue-client.ts, one system call at a    *)
(* time.  A path names a file, not a broker: it keeps naming the socket of *)
(* a broker that died, and unlink removes whatever it names by then.       *)
(*                                                                         *)
(* External: bind fails with EADDRINUSE when the path exists; a connection *)
(* is accepted only by a socket that listens; closing a server unlinks its *)
(* path by name (libuv does so before the socket itself is closed).        *)
(***************************************************************************)
EXTENDS Integers, FiniteSets, TLAPS

CONSTANTS Brokers,     \* broker processes that may be spawned
          Ghost,       \* a broker that died before the story begins
          None,        \* the path does not exist
          MayStop,     \* the brokers that may reach their idle timeout
          MaxCrashes,  \* bound: how many brokers may be killed
          AtomicListen \* nobody connects between a bind and its listen

ASSUME GhostAssumption == Ghost \notin Brokers
ASSUME NoneAssumption == None \notin Brokers \cup {Ghost}
ASSUME MayStopAssumption == MayStop \subseteq Brokers
ASSUME CrashesAssumption == MaxCrashes \in Nat
ASSUME AtomicListenAssumption == AtomicListen \in BOOLEAN

VARIABLES path,       \* None, or the broker whose bind created the file
          pc,         \* where each broker is
          crashes,
          contended,  \* history: a broker was spawned while another was
                      \* starting or stopping
          departed    \* history: a broker was killed or went idle
vars == <<path, pc, crashes, contended, departed>>

Starting == {"spawned", "probing", "unlinking", "rebinding", "bound"}
Stopping == {"closing"}
Stages   == {"unborn", "serving", "exited"} \cup Starting \cup Stopping

In(S)     == {b \in Brokers : pc[b] \in S}
Reachable == path \in In({"serving"})
Goto(b, l) == pc' = [pc EXCEPT ![b] = l]
Own(b)     == path' = b /\ Goto(b, IF AtomicListen THEN "serving" ELSE "bound")

Init == /\ path \in {None, Ghost}    \* a fresh path, or a stale file
        /\ pc = [b \in Brokers |-> "unborn"]
        /\ crashes = 0
        /\ contended = FALSE /\ departed = FALSE

\* A client that fails to connect spawns a broker, which starts when it starts.
Spawn(b) ==
  /\ pc[b] = "unborn" /\ ~Reachable
  /\ Goto(b, "spawned")
  /\ contended' = (contended \/ In(Starting \cup Stopping) # {})
  /\ UNCHANGED <<path, crashes, departed>>

\* server.listen(socketPath), first attempt.
\* Broken: EADDRINUSE goes unnoticed.
BindRegardless(b) ==
  /\ pc[b] = "spawned"
  /\ path' = (IF path = None THEN b ELSE path) /\ Goto(b, "bound")
  /\ UNCHANGED <<crashes, contended, departed>>
Bind(b) ==
  /\ pc[b] = "spawned"
  /\ IF path = None THEN Own(b)
     ELSE path' = path /\ Goto(b, "probing")
  /\ UNCHANGED <<crashes, contended, departed>>

Listen(b) ==
  /\ pc[b] = "bound"
  /\ Goto(b, "serving")
  /\ UNCHANGED <<path, crashes, contended, departed>>

\* EADDRINUSE: connect to see whether the owner lives.
\* Broken: a stale file makes the broker give up.
ProbeTimidly(b) ==
  /\ pc[b] = "probing"
  /\ Goto(b, "exited")
  /\ UNCHANGED <<path, crashes, contended, departed>>
Probe(b) ==
  /\ pc[b] = "probing"
  /\ Goto(b, IF Reachable THEN "exited" ELSE "unlinking")
  /\ UNCHANGED <<path, crashes, contended, departed>>

\* The probe failed: the file is taken for stale.
Unlink(b) ==
  /\ pc[b] = "unlinking"
  /\ path' = None /\ Goto(b, "rebinding")
  /\ UNCHANGED <<crashes, contended, departed>>

\* server.listen(socketPath), second and last attempt.
\* Broken: after the cleanup the broker does not bind again.
RebindNever(b) ==
  /\ pc[b] = "rebinding"
  /\ path' = path /\ Goto(b, "exited")
  /\ UNCHANGED <<crashes, contended, departed>>
Rebind(b) ==
  /\ pc[b] = "rebinding"
  /\ IF path = None THEN Own(b)
     ELSE path' = path /\ Goto(b, "exited")
  /\ UNCHANGED <<crashes, contended, departed>>

CloseServer(b) ==
  /\ b \in MayStop /\ pc[b] = "serving"
  /\ path' = None /\ Goto(b, "closing")
  /\ departed' = TRUE
  /\ UNCHANGED <<crashes, contended>>

UnlinkOwn(b) ==
  /\ pc[b] = "closing"
  /\ path' = None /\ Goto(b, "exited")
  /\ UNCHANGED <<crashes, contended, departed>>

\* The process is killed: its sockets close, its file stays.
Crash(b) ==
  /\ pc[b] \notin {"unborn", "exited"} /\ crashes < MaxCrashes
  /\ crashes' = crashes + 1 /\ Goto(b, "exited")
  /\ departed' = TRUE
  /\ UNCHANGED <<path, contended>>

Startup(b) == Bind(b) \/ Listen(b) \/ Probe(b) \/ Unlink(b) \/ Rebind(b)

Next == \E b \in Brokers :
          Spawn(b) \/ Startup(b) \/ CloseServer(b) \/ UnlinkOwn(b) \/ Crash(b)

\* A spawned process runs its start-up to the end.
Fairness == \A b \in Brokers : WF_vars(Startup(b))

Spec     == Init /\ [][Next]_vars
FairSpec == Spec /\ Fairness

-----------------------------------------------------------------------------
(* Properties. *)

\* The variables have their types, and the file at the path is that of a dead
\* broker or of one that has bound it and has not begun to shut down.
TypeOK == /\ path \in {None, Ghost} \cup In({"bound", "serving", "exited"})
          /\ pc \in [Brokers -> Stages]
          /\ crashes \in 0 .. MaxCrashes
          /\ contended \in BOOLEAN /\ departed \in BOOLEAN

\* As long as no broker is spawned while another one starts or stops, at most
\* one broker serves, and it is the one the path leads to, whatever crashes and
\* stale files there are (queue-broker.ts:43-47).
UncontendedIsSole == TypeOK /\ (~contended => \A b \in In({"serving"}) : path = b)

\* The spawn race leaves a broker that clients reach: when every contender is
\* through, and nobody was killed or went idle, the path leads to a broker that
\* serves ("the winner is serving", queue-broker.ts:272).
RaceLeavesServer ==
  /\ In(Starting) = {} /\ In({"serving", "exited"}) # {}
  /\ ~departed
  => Reachable

\* A client that spawned a broker finds one before long, its own or the winner,
\* unless one is killed or goes idle meanwhile.
SpawnLeadsToService ==
  \A b \in Brokers : pc[b] = "spawned" ~> (Reachable \/ departed)

\* queue-client.ts:155-157, "The spawn race (two clients spawning at once) is
\* harmless: only one wins the socket bind, the other exits quietly".
OnlyOneServes == Cardinality(In({"serving"})) <= 1

-----------------------------------------------------------------------------
(* Proofs, for every set of brokers and every bound on crashes. *)

Early == {"unborn", "spawned"}
Alive == Starting \cup Stopping \cup {"serving"}

\* While nothing has contended, one broker at a time is between its start and
\* its exit, and what it has bound it has kept.
Sole == ~contended => /\ \A b, c \in In(Alive) : b = c
                      /\ \A b \in In({"bound", "serving"}) : path = b

\* What the path says of the start-ups, as long as every broker lives: a path
\* that is gone has somebody about to bind it.
Path ==
  ~departed =>
    /\ In({"closing"}) = {}
    /\ path = None => In({"rebinding"}) # {} \/ \A b \in Brokers : pc[b] \in Early
    /\ path = Ghost => \A b \in Brokers : pc[b] \in Early \cup {"probing", "unlinking"}
    /\ path \in Brokers => pc[path] \in {"bound", "serving"}

Inv == TypeOK /\ Sole /\ Path

LEMMA InitInv == Init => Inv
<1> SUFFICES ASSUME Init PROVE Inv
  OBVIOUS
<1>1. \A b \in Brokers : pc[b] = "unborn"
  BY DEF Init
<1>2. TypeOK
  <2>1. path \in {None, Ghost} /\ pc \in [Brokers -> Stages]
    BY DEF Init, Stages
  <2>2. crashes \in 0 .. MaxCrashes
    BY CrashesAssumption DEF Init
  <2>3. contended \in BOOLEAN /\ departed \in BOOLEAN
    BY Zenon DEF Init
  <2> QED
    BY <2>1, <2>2, <2>3 DEF TypeOK
<1>3. Sole
  BY <1>1 DEF Sole, In, Alive, Starting, Stopping
<1>4. Path
  BY <1>1, GhostAssumption, NoneAssumption DEF Init, Path, In, Early
<1> QED
  BY <1>2, <1>3, <1>4 DEF Inv

\* Every step of a broker keeps the types.
LEMMA NextType == TypeOK /\ [Next]_vars => TypeOK'
<1> SUFFICES ASSUME TypeOK, [Next]_vars PROVE TypeOK'
  OBVIOUS
<1> USE GhostAssumption, NoneAssumption, CrashesAssumption
    DEF TypeOK, In, Stages, Starting, Stopping, Goto
<1>1. CASE UNCHANGED vars
  BY <1>1 DEF vars
<1>2. ASSUME NEW b \in Brokers, Spawn(b) PROVE TypeOK'
  BY <1>2 DEF Spawn
<1>3. ASSUME NEW b \in Brokers, Startup(b) PROVE TypeOK'
  BY <1>3 DEF Startup, Bind, Listen, Probe, Unlink, Rebind, Own
<1>4. ASSUME NEW b \in Brokers, CloseServer(b) \/ UnlinkOwn(b) PROVE TypeOK'
  BY <1>4 DEF CloseServer, UnlinkOwn
<1>5. ASSUME NEW b \in Brokers, Crash(b) PROVE TypeOK'
  BY <1>5 DEF Crash
<1> QED
  BY <1>1, <1>2, <1>3, <1>4, <1>5 DEF Next

\* A spawn that meets nobody starting or stopping meets nobody serving either,
\* since whoever serves is at the path; and a sole broker is disturbed by none.
LEMMA NextSole == TypeOK /\ Sole /\ [Next]_vars => Sole'
<1> SUFFICES ASSUME TypeOK, Sole, [Next]_vars, ~contended' PROVE Sole'
  BY DEF Sole
<1> USE NoneAssumption DEF TypeOK, Sole, In, Alive, Stages, Starting, Stopping, Goto
<1>1. CASE UNCHANGED vars
  BY <1>1 DEF vars
<1>2. ASSUME NEW b \in Brokers, Spawn(b) PROVE Sole'
  <2>1. ~contended /\ In(Alive) = {}
    BY <1>2 DEF Spawn, Reachable
  <2> QED
    BY <1>2, <2>1 DEF Spawn
<1>3. ASSUME NEW b \in Brokers, Startup(b) PROVE Sole'
  BY <1>3 DEF Startup, Bind, Listen, Probe, Unlink, Rebind, Own
<1>4. ASSUME NEW b \in Brokers, CloseServer(b) \/ UnlinkOwn(b) PROVE Sole'
  BY <1>4 DEF CloseServer, UnlinkOwn
<1>5. ASSUME NEW b \in Brokers, Crash(b) PROVE Sole'
  BY <1>5 DEF Crash
<1> QED
  BY <1>1, <1>2, <1>3, <1>4, <1>5 DEF Next

\* A start-up leaves the path to somebody who has bound it or is about to.
LEMMA NextPath == TypeOK /\ Path /\ [Next]_vars => Path'
<1> SUFFICES ASSUME TypeOK, Path, [Next]_vars, ~departed' PROVE Path'
  BY DEF Path
<1> USE GhostAssumption, NoneAssumption
    DEF TypeOK, Path, In, Early, Stages, Starting, Stopping, Goto
<1>1. CASE UNCHANGED vars
  BY <1>1 DEF vars
<1>2. ASSUME NEW b \in Brokers, Spawn(b) PROVE Path'
  BY <1>2 DEF Spawn
<1>3. ASSUME NEW b \in Brokers, Bind(b) PROVE Path'
  BY <1>3 DEF Bind, Own
<1>4. ASSUME NEW b \in Brokers, Listen(b) PROVE Path'
  BY <1>4 DEF Listen
<1>5. ASSUME NEW b \in Brokers, Probe(b) PROVE Path'
  BY <1>5 DEF Probe, Reachable
<1>6. ASSUME NEW b \in Brokers, Unlink(b) PROVE Path'
  BY <1>6 DEF Unlink
<1>7. ASSUME NEW b \in Brokers, Rebind(b) PROVE Path'
  BY <1>7 DEF Rebind, Own
<1>8. ASSUME NEW b \in Brokers, CloseServer(b) \/ UnlinkOwn(b) \/ Crash(b) PROVE Path'
  BY <1>8 DEF CloseServer, UnlinkOwn, Crash
<1> QED
  BY <1>1, <1>2, <1>3, <1>4, <1>5, <1>6, <1>7, <1>8 DEF Next, Startup

\* The inductive invariant of the election.
THEOREM ElectionInvariant == Spec => []Inv
<1>1. Inv /\ [Next]_vars => Inv'
  BY NextType, NextSole, NextPath DEF Inv
<1> QED
  BY InitInv, <1>1, PTL DEF Spec

\* listen(): without a race, one broker serves at most, and clients reach it
\* (queue-broker.ts:43-47), whatever crashed before.
THEOREM UncontendedStaysSole == Spec => []UncontendedIsSole
<1>1. Inv => UncontendedIsSole
  BY DEF Inv, Sole, UncontendedIsSole, In
<1> QED
  BY ElectionInvariant, <1>1, PTL

\* The race among any number of spawned brokers ends with one that clients
\* reach (queue-broker.ts:272), though the two steps "unlink" and "bind" of
\* several of them interleave.
THEOREM RaceAlwaysLeavesServer == Spec => []RaceLeavesServer
<1>1. Inv => RaceLeavesServer
  <2> SUFFICES ASSUME Inv, In(Starting) = {}, In({"serving", "exited"}) # {}, ~departed
               PROVE  Reachable
    BY DEF RaceLeavesServer
  <2>1. path \in Brokers
    BY DEF Inv, TypeOK, Path, In, Starting, Early
  <2> QED
    BY <2>1 DEF Inv, Path, Reachable, In, Starting
<1> QED
  BY ElectionInvariant, <1>1, PTL
=============================================================================
