---------------------------- MODULE ObjectStore -----------------------------
(***************************************************************************)
(* S3Store (packages/nopo/src/cache/stores/s3.ts): requests travel to a    *)
(* bucket that may answer, refuse, be slow or never be reached.  A client  *)
(* gives up after its timeout; what it sent may still arrive.              *)
(***************************************************************************)
EXTENDS Integers, FiniteSets

CONSTANTS
  Procs, Keys,
  Lives,      \* time to live each process gives its entries
  MaxTime,    \* bound: ticks of the clock
  MaxOps      \* bound: operations of a process

\* The bound on the clock leaves room for every entry's life.
ObjectStoreAssumption == MaxTime \in Nat /\ Lives \in [Procs -> 0 .. MaxTime]

VARIABLES
  object,     \* key -> the object in the bucket
  sent,       \* requests on their way to the bucket
  answers,    \* answers on their way back
  clock,
  call,       \* proc -> the request it is waiting for
  ops,
  result      \* proc -> what its last operation returned
vars == <<object, sent, answers, clock, call, ops, result>>

Said(r) == [key |-> r]
Nothing == Said("none")
Entries == {[key |-> k, expires |-> t, by |-> p] :
              k \in Keys, t \in 0 .. 2 * MaxTime, p \in Procs}

Request(p, op, e) == [id |-> <<p, ops[p] + 1>>, op |-> op, entry |-> e]
Answer(r, status, body) == [id |-> r.id, status |-> status, body |-> body]

Init ==
  /\ object = [k \in Keys |-> Nothing]
  /\ sent = {} /\ answers = {} /\ clock = 0
  /\ call = [p \in Procs |-> Nothing]
  /\ ops = [p \in Procs |-> 0]
  /\ result = [p \in Procs |-> Nothing]

isExpired(e) == e.expires < clock

ExpiresAt(p) == clock + Lives[p]

Requests(p) ==
  {Request(p, op, [key |-> k]) : op \in {"GET", "DELETE"}, k \in Keys}
  \cup {Request(p, "PUT", [key |-> k, expires |-> ExpiresAt(p), by |-> p]) : k \in Keys}

Send(p) ==
  /\ call[p] = Nothing /\ ops[p] < MaxOps
  /\ \E r \in Requests(p) : /\ sent' = sent \cup {r}
                            /\ call' = [call EXCEPT ![p] = r]
  /\ ops' = [ops EXCEPT ![p] = @ + 1]
  /\ result' = [result EXCEPT ![p] = Nothing]
  /\ UNCHANGED <<object, answers, clock>>

-----------------------------------------------------------------------------
(* The bucket. *)

Serve(r) ==
  LET k == r.entry.key IN
  /\ object' = CASE r.op = "PUT"    -> [object EXCEPT ![k] = r.entry]
                 [] r.op = "DELETE" -> [object EXCEPT ![k] = Nothing]
                 [] OTHER           -> object
  /\ answers' = answers \cup
       {Answer(r, IF r.op = "GET" /\ object[k] = Nothing THEN 404 ELSE 200, object[k])}

Arrive ==
  /\ \E r \in sent : /\ sent' = sent \ {r}
                     /\ \/ Serve(r)
                        \/ answers' = answers \cup {Answer(r, 500, Nothing)} /\ UNCHANGED object
  /\ UNCHANGED <<clock, call, ops, result>>

Lose ==
  /\ \/ \E r \in sent : sent' = sent \ {r} /\ UNCHANGED answers
     \/ \E a \in answers : answers' = answers \ {a} /\ UNCHANGED sent
  /\ UNCHANGED <<object, clock, call, ops, result>>

-----------------------------------------------------------------------------
(* The client. *)

\* get(): 404, errors and an expired entry are misses.
GetResult(a) == IF a.status = 200 /\ ~isExpired(a.body) THEN a.body ELSE Nothing

\* The expired object is deleted without waiting for it; this request has no
\* caller, and a number that no call has, so its answer is dropped.
CleanUp(r, a) ==
  IF r.op = "GET" /\ a.status = 200 /\ isExpired(a.body)
  THEN {[id |-> <<r.id[1], -r.id[2]>>, op |-> "DELETE", entry |-> [key |-> a.body.key]]} ELSE {}

PutResult(a) == IF a.status = 200 THEN Said("ok") ELSE Said("error")

Receive(p) ==
  /\ \E a \in answers :
       /\ call[p] # Nothing /\ a.id = call[p].id
       /\ answers' = answers \ {a}
       /\ sent' = sent \cup CleanUp(call[p], a)
       /\ result' = [result EXCEPT ![p] =
            CASE call[p].op = "GET" -> GetResult(a)
              [] call[p].op = "PUT" -> PutResult(a)
              [] OTHER              -> Said("ok")]
       /\ call' = [call EXCEPT ![p] = Nothing]
  /\ UNCHANGED <<object, clock, ops>>

TimeOut(p) ==
  /\ call[p] # Nothing
  /\ result' = [result EXCEPT ![p] = CASE call[p].op = "GET" -> Nothing
                                       [] call[p].op = "PUT" -> Said("error")
                                       [] OTHER              -> Said("ok")]
  /\ call' = [call EXCEPT ![p] = Nothing]
  /\ UNCHANGED <<object, sent, answers, clock, ops>>

Tick == clock < MaxTime /\ clock' = clock + 1
        /\ UNCHANGED <<object, sent, answers, call, ops, result>>

Next == \/ \E p \in Procs : Send(p) \/ Receive(p) \/ TimeOut(p)
        \/ Arrive \/ Lose \/ Tick

Spec == Init /\ [][Next]_vars

-----------------------------------------------------------------------------

TypeOK ==
  /\ object \in [Keys -> Entries \cup {Nothing}]
  /\ \A r \in sent : r.op # "PUT" \/ r.entry \in Entries
  /\ \A p \in Procs : call[p] # Nothing => call[p].id = <<p, ops[p]>>

\* What get() returns has not expired when it returns.
NothingExpiredIsReturned ==
  \A p \in Procs : result[p] = Nothing /\ result'[p] \in Entries
    => result'[p].expires >= clock

\* A put() that returns without an error has stored its entry: it is there or
\* a later request of somebody has taken or replaced it.
AcknowledgedWasStored ==
  \A p \in Procs : result[p] = Nothing /\ result'[p] = Said("ok") /\ call[p].op = "PUT"
    => \E a \in answers : a.id = call[p].id /\ a.status = 200

\* Every operation has returned ("implementations should timeout to avoid
\* blocking the run", store.ts).
NobodyWaits == \A p \in Procs : call[p] = Nothing
=============================================================================
