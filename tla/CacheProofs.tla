----------------------------- MODULE CacheProofs -----------------------------
(***************************************************************************)
(* Proofs about MCCache: of every step cache, cached plan, cache           *)
(* directory, bucket and .env, whatever the project, the plans, the        *)
(* settings and the number of processes.  Each component has an inductive  *)
(* invariant of its own, about the variables of MCCache that stand for its *)
(* own.                                                                    *)
(***************************************************************************)
EXTENDS MCCache, WellFoundedInduction, FiniteSetTheorems, SequenceTheorems, TLAPS

-----------------------------------------------------------------------------
(* Induction over the natural numbers in a form that first-order provers   *)
(* can use: the induction predicate is a SET of numbers.                   *)

\* Every nonempty set of naturals has a least element.
LEMMA LeastElement ==
  ASSUME NEW T, T \subseteq Nat, T # {}
  PROVE  \E x \in T : \A y \in T : x <= y
<1>1. IsWellFoundedOn(OpToRel(<, Nat), Nat)
  BY NatLessThanWellFounded
<1>2. PICK x \in T : \A y \in T : <<y, x>> \notin OpToRel(<, Nat)
  BY <1>1, WFMin
<1>3. \A y \in T : ~(y < x)
  BY <1>2 DEF OpToRel
<1> QED
  BY <1>3

\* A set that holds 0 and is closed under successor holds every natural.
LEMMA SetInduction ==
  ASSUME NEW S, 0 \in S, \A n \in Nat : n \in S => n + 1 \in S
  PROVE  Nat \subseteq S
<1> DEFINE T == Nat \ S
<1> SUFFICES ASSUME T # {} PROVE FALSE
  OBVIOUS
<1>1. PICK x \in T : \A y \in T : x <= y
  BY LeastElement
<1>2. x # 0 /\ x - 1 \in Nat /\ x - 1 \notin T
  BY <1>1
<1> QED
  BY <1>1, <1>2

\* Induction up to a bound: the form the loop lemmas use.
LEMMA BoundedInduction ==
  ASSUME NEW n \in Nat, NEW S, 0 \in S,
         \A k \in 0 .. (n - 1) : k \in S => k + 1 \in S
  PROVE  0 .. n \subseteq S
<1> DEFINE T == {k \in Nat : k <= n => k \in S}
<1>1. 0 \in T
  OBVIOUS
<1>2. \A k \in Nat : k \in T => k + 1 \in T
  OBVIOUS
<1>3. Nat \subseteq T
  BY <1>1, <1>2, SetInduction
<1> QED
  BY <1>3

-----------------------------------------------------------------------------
(* The cache directory. *)

file   == v2
temp   == v3
time   == v5
pc     == v6
arg    == v7
fetched == v9

USE DEF file, temp, time, pc, arg, fetched

LEMMA FileAssumption ==
  MaxTime \in Nat /\ Lives \in [Procs -> 0 .. MaxTime] /\ Cleaning \subseteq Procs
BY CacheAssumptions DEF Files!FileStoreAssumption

Dropping == {"read", "unlinkExpired", "unlink"}
Putting  == {"mkdir", "open", "write", "rename", "unlinkTemp"}
Calls    == Dropping \cup Putting
              \cup {"idle", "dead", "writeProbe", "unlinkProbe", "cleanRead", "rmdir"}

\* Who is about to drop a key knows it; who is putting has the whole entry and,
\* from opening its temporary file on, keeps the directory from being removed; and
\* what it is about to rename is that entry, since the temporary file is its own.
FileInv ==
  /\ Files!TypeOK /\ Files!TempsHaveOwners
  /\ time \in 0 .. MaxTime
  /\ pc \in [Procs -> Calls] /\ DOMAIN arg = Procs /\ DOMAIN fetched = Procs
  /\ \A p \in Procs :
       /\ pc[p] \in Dropping => arg[p].key \in Keys
       /\ pc[p] \in Putting => arg[p] \in Files!Entries
       /\ pc[p] = "write" => temp[Files!MyTemp(p)] = Files!Torn
       /\ pc[p] = "rename" => temp[Files!MyTemp(p)] = arg[p]

\* Entries are whole, and what a call says is none.
LEMMA EntryFields ==
  ASSUME NEW x \in Files!Entries
  PROVE  /\ x.key \in Keys /\ x.expires \in 0 .. 2 * MaxTime /\ x.by \in Procs
         /\ \A r : x # Files!Said(r)
<1>1. PICK k \in Keys, t \in 0 .. 2 * MaxTime, q \in Procs :
        x = [key |-> k, expires |-> t, by |-> q]
  BY DEF Files!Entries
<1>2. ASSUME NEW r PROVE x # Files!Said(r)
  <2>1. "by" \in DOMAIN x /\ "by" \notin DOMAIN Files!Said(r)
    BY <1>1 DEF Files!Said
  <2> QED
    BY <2>1
<1> QED
  BY <1>1, <1>2

LEMMA FileInit == Files!Init => FileInv
<1> SUFFICES ASSUME Files!Init PROVE FileInv
  OBVIOUS
<1>1. \A x : x \in Keys \X Procs => temp[x] = Files!Nothing
  BY DEF Files!Init
<1>2. Files!TypeOK /\ Files!TempsHaveOwners
  BY <1>1 DEF Files!Init, Files!TypeOK, Files!TempsHaveOwners
<1>3. pc = [p \in Procs |-> "idle"] /\ arg = [p \in Procs |-> Files!Nothing]
      /\ fetched = [p \in Procs |-> Files!Nothing] /\ time = 0
  BY DEF Files!Init
<1> QED
  BY <1>2, <1>3, FileAssumption DEF FileInv, Calls, Dropping, Putting

\* Every system call, crash and tick keeps the invariant.
LEMMA FileStep ==
  ASSUME FileInv, Files!Next
  PROVE  FileInv'
<1> USE FileAssumption, EntryFields
        DEF FileInv, Calls, Dropping, Putting, Files!TypeOK, Files!Go, Files!Done, Files!MyTemp
<1>1. ASSUME NEW p \in Procs, Files!Call(p) PROVE FileInv'
  BY <1>1 DEF Files!Call, Files!Begin, Files!TempsHaveOwners, Files!Entries
<1>2. ASSUME NEW p \in Procs, Files!Get(p) PROVE FileInv'
  <2>1. Files!TypeOK'
    BY <1>2 DEF Files!Get, Files!TempsHaveOwners
  <2>2. Files!TempsHaveOwners'
    BY <1>2 DEF Files!Get, Files!TempsHaveOwners
  <2> QED
    BY <1>2, <2>1, <2>2 DEF Files!Get
<1>3. ASSUME NEW p \in Procs, Files!UnlinkExpired(p) PROVE FileInv'
  <2>1. Files!TypeOK'
    BY <1>3 DEF Files!UnlinkExpired, Files!TempsHaveOwners
  <2>2. Files!TempsHaveOwners'
    BY <1>3 DEF Files!UnlinkExpired, Files!TempsHaveOwners
  <2> QED
    BY <1>3, <2>1, <2>2 DEF Files!UnlinkExpired
<1>4. ASSUME NEW p \in Procs, Files!EnsureDir(p) PROVE FileInv'
  <2>1. Files!TypeOK'
    BY <1>4 DEF Files!EnsureDir, Files!TempsHaveOwners
  <2>2. Files!TempsHaveOwners'
    BY <1>4 DEF Files!EnsureDir, Files!TempsHaveOwners
  <2> QED
    BY <1>4, <2>1, <2>2 DEF Files!EnsureDir
<1>5. ASSUME NEW p \in Procs, Files!OpenTemp(p) PROVE FileInv'
  <2>1. Files!TypeOK'
    BY <1>5 DEF Files!OpenTemp, Files!TempsHaveOwners
  <2>2. Files!TempsHaveOwners'
    BY <1>5 DEF Files!OpenTemp, Files!TempsHaveOwners
  <2> QED
    BY <1>5, <2>1, <2>2 DEF Files!OpenTemp
<1>6. ASSUME NEW p \in Procs, Files!WriteTemp(p) PROVE FileInv'
  <2>1. Files!TypeOK'
    <3>1. Files!MyTemp(p) \in Keys \X Procs /\ temp[Files!MyTemp(p)] # Files!Nothing
      BY <1>6 DEF Files!WriteTemp, Files!Torn, Files!Nothing, Files!Said
    <3> QED
      BY <1>6, <3>1 DEF Files!WriteTemp
  <2>2. Files!TempsHaveOwners'
    BY <1>6 DEF Files!WriteTemp, Files!TempsHaveOwners
  <2> QED
    BY <1>6, <2>1, <2>2 DEF Files!WriteTemp
<1>7. ASSUME NEW p \in Procs, Files!Rename(p) PROVE FileInv'
  <2>1. Files!TypeOK'
    BY <1>7 DEF Files!Rename, Files!TempsHaveOwners
  <2>2. Files!TempsHaveOwners'
    BY <1>7 DEF Files!Rename, Files!TempsHaveOwners
  <2> QED
    BY <1>7, <2>1, <2>2 DEF Files!Rename
<1>8. ASSUME NEW p \in Procs, Files!UnlinkTemp(p) PROVE FileInv'
  <2>1. Files!TypeOK'
    BY <1>8 DEF Files!UnlinkTemp, Files!TempsHaveOwners
  <2>2. Files!TempsHaveOwners'
    BY <1>8 DEF Files!UnlinkTemp, Files!TempsHaveOwners
  <2> QED
    BY <1>8, <2>1, <2>2 DEF Files!UnlinkTemp
<1>9. ASSUME NEW p \in Procs, Files!Delete(p) PROVE FileInv'
  <2>1. Files!TypeOK'
    BY <1>9 DEF Files!Delete, Files!TempsHaveOwners
  <2>2. Files!TempsHaveOwners'
    BY <1>9 DEF Files!Delete, Files!TempsHaveOwners
  <2> QED
    BY <1>9, <2>1, <2>2 DEF Files!Delete
<1>10. ASSUME NEW p \in Procs, Files!WriteProbe(p) PROVE FileInv'
  <2>1. Files!TypeOK'
    BY <1>10 DEF Files!WriteProbe, Files!TempsHaveOwners
  <2>2. Files!TempsHaveOwners'
    BY <1>10 DEF Files!WriteProbe, Files!TempsHaveOwners
  <2> QED
    BY <1>10, <2>1, <2>2 DEF Files!WriteProbe
<1>11. ASSUME NEW p \in Procs, Files!UnlinkProbe(p) PROVE FileInv'
  <2>1. Files!TypeOK'
    BY <1>11 DEF Files!UnlinkProbe, Files!TempsHaveOwners
  <2>2. Files!TempsHaveOwners'
    BY <1>11 DEF Files!UnlinkProbe, Files!TempsHaveOwners
  <2> QED
    BY <1>11, <2>1, <2>2 DEF Files!UnlinkProbe
<1>12. ASSUME NEW p \in Procs, Files!CleanRead(p) PROVE FileInv'
  <2>1. Files!TypeOK'
    BY <1>12 DEF Files!CleanRead, Files!TempsHaveOwners
  <2>2. Files!TempsHaveOwners'
    BY <1>12 DEF Files!CleanRead, Files!TempsHaveOwners
  <2>3. PICK k \in Keys : \/ Files!Go(p, "unlinkExpired", [key |-> k])
                          \/ Files!Go(p, "rmdir", Files!Nothing)
    BY <1>12 DEF Files!CleanRead
  <2>4. CASE Files!Go(p, "unlinkExpired", [key |-> k])
    BY <1>12, <2>1, <2>2, <2>4 DEF Files!CleanRead
  <2>5. CASE Files!Go(p, "rmdir", Files!Nothing)
    BY <1>12, <2>1, <2>2, <2>5 DEF Files!CleanRead
  <2> QED
    BY <2>3, <2>4, <2>5
<1>13. ASSUME NEW p \in Procs, Files!Rmdir(p) PROVE FileInv'
  <2>1. Files!TypeOK'
    BY <1>13 DEF Files!Rmdir, Files!TempsHaveOwners
  <2>2. Files!TempsHaveOwners'
    BY <1>13 DEF Files!Rmdir, Files!TempsHaveOwners
  <2> QED
    BY <1>13, <2>1, <2>2 DEF Files!Rmdir
<1>14. ASSUME NEW p \in Procs, Files!Crash(p) PROVE FileInv'
  <2>1. Files!TypeOK'
    BY <1>14 DEF Files!Crash, Files!TempsHaveOwners
  <2>2. Files!TempsHaveOwners'
    BY <1>14 DEF Files!Crash, Files!TempsHaveOwners
  <2> QED
    BY <1>14, <2>1, <2>2 DEF Files!Crash
<1>15. ASSUME Files!Tick PROVE FileInv'
  BY <1>15 DEF Files!Tick, Files!TempsHaveOwners
<1> QED
  BY <1>1, <1>2, <1>3, <1>4, <1>5, <1>6, <1>7, <1>8, <1>9, <1>10, <1>11, <1>12, <1>13, <1>14, <1>15 DEF Files!Next

\* A call that ends with an entry has read one that had not expired.
LEMMA FileReads ==
  ASSUME FileInv, Files!Next
  PROVE  Files!NothingExpiredIsRead
<1> USE FileAssumption, EntryFields
        DEF FileInv, Files!NothingExpiredIsRead, Files!TypeOK, Files!Done, Files!Nothing
<1>1. ASSUME NEW p \in Procs, Files!Call(p) PROVE Files!NothingExpiredIsRead
  BY <1>1 DEF Files!Call, Files!Begin
<1>2. ASSUME NEW p \in Procs, Files!Get(p) PROVE Files!NothingExpiredIsRead
  BY <1>2 DEF Files!Get, Files!isExpired
<1>3. ASSUME NEW p \in Procs, Files!UnlinkExpired(p) PROVE Files!NothingExpiredIsRead
  BY <1>3 DEF Files!UnlinkExpired
<1>4. ASSUME NEW p \in Procs, Files!OpenTemp(p) PROVE Files!NothingExpiredIsRead
  <2>1. Files!Done(p, Files!Said("error")) \/ UNCHANGED fetched
    BY <1>4 DEF Files!OpenTemp
  <2> QED
    BY <2>1
<1>5. ASSUME NEW p \in Procs, Files!Rename(p) PROVE Files!NothingExpiredIsRead
  BY <1>5 DEF Files!Rename
<1>6. ASSUME NEW p \in Procs, Files!UnlinkTemp(p) PROVE Files!NothingExpiredIsRead
  BY <1>6 DEF Files!UnlinkTemp
<1>7. ASSUME NEW p \in Procs, Files!Delete(p) PROVE Files!NothingExpiredIsRead
  BY <1>7 DEF Files!Delete
<1>8. ASSUME NEW p \in Procs, Files!UnlinkProbe(p) PROVE Files!NothingExpiredIsRead
  BY <1>8 DEF Files!UnlinkProbe
<1>9. ASSUME NEW p \in Procs, Files!Rmdir(p) PROVE Files!NothingExpiredIsRead
  BY <1>9 DEF Files!Rmdir
<1>10. ASSUME UNCHANGED fetched PROVE Files!NothingExpiredIsRead
  BY <1>10
<1> QED
  BY <1>1, <1>2, <1>3, <1>4, <1>5, <1>6, <1>7, <1>8, <1>9, <1>10
     DEF Files!Next, Files!EnsureDir, Files!WriteTemp, Files!WriteProbe, Files!CleanRead, Files!Crash, Files!Tick

\* One whole entry is put or a key dropped by each call that touches what readers
\* see, and by no other.
LEMMA FilePuts ==
  ASSUME FileInv, Files!Next
  PROVE  \/ \E x \in Files!Entries : file' = [file EXCEPT ![x.key] = x]
         \/ \E k \in Keys : file' = [file EXCEPT ![k] = Files!Nothing]
         \/ UNCHANGED file
<1> USE DEF FileInv, Dropping, Putting
<1>1. ASSUME NEW p \in Procs, Files!Rename(p)
      PROVE  \E x \in Files!Entries : file' = [file EXCEPT ![x.key] = x]
  <2>1. arg[p] \in Files!Entries /\ file' = [file EXCEPT ![arg[p].key] = arg[p]]
    BY <1>1 DEF Files!Rename
  <2> QED
    BY <2>1
<1>2. ASSUME NEW p \in Procs, Files!UnlinkExpired(p) \/ Files!Delete(p)
      PROVE  \E k \in Keys : file' = [file EXCEPT ![k] = Files!Nothing]
  <2>1. arg[p].key \in Keys /\ file' = [file EXCEPT ![arg[p].key] = Files!Nothing]
    BY <1>2 DEF Files!UnlinkExpired, Files!Delete
  <2> QED
    BY <2>1
<1> QED
  BY <1>1, <1>2
     DEF Files!Next, Files!Call, Files!Get, Files!EnsureDir, Files!OpenTemp, Files!WriteTemp,
         Files!UnlinkTemp, Files!WriteProbe, Files!UnlinkProbe, Files!CleanRead, Files!Rmdir,
         Files!Crash, Files!Tick

-----------------------------------------------------------------------------
(* The bucket. *)

object  == v1
sent    == v2
answers == v3
hour    == v4
call    == v5
ops     == v6
returned == v7

USE DEF object, sent, answers, hour, call, ops, returned

LEMMA ObjectAssumption == MaxTime \in Nat /\ Lives \in [Procs -> 0 .. MaxTime]
BY CacheAssumptions DEF Objects!ObjectStoreAssumption

LEMMA ObjectFields ==
  ASSUME NEW x \in Objects!Entries
  PROVE  /\ x.key \in BucketKeys /\ x.expires \in 0 .. 2 * MaxTime /\ x.by \in Procs
         /\ \A r : x # Objects!Said(r)
<1>1. PICK k \in BucketKeys, t \in 0 .. 2 * MaxTime, q \in Procs :
        x = [key |-> k, expires |-> t, by |-> q]
  BY DEF Objects!Entries
<1>2. ASSUME NEW r PROVE x # Objects!Said(r)
  <2>1. "by" \in DOMAIN x /\ "by" \notin DOMAIN Objects!Said(r)
    BY <1>1 DEF Objects!Said
  <2> QED
    BY <2>1
<1> QED
  BY <1>1, <1>2

Ids == Procs \X Int

\* A request asks for something that can be asked.
Proper(r) ==
  /\ r.op \in {"GET", "PUT", "DELETE"} /\ r.entry.key \in BucketKeys
  /\ r.op = "PUT" => r.entry \in Objects!Entries

\* What travels under the number of a call that waits is that call's own request,
\* or the answer to it; a get() that finds something is answered with an entry.
ObjectInv ==
  /\ Objects!TypeOK
  /\ hour \in 0 .. MaxTime /\ ops \in [Procs -> Nat]
  /\ DOMAIN call = Procs /\ DOMAIN returned = Procs
  /\ \A p \in Procs : call[p] # Objects!Nothing => ops[p] # 0 /\ Proper(call[p])
  /\ \A r \in sent :
       /\ Proper(r) /\ r.id \in Ids /\ r.id[2] <= ops[r.id[1]]
       /\ \A p \in Procs : call[p] # Objects!Nothing /\ r.id = call[p].id => r = call[p]
  /\ \A x \in answers :
       /\ x.id \in Ids /\ x.id[2] <= ops[x.id[1]]
       /\ \A p \in Procs :
            call[p] # Objects!Nothing /\ x.id = call[p].id /\ call[p].op = "GET"
            /\ x.status = 200 => x.body \in Objects!Entries

LEMMA ObjectInit == Objects!Init => ObjectInv
BY ObjectAssumption DEF Objects!Init, ObjectInv, Objects!TypeOK

LEMMA SendStep ==
  ASSUME ObjectInv, NEW p \in Procs, Objects!Send(p)
  PROVE  ObjectInv'
<1>1. PICK r \in Objects!Requests(p) : sent' = sent \cup {r} /\ call' = [call EXCEPT ![p] = r]
  BY DEF Objects!Send
<1>2. /\ ops' = [ops EXCEPT ![p] = @ + 1] /\ DOMAIN returned' = Procs
      /\ UNCHANGED <<object, answers, hour>>
  BY DEF Objects!Send, ObjectInv
<1>3. r.id = <<p, ops[p] + 1>> /\ Proper(r)
  <2>1. CASE \E op \in {"GET", "DELETE"}, k \in BucketKeys : r = Objects!Request(p, op, [key |-> k])
    BY <2>1 DEF Objects!Request, Proper
  <2>2. CASE \E k \in BucketKeys :
          r = Objects!Request(p, "PUT", [key |-> k, expires |-> Objects!ExpiresAt(p), by |-> p])
    <3>1. Objects!ExpiresAt(p) \in 0 .. 2 * MaxTime
      BY ObjectAssumption DEF Objects!ExpiresAt, ObjectInv
    <3> QED
      BY <2>2, <3>1 DEF Objects!Request, Proper, Objects!Entries
  <2> QED
    BY <1>1, <2>1, <2>2 DEF Objects!Requests
<1>4. Objects!TypeOK'
  BY <1>1, <1>2, <1>3 DEF ObjectInv, Objects!TypeOK, Proper
<1>5. \A x : x.id \in Ids /\ x.id[2] <= ops[x.id[1]] =>
         x.id[2] <= ops'[x.id[1]] /\ x.id # r.id
  BY <1>2, <1>3 DEF Ids, ObjectInv
<1>6. r.id \in Ids /\ r.id[2] <= ops'[r.id[1]] /\ ops' \in [Procs -> Nat] /\ ops'[p] # 0
  BY <1>2, <1>3 DEF Ids, ObjectInv
<1>7. \A q \in Procs : q # p => call'[q] = call[q] /\ ops'[q] = ops[q]
  BY <1>1, <1>2 DEF ObjectInv
<1>8. call'[p] = r /\ DOMAIN call' = Procs
  BY <1>1 DEF ObjectInv
<1>9. \A q \in Procs : q # p /\ call[q] # Objects!Nothing => call[q].id # r.id
  BY <1>3 DEF ObjectInv, Objects!TypeOK
<1> QED
  BY <1>1, <1>2, <1>3, <1>4, <1>5, <1>6, <1>7, <1>8, <1>9 DEF ObjectInv

LEMMA ArriveStep ==
  ASSUME ObjectInv, Objects!Arrive
  PROVE  ObjectInv'
<1>1. PICK r \in sent : /\ sent' = sent \ {r}
                       /\ \/ Objects!Serve(r)
                          \/ /\ answers' = answers \cup {Objects!Answer(r, 500, Objects!Nothing)}
                             /\ UNCHANGED object
  BY DEF Objects!Arrive
<1>2. UNCHANGED <<hour, call, ops, returned>>
  BY DEF Objects!Arrive
<1>3. Proper(r) /\ object \in [BucketKeys -> Objects!Entries \cup {Objects!Nothing}]
  BY DEF ObjectInv, Objects!TypeOK
<1>4. object' \in [BucketKeys -> Objects!Entries \cup {Objects!Nothing}]
  BY <1>1, <1>3 DEF Objects!Serve, Proper
<1>5. PICK x : /\ answers' = answers \cup {x} /\ x.id = r.id
               /\ r.op = "GET" /\ x.status = 200 => x.body \in Objects!Entries
  <2>1. CASE Objects!Serve(r)
    <3> DEFINE x == Objects!Answer(r, IF r.op = "GET" /\ object[r.entry.key] = Objects!Nothing
                                      THEN 404 ELSE 200, object[r.entry.key])
    <3>1. answers' = answers \cup {x}
      BY <2>1 DEF Objects!Serve
    <3>2. x.id = r.id /\ (r.op = "GET" /\ x.status = 200 => x.body \in Objects!Entries)
      BY <1>3 DEF Objects!Answer, Proper
    <3> QED
      BY <3>1, <3>2
  <2>2. CASE answers' = answers \cup {Objects!Answer(r, 500, Objects!Nothing)}
    <3> DEFINE x == Objects!Answer(r, 500, Objects!Nothing)
    <3>1. x.id = r.id /\ x.status # 200
      BY DEF Objects!Answer
    <3> QED
      BY <2>2, <3>1
  <2> QED
    BY <1>1, <2>1, <2>2
<1>6. Objects!TypeOK'
  BY <1>1, <1>2, <1>4 DEF ObjectInv, Objects!TypeOK
<1> QED
  BY <1>1, <1>2, <1>5, <1>6 DEF ObjectInv

LEMMA LoseStep ==
  ASSUME ObjectInv, Objects!Lose
  PROVE  ObjectInv'
BY DEF ObjectInv, Objects!Lose, Objects!TypeOK

LEMMA ReceiveStep ==
  ASSUME ObjectInv, NEW p \in Procs, Objects!Receive(p)
  PROVE  ObjectInv'
<1>1. PICK x \in answers :
        /\ call[p] # Objects!Nothing /\ x.id = call[p].id
        /\ answers' = answers \ {x}
        /\ sent' = sent \cup Objects!CleanUp(call[p], x)
        /\ call' = [call EXCEPT ![p] = Objects!Nothing]
        /\ DOMAIN returned' = Procs
  BY DEF Objects!Receive, ObjectInv
<1>2. UNCHANGED <<object, hour, ops>>
  BY DEF Objects!Receive
<1>3. call[p].id = <<p, ops[p]>> /\ ops[p] \in Nat \ {0} /\ Proper(call[p])
  BY <1>1 DEF ObjectInv, Objects!TypeOK
<1>4. ASSUME NEW r \in Objects!CleanUp(call[p], x)
      PROVE  /\ Proper(r) /\ r.op # "PUT" /\ r.id = <<p, -ops[p]>>
             /\ \A q \in Procs : call[q] # Objects!Nothing => r.id # call[q].id
  <2>1. call[p].op = "GET" /\ x.status = 200
        /\ r = [id |-> <<p, -ops[p]>>, op |-> "DELETE", entry |-> [key |-> x.body.key]]
    BY <1>3 DEF Objects!CleanUp
  <2>2. x.body.key \in BucketKeys
    BY <1>1, <2>1, ObjectFields DEF ObjectInv
  <2>3. ASSUME NEW q \in Procs, call[q] # Objects!Nothing PROVE r.id # call[q].id
    <3>1. call[q].id = <<q, ops[q]>> /\ ops[q] \in Nat \ {0}
      BY <2>3 DEF ObjectInv, Objects!TypeOK
    <3> QED
      BY <1>3, <2>1, <3>1
  <2> QED
    BY <2>1, <2>2, <2>3 DEF Proper
<1>5. Objects!TypeOK'
  BY <1>1, <1>2, <1>4 DEF ObjectInv, Objects!TypeOK
<1>6. \A r \in sent' : r \in sent \/ r \in Objects!CleanUp(call[p], x)
  BY <1>1
<1> HIDE DEF Objects!CleanUp
<1> QED
  BY <1>1, <1>2, <1>3, <1>4, <1>5, <1>6 DEF ObjectInv, Ids

LEMMA ObjectStep ==
  ASSUME ObjectInv, Objects!Next
  PROVE  ObjectInv'
<1>1. ASSUME NEW p \in Procs, Objects!TimeOut(p) PROVE ObjectInv'
  BY <1>1 DEF ObjectInv, Objects!TimeOut, Objects!TypeOK
<1>2. ASSUME Objects!Tick PROVE ObjectInv'
  BY <1>2, ObjectAssumption DEF ObjectInv, Objects!Tick, Objects!TypeOK
<1> QED
  BY <1>1, <1>2, SendStep, ArriveStep, LoseStep, ReceiveStep DEF Objects!Next

\* What a get() of p returns has not expired, and a put() of p that returned
\* without an error has an answer that says so.
ReturnsRight(p) ==
  returned[p] = Objects!Nothing =>
    /\ returned'[p] \in Objects!Entries => returned'[p].expires >= hour
    /\ returned'[p] = Objects!Said("ok") /\ call[p].op = "PUT" =>
         \E x \in answers : x.id = call[p].id /\ x.status = 200

LEMMA ObjectReturns ==
  ASSUME ObjectInv, Objects!Next
  PROVE  Objects!NothingExpiredIsReturned /\ Objects!AcknowledgedWasStored
<1>1. \A r : Objects!Said(r) \notin Objects!Entries
  BY ObjectFields
<1>2. /\ Objects!Nothing = Objects!Said("none") /\ Objects!Nothing # Objects!Said("ok")
      /\ Objects!Said("error") # Objects!Said("ok")
  BY DEF Objects!Said, Objects!Nothing
<1>3. ASSUME NEW q \in Procs, returned'[q] = returned[q] PROVE ReturnsRight(q)
  BY <1>1, <1>2, <1>3 DEF ReturnsRight
<1>4. ASSUME NEW p \in Procs, Objects!Receive(p) PROVE ReturnsRight(p)
  <2>1. PICK x \in answers :
          /\ call[p] # Objects!Nothing /\ x.id = call[p].id
          /\ returned' = [returned EXCEPT ![p] =
               CASE call[p].op = "GET" -> Objects!GetResult(x)
                 [] call[p].op = "PUT" -> Objects!PutResult(x)
                 [] OTHER              -> Objects!Said("ok")]
    BY <1>4 DEF Objects!Receive
  <2>2. DOMAIN returned = Procs /\ hour \in Int
    BY ObjectAssumption DEF ObjectInv
  <2>3. CASE call[p].op = "GET"
    <3>1. returned'[p] = Objects!GetResult(x) /\ (x.status = 200 => x.body \in Objects!Entries)
      BY <2>1, <2>2, <2>3 DEF ObjectInv
    <3>2. CASE x.status = 200 /\ ~Objects!isExpired(x.body)
      <4>1. x.body.expires \in Int
        BY <3>1, <3>2, ObjectFields, ObjectAssumption
      <4> QED
        BY <1>1, <2>2, <2>3, <3>1, <3>2, <4>1
           DEF ReturnsRight, Objects!GetResult, Objects!isExpired
    <3>3. CASE ~(x.status = 200 /\ ~Objects!isExpired(x.body))
      BY <1>1, <1>2, <2>3, <3>1, <3>3 DEF ReturnsRight, Objects!GetResult
    <3> QED
      BY <3>2, <3>3
  <2>4. CASE call[p].op = "PUT"
    <3>1. returned'[p] = Objects!PutResult(x)
      BY <2>1, <2>2, <2>4
    <3> QED
      BY <1>1, <1>2, <2>1, <3>1 DEF Objects!PutResult, ReturnsRight
  <2>5. CASE call[p].op = "DELETE"
    <3>1. returned'[p] = Objects!Said("ok")
      BY <2>1, <2>2, <2>5
    <3> QED
      BY <1>1, <2>5, <3>1 DEF ReturnsRight
  <2> QED
    BY <2>1, <2>3, <2>4, <2>5 DEF ObjectInv, Proper
<1>5. ASSUME NEW p \in Procs, Objects!TimeOut(p) PROVE ReturnsRight(p)
  <2>1. call[p].op \in {"GET", "PUT", "DELETE"} /\ DOMAIN returned = Procs
    BY <1>5 DEF Objects!TimeOut, ObjectInv, Proper
  <2>2. returned'[p] = CASE call[p].op = "GET" -> Objects!Nothing
                         [] call[p].op = "PUT" -> Objects!Said("error")
                         [] OTHER              -> Objects!Said("ok")
    BY <1>5, <2>1 DEF Objects!TimeOut
  <2> QED
    BY <1>1, <1>2, <2>1, <2>2 DEF ReturnsRight
<1>6. ASSUME NEW p \in Procs, Objects!Send(p) PROVE ReturnsRight(p)
  <2>1. returned'[p] = Objects!Nothing
    BY <1>6 DEF Objects!Send, ObjectInv
  <2> QED
    BY <1>1, <1>2, <2>1 DEF ReturnsRight
<1>7. ASSUME NEW p \in Procs, Objects!Receive(p) \/ Objects!TimeOut(p) \/ Objects!Send(p),
             NEW q \in Procs, q # p
      PROVE  returned'[q] = returned[q]
  BY <1>7 DEF Objects!Receive, Objects!TimeOut, Objects!Send, ObjectInv
<1>8. \A q \in Procs : ReturnsRight(q)
  BY <1>3, <1>4, <1>5, <1>6, <1>7 DEF Objects!Next, Objects!Arrive, Objects!Lose, Objects!Tick
<1> QED
  BY <1>8 DEF ReturnsRight, Objects!NothingExpiredIsReturned, Objects!AcknowledgedWasStored

-----------------------------------------------------------------------------
(* The step cache: the files of a key. *)

LEMMA StepsAssumed ==
  /\ Ignored \subseteq StepFiles /\ RootFiles \subseteq StepFiles \ Ignored
  /\ Roots \in [Targets -> SUBSET (StepFiles \ Ignored)]
  /\ Workspaces \in [Targets -> SUBSET (StepFiles \ Ignored)]
  /\ Deps \in [Targets -> SUBSET Targets] /\ Inputs \in [Targets -> SUBSET StepFiles]
  /\ IsFiniteSet(Targets) /\ Cardinality(Targets) \in Nat /\ MaxVersion \in Nat
<1>1. IsFiniteSet(Targets)
  BY CacheAssumptions DEF Steps!ProjectAssumption, Steps!IsFiniteSet, IsFiniteSet
<1> QED
  BY <1>1, CacheAssumptions, FS_CardinalityType DEF Steps!ProjectAssumption

LEMMA ReachedInUnfolds ==
  ASSUME NEW T
  PROVE  /\ Steps!ReachedIn(T)[0] = T
         /\ \A k \in 0 .. Cardinality(Targets) - 1 :
              Steps!ReachedIn(T)[k + 1] =
                Steps!ReachedIn(T)[k] \cup UNION {Deps[t] : t \in Steps!ReachedIn(T)[k]}
<1> DEFINE N == Cardinality(Targets)
           Step(S) == S \cup UNION {Deps[t] : t \in S}
           Body(g, n) == [k \in 0 .. n |-> IF k = 0 THEN T ELSE Step(g[k - 1])]
           E == {n \in Nat : \E g : g = Body(g, n)}
           R == Steps!ReachedIn(T)
<1>0. N \in Nat
  BY StepsAssumed
<1>1. R = Body(R, N)
  <2>1. R = CHOOSE g : g = Body(g, N)
    BY DEF Steps!ReachedIn, Steps!Cardinality, Cardinality
  <2> HIDE DEF Step, R, N
  <2>2. 0 \in E
    <3>1. Body([k \in 0 .. 0 |-> T], 0) = [k \in 0 .. 0 |-> T]
      OBVIOUS
    <3> QED
      BY <3>1
  <2>3. ASSUME NEW n \in Nat, n \in E
        PROVE  n + 1 \in E
    <3>1. PICK g : g = Body(g, n)
      BY <2>3
    <3> DEFINE h == [k \in 0 .. n + 1 |-> IF k <= n THEN g[k] ELSE Step(g[n])]
    <3>2. h = Body(h, n + 1)
      BY <3>1
    <3> HIDE DEF h, Body
    <3>3. \E f : f = Body(f, n + 1)
      BY <3>2
    <3> QED
      BY <3>3
  <2>4. N \in E
    BY <1>0, <2>2, <2>3, SetInduction
  <2> QED
    BY <2>1, <2>4
<1> HIDE DEF R, Step, N
<1>2. R[0] = T
  BY <1>0, <1>1
<1>3. ASSUME NEW k \in 0 .. N - 1
      PROVE  R[k + 1] = Step(R[k])
  <2>1. k + 1 \in 0 .. N /\ k + 1 # 0 /\ (k + 1) - 1 = k
    BY <1>0
  <2> QED
    BY <1>1, <2>1
<1> QED
  BY <1>2, <1>3 DEF R, Step, N

\* More targets reach more, and targets only.
LEMMA ReachedGrows ==
  ASSUME NEW T, NEW U \in SUBSET Targets, T \subseteq U
  PROVE  Steps!Reached(T) \subseteq Steps!Reached(U) /\ Steps!Reached(U) \subseteq Targets
<1> DEFINE N == Cardinality(Targets)
           R == Steps!ReachedIn(T)
           Q == Steps!ReachedIn(U)
           K == {k \in 0 .. N : R[k] \subseteq Q[k] /\ Q[k] \subseteq Targets}
<1>0. N \in Nat
  BY StepsAssumed
<1>1. R[0] = T /\ Q[0] = U
  BY ReachedInUnfolds
<1>2. ASSUME NEW k \in 0 .. N - 1
      PROVE  /\ R[k + 1] = R[k] \cup UNION {Deps[t] : t \in R[k]}
             /\ Q[k + 1] = Q[k] \cup UNION {Deps[t] : t \in Q[k]}
  BY ReachedInUnfolds
<1> HIDE DEF R, Q, N
<1>3. 0 \in K
  BY <1>0, <1>1
<1>4. ASSUME NEW k \in 0 .. N - 1, k \in K PROVE k + 1 \in K
  <2>1. k + 1 \in 0 .. N
    BY <1>0
  <2> QED
    BY <1>2, <1>4, <2>1, StepsAssumed
<1>5. N \in K
  <2>1. 0 .. N \subseteq K
    BY <1>0, <1>3, <1>4, BoundedInduction
  <2> QED
    BY <1>0, <2>1
<1> QED
  BY <1>5 DEF R, Q, N, Steps!Reached, Steps!Cardinality, Cardinality

\* What the key takes from HEAD is tracked, and is among the files that must be
\* clean.
LEMMA KeyFilesAreChecked ==
  ASSUME NEW x \in Slices
  PROVE  /\ Steps!TreeFiles(Steps!NodeTargets(x)) \subseteq Steps!CheckedFiles(x)
         /\ RootFiles \subseteq Steps!CheckedFiles(x)
         /\ Steps!CheckedFiles(x) \subseteq StepFiles \ Ignored
<1>1. /\ Steps!NodeTargets(x) \subseteq x.own \cup x.claimed
      /\ x.own \cup x.claimed \in SUBSET Targets
  BY CacheAssumptions DEF Steps!NodeTargets, Steps!StepsAssumption
<1>2. /\ Steps!Reached(Steps!NodeTargets(x)) \subseteq Steps!Reached(x.own \cup x.claimed)
      /\ Steps!Reached(x.own \cup x.claimed) \subseteq Targets
  BY <1>1, ReachedGrows
<1> QED
  BY <1>2, StepsAssumed DEF Steps!TreeFiles, Steps!CheckedFiles

-----------------------------------------------------------------------------
(* The step cache: what its entries say. *)

head    == v1
work    == v2
entries == v4
now     == v5
run     == v6

USE DEF head, work, entries, now, run

KeyFiles(x) ==
  Steps!TreeFiles(Steps!NodeTargets(x)) \cup RootFiles \cup Steps!InputFiles(Steps!NodeTargets(x))

\* Content c of the files S was read while a step of p was under way: each file
\* is then between HEAD, which stands, and the working tree, which only grows; what
\* git ignores stands too.
Between(p, c, S) ==
  /\ \A f \in S \cap Ignored : c[f] = work[p][f]
  /\ \A f \in S \ Ignored : head[p][f] <= c[f] /\ c[f] <= work[p][f] /\ c[f] \in Int

KeyFits(p) ==
  /\ Steps!KeyOf(run[p].key, run[p].node) /\ DOMAIN run[p].key.root = RootFiles
  /\ Between(p, Steps!KeyContent(run[p].key), KeyFiles(run[p].node))

\* An entry was made by somebody who may, with the life he gives, and is honest.
EntryIsSound(x) ==
  /\ x.key # Steps!NoKey /\ x.createdAt \in Nat /\ x.createdAt <= now
  /\ x.by \in Procs \X Nat
  /\ LET w == Settings[x.by[1]] IN
       /\ w.write /\ x.expires = x.createdAt + w.ttl /\ (x.signed => w.private = "good")
  /\ \A y \in Slices :
       Steps!KeyOf(x.key, y) => Steps!Passes(Steps!Restricted(Steps!KeyContent(x.key), y.reads))

\* An entry has been put and will not be put again.
Spent(x) ==
  /\ x.by \in Procs \X Nat /\ x.by[2] <= run[x.by[1]].taken
  /\ x.by[2] = run[x.by[1]].taken =>
       /\ run[x.by[1]].phase \in {"idle", "writing"}
       /\ run[x.by[1]].phase = "writing" =>
            \A w \in run[x.by[1]].pending : w.op = "put" => w.entry # x

InFlight(r) == r.phase \in {"running", "writing"}
Keyed(r)    == r.phase \in {"hit", "verifying", "missed"} \/ (InFlight(r) /\ r.was # "bypassed")
Verifies(r) == r.phase = "verifying" \/ (InFlight(r) /\ r.was = "verifying")

RunIsSound(p) ==
  LET r == run[p] IN
  /\ r.taken \in Nat
  /\ r.phase # "idle" => r.node \in Slices /\ (r.key = Steps!NoKey \/ KeyFits(p))
  /\ Keyed(r) => r.key # Steps!NoKey
  /\ r.phase = "running" /\ r.was # "bypassed" =>
       DOMAIN r.read = r.node.reads /\ Between(p, r.read, r.node.reads)
  /\ Verifies(r) => r.entry.key = r.key /\ Spent(r.entry)
  /\ r.phase = "writing" =>
       /\ r = [phase |-> r.phase, taken |-> r.taken, node |-> r.node, key |-> r.key,
               was |-> r.was, entry |-> r.entry, passed |-> r.passed, pending |-> r.pending]
       /\ r.passed \in BOOLEAN
       /\ \A w \in r.pending : w.op = "put" =>
            /\ w = [op |-> "put", entry |-> w.entry] /\ w.entry.by = <<p, r.taken>>
            /\ w.entry.key = r.key /\ EntryIsSound(w.entry)
       /\ r.was = "verifying" /\ ~r.passed /\ Settings[p].write =>
            /\ \A w \in r.pending : w.op # "put"
            /\ [op |-> "invalidate"] \in r.pending \/ r.entry \notin entries

StepInv ==
  /\ Steps!TypeOK
  /\ \A p \in Procs, f \in StepFiles \ Ignored : head[p][f] <= work[p][f]
  /\ now \in Nat /\ DOMAIN run = Procs
  /\ \A p \in Procs : RunIsSound(p)
  /\ \A x \in entries : EntryIsSound(x) /\ Spent(x)

LEMMA StepInit == Steps!Init => StepInv
<1> SUFFICES ASSUME Steps!Init PROVE StepInv
  OBVIOUS
<1>1. /\ head = [p \in Procs |-> [f \in StepFiles |-> 0]] /\ work = head /\ entries = {} /\ now = 0
      /\ run = [p \in Procs |-> [phase |-> "idle", taken |-> 0]]
  BY DEF Steps!Init, Steps!Idle
<1>2. Steps!TypeOK
  BY <1>1, StepsAssumed DEF Steps!TypeOK
<1>3. \A p \in Procs : RunIsSound(p)
  BY <1>1 DEF RunIsSound, Keyed, Verifies, InFlight
<1> QED
  BY <1>1, <1>2, <1>3 DEF StepInv

\* A process goes on: it takes the next step, or has made no entry in this one, or
\* is done with it, or has one write less before it.
GoesOn(p) ==
  \/ run'[p].taken > run[p].taken
  \/ /\ run'[p].taken = run[p].taken
     /\ \/ run[p].phase \notin {"idle", "writing"}
        \/ run'[p].phase = "idle"
        \/ run[p].phase = "writing" /\ run'[p].phase = "writing" /\ run'[p].pending \subseteq run[p].pending

LEMMA SpentStays ==
  ASSUME StepInv, NEW p \in Procs, GoesOn(p), run'[p].taken \in Nat,
         \A q \in Procs : q # p => run'[q] = run[q], NEW x, Spent(x)
  PROVE  Spent(x)'
<1>1. run[p].taken \in Nat
  BY DEF StepInv, RunIsSound
<1>2. CASE x.by[1] # p
  BY <1>2 DEF Spent
<1>3. CASE x.by[1] = p
  BY <1>1, <1>3 DEF Spent, GoesOn
<1> QED
  BY <1>2, <1>3

LEMMA EntryStays ==
  ASSUME NEW x, EntryIsSound(x), now \in Nat, now' \in Nat, now <= now'
  PROVE  EntryIsSound(x)'
BY DEF EntryIsSound

\* A step of p that touches no file and takes entries away at most.
LEMMA RunStep ==
  ASSUME StepInv, NEW p \in Procs, GoesOn(p), \A q \in Procs : q # p => run'[q] = run[q],
         UNCHANGED <<head, work, now>>, DOMAIN run' = Procs, entries' \subseteq entries,
         RunIsSound(p)',
         run'[p].phase \in {"idle", "keyed", "hit", "bypassed", "verifying", "missed", "running", "writing"}
  PROVE  StepInv'
<1>1. run'[p].taken \in Nat
  BY DEF RunIsSound
<1>2. \A x : Spent(x) => Spent(x)'
  BY <1>1, SpentStays
<1>3. \A x : EntryIsSound(x) => EntryIsSound(x)'
  BY EntryStays DEF StepInv
<1>4. ASSUME NEW q \in Procs, q # p PROVE RunIsSound(q)'
  <2>1. RunIsSound(q) /\ run'[q] = run[q]
    BY <1>4 DEF StepInv
  <2> QED
    BY <1>2, <1>3, <2>1 DEF RunIsSound, KeyFits, Between, Keyed, Verifies, InFlight
<1>5. Steps!TypeOK'
  BY DEF StepInv, Steps!TypeOK
<1> QED
  BY <1>2, <1>3, <1>4, <1>5 DEF StepInv

\* What the store finds under a key has that key.
LEMMA FoundEntry ==
  ASSUME Steps!TypeOK, NEW k, k # Steps!NoKey, Steps!StoreGet(k) # Steps!NoEntry
  PROVE  /\ Steps!StoreGet(k) \in entries /\ Steps!StoreGet(k).key = k
         /\ ~(Steps!StoreGet(k).expires < now)
<1>1. Steps!StoreGet(k) = Steps!Find(k) /\ ~(Steps!Find(k).expires < now)
  BY DEF Steps!StoreGet
<1>2. \E x \in entries : x.key = k
  BY <1>1 DEF Steps!Find
<1>3. Steps!Find(k) \in entries /\ Steps!Find(k).key = k
  <2>1. Steps!Find(k) = CHOOSE x \in entries : x.key = k
    BY <1>2 DEF Steps!Find
  <2> QED
    BY <1>2, <2>1
<1> QED
  BY <1>1, <1>3

\* The files that a step's key covers; what a cacheable step reads is among them,
\* and they are ignored or have to be clean.
LEMMA KeyFilesAre ==
  ASSUME NEW x \in Slices
  PROVE  /\ Steps!TreeFiles(Steps!NodeTargets(x)) \subseteq StepFiles \ Ignored
         /\ RootFiles \subseteq StepFiles \ Ignored
         /\ Steps!InputFiles(Steps!NodeTargets(x)) \subseteq StepFiles
         /\ Steps!IsHandlerCacheable(x) =>
              /\ x.reads \subseteq KeyFiles(x)
              /\ KeyFiles(x) \subseteq Ignored \cup Steps!CheckedFiles(x)
<1>1. Steps!NodeTargets(x) \subseteq Targets
  BY CacheAssumptions DEF Steps!NodeTargets, Steps!StepsAssumption
<1>2. Steps!InputFiles(Steps!NodeTargets(x)) \subseteq StepFiles
  BY <1>1, StepsAssumed DEF Steps!InputFiles
<1>3. Steps!IsHandlerCacheable(x) =>
        /\ x.reads \subseteq KeyFiles(x)
        /\ Steps!InputFiles(Steps!NodeTargets(x)) \subseteq Ignored \cup Steps!CheckedFiles(x)
  BY CacheAssumptions DEF Steps!StepsAssumption, KeyFiles
<1> QED
  BY <1>2, <1>3, KeyFilesAreChecked, StepsAssumed DEF KeyFiles

\* What was read of the files of a key while the step was under way is what is in
\* them, if the files that have to be clean are.
LEMMA ReadIsCurrent ==
  ASSUME StepInv, NEW p \in Procs, run[p].node \in Slices,
         Steps!IsHandlerCacheable(run[p].node),
         Steps!Eligible(run[p].node, head[p], work[p]),
         NEW c, NEW S, S \subseteq KeyFiles(run[p].node), Between(p, c, S)
  PROVE  \A f \in S : c[f] = work[p][f]
<1> SUFFICES ASSUME NEW f \in S PROVE c[f] = work[p][f]
  OBVIOUS
<1>1. CASE f \in Ignored
  BY <1>1 DEF Between
<1>2. CASE f \notin Ignored
  <2>1. f \in Steps!CheckedFiles(run[p].node) /\ f \in StepFiles \ Ignored
    BY <1>2, KeyFilesAre, KeyFilesAreChecked
  <2>2. head[p][f] = work[p][f]
    BY <2>1 DEF Steps!Eligible, Steps!DirtyFiles
  <2>3. head[p][f] <= c[f] /\ c[f] <= work[p][f] /\ c[f] \in Int
    BY <1>2 DEF Between
  <2>4. head[p][f] \in 0 .. MaxVersion
    BY <2>1 DEF StepInv, Steps!TypeOK
  <2> QED
    BY <2>2, <2>3, <2>4, StepsAssumed
<1> QED
  BY <1>1, <1>2

\* A key that was just computed fits.
LEMMA NewKeyFits ==
  ASSUME StepInv, NEW p \in Procs, NEW x \in Slices, NEW k,
         k = Steps!StepKeyOf(x, head[p], work[p]), k # Steps!NoKey
  PROVE  /\ Steps!KeyOf(k, x) /\ DOMAIN k.root = RootFiles
         /\ Between(p, Steps!KeyContent(k), KeyFiles(x))
<1> DEFINE T == Steps!TreeFiles(Steps!NodeTargets(x))
           I == Steps!InputFiles(Steps!NodeTargets(x))
<1>1. /\ Steps!IsHandlerCacheable(x) /\ Steps!NodeTargets(x) # {}
      /\ k = [step |-> x.step, trees |-> [f \in T |-> head[p][f]],
              root |-> [f \in RootFiles |-> work[p][f]], inputs |-> [f \in I |-> work[p][f]]]
  BY DEF Steps!StepKeyOf, Steps!Restricted
<1>2. /\ T \subseteq StepFiles \ Ignored /\ I \subseteq StepFiles
      /\ RootFiles \subseteq StepFiles \ Ignored
  BY KeyFilesAre
<1>3. \A f \in StepFiles : head[p][f] \in Int /\ work[p][f] \in Int
  BY StepsAssumed DEF StepInv, Steps!TypeOK
<1>4. \A f \in StepFiles \ Ignored : head[p][f] <= work[p][f]
  BY DEF StepInv
<1> HIDE DEF T, I
<1>5. Steps!KeyContent(k) = [f \in T \cup RootFiles \cup I |->
        IF f \in I THEN work[p][f] ELSE IF f \in RootFiles THEN work[p][f] ELSE head[p][f]]
  BY <1>1 DEF Steps!KeyContent
<1>6. Between(p, Steps!KeyContent(k), T \cup RootFiles \cup I)
  BY <1>2, <1>3, <1>4, <1>5 DEF Between
<1>7. Steps!KeyOf(k, x) /\ DOMAIN k.root = RootFiles
  BY <1>1 DEF Steps!KeyOf, T, I
<1> QED
  BY <1>6, <1>7 DEF KeyFiles, T, I

LEMMA ComputeKeyStep ==
  ASSUME StepInv, NEW p \in Procs, NEW x \in Slices, Steps!ComputeKey(p, x)
  PROVE  StepInv'
<1> DEFINE k == Steps!StepKeyOf(x, head[p], work[p])
<1>1. /\ run' = [run EXCEPT ![p] = [phase |-> "keyed", taken |-> run[p].taken + 1, node |-> x, key |-> k]]
      /\ UNCHANGED <<head, work, entries, now>>
  BY DEF Steps!ComputeKey
<1>2. DOMAIN run = Procs /\ run[p].taken \in Nat
  BY DEF StepInv, RunIsSound
<1> HIDE DEF k
<1>3. run'[p] = [phase |-> "keyed", taken |-> run[p].taken + 1, node |-> x, key |-> k]
  BY <1>1, <1>2
<1>4. k = Steps!NoKey \/ KeyFits(p)'
  <2>1. k # Steps!NoKey =>
          /\ Steps!KeyOf(k, x) /\ DOMAIN k.root = RootFiles
          /\ Between(p, Steps!KeyContent(k), KeyFiles(x))
    BY NewKeyFits DEF k
  <2> QED
    BY <1>1, <1>3, <2>1 DEF KeyFits, Between
<1>5. RunIsSound(p)'
  BY <1>2, <1>3, <1>4 DEF RunIsSound, Keyed, Verifies, InFlight
<1>6. GoesOn(p)
  BY <1>2, <1>3 DEF GoesOn
<1> QED
  BY <1>1, <1>2, <1>3, <1>5, <1>6, RunStep

LEMMA LookupStep ==
  ASSUME StepInv, NEW p \in Procs, Steps!Lookup(p)
  PROVE  StepInv'
<1> DEFINE r == run[p]
           x == Steps!StoreGet(r.key)
<1>1. PICK how \in {"bypassed", "verifying", "hit", "missed"} :
        /\ run' = [run EXCEPT ![p] =
             [phase |-> how, taken |-> r.taken, node |-> r.node, key |-> r.key, entry |-> x]]
        /\ how # "bypassed" => r.key # Steps!NoKey
        /\ how \in {"verifying", "hit"} => x # Steps!NoEntry
  <2>1. CASE r.key = Steps!NoKey \/ ~Steps!Eligible(r.node, head[p], work[p])
    BY <2>1 DEF Steps!Lookup, Steps!Found
  <2>2. CASE /\ ~(r.key = Steps!NoKey \/ ~Steps!Eligible(r.node, head[p], work[p]))
             /\ Steps!ValidateEntry(p, x)
    <3>1. PICK sampled \in Steps!Sampled(p) :
            Steps!Found(p, IF sampled THEN "verifying" ELSE "hit")
      BY <2>2 DEF Steps!Lookup
    <3> QED
      BY <2>2, <3>1 DEF Steps!Found, Steps!ValidateEntry
  <2>3. CASE /\ ~(r.key = Steps!NoKey \/ ~Steps!Eligible(r.node, head[p], work[p]))
             /\ ~Steps!ValidateEntry(p, x)
    BY <2>3 DEF Steps!Lookup, Steps!Found
  <2> QED
    BY <2>1, <2>2, <2>3
<1>2. r.phase = "keyed" /\ UNCHANGED <<head, work, now>> /\ entries' \subseteq entries
  BY DEF Steps!Lookup
<1>3. DOMAIN run = Procs /\ RunIsSound(p)
  BY DEF StepInv
<1>4. run'[p] = [phase |-> how, taken |-> r.taken, node |-> r.node, key |-> r.key, entry |-> x]
  BY <1>1, <1>3
<1>5. GoesOn(p)
  BY <1>2, <1>4 DEF GoesOn
<1>6. how = "verifying" => x.key = r.key /\ Spent(run[p].entry)'
  <2>1. SUFFICES ASSUME how = "verifying" PROVE x.key = r.key /\ Spent(run[p].entry)'
    OBVIOUS
  <2>2. PICK y : y = x
    OBVIOUS
  <2>3. y \in entries /\ y.key = r.key
    BY <1>1, <2>1, <2>2, FoundEntry DEF StepInv
  <2>4. Spent(y) /\ run'[p].taken \in Nat /\ \A q \in Procs : q # p => run'[q] = run[q]
    BY <1>1, <1>3, <1>4, <2>3 DEF StepInv, RunIsSound
  <2>5. Spent(y)'
    BY <1>5, <2>4, SpentStays
  <2>6. run'[p].entry = y
    BY <1>4, <2>2
  <2> QED
    BY <2>2, <2>3, <2>5, <2>6
<1> HIDE DEF x
<1>7. RunIsSound(p)'
  <2>1. KeyFits(p) => KeyFits(p)'
    BY <1>2, <1>4 DEF KeyFits, Between
  <2> QED
    BY <1>1, <1>2, <1>3, <1>4, <1>6, <2>1 DEF RunIsSound, Keyed, Verifies, InFlight
<1> QED
  BY <1>1, <1>2, <1>3, <1>4, <1>5, <1>7, RunStep

LEMMA StartStep ==
  ASSUME StepInv, NEW p \in Procs, Steps!Start(p)
  PROVE  StepInv'
<1> DEFINE r == run[p]
           read == Steps!Restricted(work[p], r.node.reads)
<1>1. /\ r.phase \in {"bypassed", "verifying", "missed"}
      /\ run' = [run EXCEPT ![p] =
           [phase |-> "running", taken |-> r.taken, node |-> r.node, key |-> r.key,
            was |-> r.phase, entry |-> r.entry, read |-> read]]
      /\ UNCHANGED <<head, work, entries, now>>
  BY DEF Steps!Start
<1>2. DOMAIN run = Procs /\ RunIsSound(p)
  BY DEF StepInv
<1>3. run'[p] = [phase |-> "running", taken |-> r.taken, node |-> r.node, key |-> r.key,
                 was |-> r.phase, entry |-> r.entry, read |-> read]
  BY <1>1, <1>2
<1>4. GoesOn(p)
  BY <1>1, <1>3 DEF GoesOn
<1>5. KeyFits(p) => KeyFits(p)'
  BY <1>1, <1>3 DEF KeyFits, Between
<1>6. r.phase # "bypassed" => DOMAIN read = r.node.reads /\ Between(p, read, r.node.reads)
  <2> SUFFICES ASSUME r.phase # "bypassed"
               PROVE  DOMAIN read = r.node.reads /\ Between(p, read, r.node.reads)
    OBVIOUS
  <2>1. r.node \in Slices /\ Steps!IsHandlerCacheable(r.node)
    BY <1>1, <1>2 DEF RunIsSound, Keyed, KeyFits, Steps!KeyOf
  <2>2. r.node.reads \subseteq StepFiles
    BY <2>1, KeyFilesAre DEF KeyFiles
  <2>3. \A f \in StepFiles : work[p][f] \in Int
    BY StepsAssumed DEF StepInv, Steps!TypeOK
  <2>4. \A f \in StepFiles \ Ignored : head[p][f] <= work[p][f]
    BY DEF StepInv
  <2> QED
    BY <2>2, <2>3, <2>4 DEF Between, Steps!Restricted
<1>7. Verifies(r) => Spent(run[p].entry)'
  <2>1. PICK y : y = r.entry
    OBVIOUS
  <2>2. Verifies(r) => Spent(y)
    BY <1>2, <2>1 DEF RunIsSound
  <2>3. run'[p].taken \in Nat /\ \A q \in Procs : q # p => run'[q] = run[q]
    BY <1>1, <1>2, <1>3 DEF RunIsSound
  <2>4. Verifies(r) => Spent(y)'
    BY <1>4, <2>2, <2>3, SpentStays
  <2>5. run'[p].entry = y
    BY <1>3, <2>1
  <2> QED
    BY <2>4, <2>5
<1> HIDE DEF read
<1>8. RunIsSound(p)'
  <2>1. r.phase # "bypassed" =>
          Between(p, run[p].read, run[p].node.reads)'
    BY <1>1, <1>3, <1>6 DEF Between
  <2> QED
    BY <1>1, <1>2, <1>3, <1>5, <1>6, <1>7, <2>1 DEF RunIsSound, Keyed, Verifies, InFlight
<1> QED
  BY <1>1, <1>2, <1>3, <1>4, <1>8, RunStep

\* A pass is recorded under the key only if the files that were read are those
\* that the key was made of.
LEMMA RecordedIsSound ==
  ASSUME StepInv, NEW p \in Procs, run[p].phase = "running", Steps!Passes(run[p].read),
         NEW w \in Steps!Record(p, TRUE)
  PROVE  /\ w = [op |-> "put", entry |-> w.entry] /\ w.entry.by = <<p, run[p].taken>>
         /\ w.entry.key = run[p].key /\ EntryIsSound(w.entry)
<1> DEFINE r == run[p]
           x == [key |-> r.key, createdAt |-> now, expires |-> now + Settings[p].ttl,
                 signed |-> Settings[p].private = "good", by |-> <<p, r.taken>>]
<1>1. /\ r.was # "bypassed" /\ Settings[p].write /\ Steps!Eligible(r.node, head[p], work[p])
      /\ w = [op |-> "put", entry |-> x]
  BY DEF Steps!Record, Steps!CreateCacheEntry
<1>2. /\ r.key # Steps!NoKey /\ r.node \in Slices /\ KeyFits(p) /\ r.taken \in Nat
      /\ DOMAIN r.read = r.node.reads /\ Between(p, r.read, r.node.reads)
  BY <1>1 DEF StepInv, RunIsSound, Keyed, InFlight
<1>3. Steps!IsHandlerCacheable(r.node)
  BY <1>2 DEF KeyFits, Steps!KeyOf
<1>4. r.node.reads \subseteq KeyFiles(r.node)
  BY <1>2, <1>3, KeyFilesAre
<1>5. \A f \in r.node.reads : r.read[f] = work[p][f]
  BY <1>1, <1>2, <1>3, <1>4, ReadIsCurrent
<1>6. \A f \in KeyFiles(r.node) : Steps!KeyContent(r.key)[f] = work[p][f]
  BY <1>1, <1>2, <1>3, ReadIsCurrent DEF KeyFits
<1>7. Steps!Passes(Steps!Restricted(Steps!KeyContent(r.key), r.node.reads))
  BY <1>2, <1>4, <1>5, <1>6 DEF Steps!Passes, Steps!Restricted
<1>8. \A y \in Slices : Steps!KeyOf(r.key, y) => y.reads = r.node.reads
  <2> SUFFICES ASSUME NEW y \in Slices, Steps!KeyOf(r.key, y) PROVE y.reads = r.node.reads
    OBVIOUS
  <2>1. Steps!KeyOf(r.key, r.node)
    BY <1>2 DEF KeyFits
  <2> QED
    BY <1>2, <2>1, CacheAssumptions DEF Steps!KeyOf, Steps!StepsAssumption
<1>9. EntryIsSound(x)
  <2>1. now \in Nat
    BY DEF StepInv
  <2>2. x.key = r.key /\ x.createdAt = now /\ x.expires = now + Settings[p].ttl
    OBVIOUS
  <2>3. x.by = <<p, r.taken>> /\ x.by[1] = p
    OBVIOUS
  <2>4. x.signed => Settings[p].private = "good"
    OBVIOUS
  <2> HIDE DEF x
  <2>5. \A y \in Slices : Steps!KeyOf(x.key, y) =>
          Steps!Passes(Steps!Restricted(Steps!KeyContent(x.key), y.reads))
    BY <1>7, <1>8, <2>2
  <2> QED
    BY <1>1, <1>2, <2>1, <2>2, <2>3, <2>4, <2>5 DEF EntryIsSound
<1> QED
  BY <1>1, <1>9

LEMMA FinishStep ==
  ASSUME StepInv, NEW p \in Procs, NEW passed \in BOOLEAN, Steps!Finish(p, passed)
  PROVE  StepInv'
<1> DEFINE r == run[p]
           writes == Steps!Invalidate(p, passed) \cup Steps!Record(p, passed)
<1>1. /\ r.phase = "running" /\ (passed => Steps!Passes(r.read))
      /\ run' = [run EXCEPT ![p] =
           [phase |-> "writing", taken |-> r.taken, node |-> r.node, key |-> r.key,
            was |-> r.was, entry |-> r.entry, passed |-> passed, pending |-> writes]]
      /\ UNCHANGED <<head, work, entries, now>>
  BY DEF Steps!Finish
<1>2. DOMAIN run = Procs /\ RunIsSound(p)
  BY DEF StepInv
<1>3. run'[p] = [phase |-> "writing", taken |-> r.taken, node |-> r.node, key |-> r.key,
                 was |-> r.was, entry |-> r.entry, passed |-> passed, pending |-> writes]
  BY <1>1, <1>2
<1>4. GoesOn(p)
  BY <1>1, <1>3 DEF GoesOn
<1>5. KeyFits(p) => KeyFits(p)'
  BY <1>1, <1>3 DEF KeyFits, Between
<1>6. Verifies(r) => Spent(run[p].entry)'
  <2>1. PICK y : y = r.entry
    OBVIOUS
  <2>2. Verifies(r) => Spent(y)
    BY <1>2, <2>1 DEF RunIsSound
  <2>3. run'[p].taken \in Nat /\ \A q \in Procs : q # p => run'[q] = run[q]
    BY <1>1, <1>2, <1>3 DEF RunIsSound
  <2>4. Verifies(r) => Spent(y)'
    BY <1>4, <2>2, <2>3, SpentStays
  <2>5. run'[p].entry = y
    BY <1>3, <2>1
  <2> QED
    BY <2>4, <2>5
<1>7. \A w \in writes : w.op = "put" =>
        /\ w = [op |-> "put", entry |-> w.entry] /\ w.entry.by = <<p, r.taken>>
        /\ w.entry.key = r.key /\ EntryIsSound(w.entry)'
  <2> SUFFICES ASSUME NEW w \in writes, w.op = "put"
               PROVE  /\ w = [op |-> "put", entry |-> w.entry] /\ w.entry.by = <<p, r.taken>>
                      /\ w.entry.key = r.key /\ EntryIsSound(w.entry)'
    OBVIOUS
  <2>1. passed = TRUE /\ w \in Steps!Record(p, TRUE)
    BY DEF Steps!Invalidate, Steps!Record
  <2>2. /\ w = [op |-> "put", entry |-> w.entry] /\ w.entry.by = <<p, r.taken>>
        /\ w.entry.key = r.key /\ EntryIsSound(w.entry)
    BY <1>1, <2>1, RecordedIsSound
  <2>3. now' = now /\ now \in Nat
    BY <1>1 DEF StepInv
  <2> QED
    BY <2>2, <2>3, EntryStays
<1>8. r.was = "verifying" /\ ~passed /\ Settings[p].write =>
        (\A w \in writes : w.op # "put") /\ [op |-> "invalidate"] \in writes
  BY DEF Steps!Invalidate, Steps!Record
<1> HIDE DEF writes
<1>9. RunIsSound(p)'
  BY <1>1, <1>2, <1>3, <1>5, <1>6, <1>7, <1>8 DEF RunIsSound, Keyed, Verifies, InFlight
<1> QED
  BY <1>1, <1>2, <1>3, <1>4, <1>9, RunStep

LEMMA LandStep ==
  ASSUME StepInv, NEW p \in Procs, Steps!Land(p)
  PROVE  StepInv'
<1> DEFINE r == run[p]
<1>1. PICK w \in r.pending :
        /\ entries' = {x \in entries : x.key # r.key} \cup IF w.op = "put" THEN {w.entry} ELSE {}
        /\ run' = [run EXCEPT ![p].pending = @ \ {w}]
  BY DEF Steps!Land
<1>2. r.phase = "writing" /\ UNCHANGED <<head, work, now>>
  BY DEF Steps!Land
<1>3. /\ DOMAIN run = Procs /\ now \in Nat /\ RunIsSound(p)
      /\ r = [phase |-> r.phase, taken |-> r.taken, node |-> r.node, key |-> r.key,
              was |-> r.was, entry |-> r.entry, passed |-> r.passed, pending |-> r.pending]
  BY <1>2 DEF StepInv, RunIsSound
<1>4. run'[p] = [phase |-> r.phase, taken |-> r.taken, node |-> r.node, key |-> r.key,
                 was |-> r.was, entry |-> r.entry, passed |-> r.passed, pending |-> r.pending \ {w}]
  BY <1>1, <1>3
<1>5. \A q \in Procs : q # p => run'[q] = run[q]
  BY <1>1
<1>6. GoesOn(p) /\ run'[p].taken \in Nat
  BY <1>2, <1>3, <1>4 DEF GoesOn, RunIsSound
<1>7. \A x : Spent(x) => Spent(x)'
  BY <1>5, <1>6, SpentStays
<1>8. \A x : EntryIsSound(x) => EntryIsSound(x)'
  BY <1>2, <1>3, EntryStays
<1>9. w.op = "put" =>
        /\ w = [op |-> "put", entry |-> w.entry] /\ w.entry.by = <<p, r.taken>>
        /\ w.entry.key = r.key /\ EntryIsSound(w.entry) /\ ~Spent(w.entry)
  BY <1>1, <1>2, <1>3 DEF RunIsSound, Spent
<1>10. w.op = "put" => Spent(w.entry)'
  <2> SUFFICES ASSUME w.op = "put" PROVE Spent(w.entry)'
    OBVIOUS
  <2>1. \A u \in r.pending : u.op = "put" => u = [op |-> "put", entry |-> u.entry]
    BY <1>2, <1>3 DEF RunIsSound
  <2>2. \A u \in r.pending \ {w} : u.op = "put" => u.entry # w.entry
    BY <1>9, <2>1
  <2>3. w.entry.by \in Procs \X Nat /\ w.entry.by[1] = p /\ w.entry.by[2] = r.taken
    BY <1>3, <1>9 DEF RunIsSound
  <2>4. run'[p].phase = "writing" /\ run'[p].taken = r.taken /\ run'[p].pending = r.pending \ {w}
    BY <1>2, <1>4
  <2>5. run'[p].taken \in Nat
    BY <1>6
  <2> QED
    BY <2>2, <2>3, <2>4, <2>5 DEF Spent
<1>11. \A x \in entries' : x \in entries \/ (w.op = "put" /\ x = w.entry)
  BY <1>1
<1>12. \A x : Spent(x) /\ x \notin entries => x \notin entries'
  BY <1>9, <1>11
<1>13. ASSUME NEW q \in Procs, q # p PROVE RunIsSound(q)'
  <2>1. RunIsSound(q) /\ run'[q] = run[q]
    BY <1>5, <1>13 DEF StepInv
  <2> QED
    BY <1>2, <1>7, <1>8, <1>12, <2>1 DEF RunIsSound, KeyFits, Between, Keyed, Verifies, InFlight
<1>14. RunIsSound(p)'
  <2>1. KeyFits(p) => KeyFits(p)'
    BY <1>2, <1>4 DEF KeyFits, Between
  <2>2. Verifies(r) => run'[p].entry.key = run'[p].key /\ Spent(run[p].entry)'
    <3>1. PICK y : y = r.entry
      OBVIOUS
    <3>2. Verifies(r) => y.key = r.key /\ Spent(y)
      BY <1>3, <3>1 DEF RunIsSound
    <3> QED
      BY <1>4, <1>7, <3>1, <3>2
  <2>3. \A u \in r.pending \ {w} : u.op = "put" =>
          /\ u = [op |-> "put", entry |-> u.entry] /\ u.entry.by = <<p, r.taken>>
          /\ u.entry.key = r.key /\ EntryIsSound(u.entry)'
    BY <1>2, <1>3, <1>8 DEF RunIsSound
  <2>4. r.was = "verifying" /\ ~r.passed /\ Settings[p].write =>
          /\ \A u \in r.pending \ {w} : u.op # "put"
          /\ [op |-> "invalidate"] \in r.pending \ {w} \/ r.entry \notin entries'
    <3> SUFFICES ASSUME r.was = "verifying", ~r.passed, Settings[p].write
                 PROVE  /\ \A u \in r.pending \ {w} : u.op # "put"
                        /\ [op |-> "invalidate"] \in r.pending \ {w} \/ r.entry \notin entries'
      OBVIOUS
    <3>1. /\ \A u \in r.pending : u.op # "put"
          /\ [op |-> "invalidate"] \in r.pending \/ r.entry \notin entries
          /\ r.entry.key = r.key
      BY <1>2, <1>3 DEF RunIsSound, Verifies, InFlight
    <3>2. entries' = {x \in entries : x.key # r.key}
      BY <1>1, <3>1
    <3> QED
      BY <3>1, <3>2
  <2>5. r.passed \in BOOLEAN /\ r.taken \in Nat /\ r.node \in Slices
        /\ (r.key = Steps!NoKey \/ KeyFits(p)) /\ (Keyed(r) => r.key # Steps!NoKey)
    BY <1>2, <1>3 DEF RunIsSound
  <2> QED
    BY <1>2, <1>4, <2>1, <2>2, <2>3, <2>4, <2>5 DEF RunIsSound, Keyed, Verifies, InFlight
<1>15. Steps!TypeOK'
  <2>1. \A x \in entries' : x.createdAt <= now' /\ x.key # Steps!NoKey
    BY <1>2, <1>9, <1>11 DEF StepInv, Steps!TypeOK, EntryIsSound
  <2>2. \A x, y \in entries' : x.key = y.key => x = y
    BY <1>1, <1>9 DEF StepInv, Steps!TypeOK
  <2> QED
    BY <1>2, <1>4, <1>5, <2>1, <2>2 DEF StepInv, Steps!TypeOK
<1>16. \A x \in entries' : (EntryIsSound(x) /\ Spent(x))'
  BY <1>7, <1>8, <1>9, <1>10, <1>11 DEF StepInv
<1> QED
  BY <1>1, <1>2, <1>3, <1>13, <1>14, <1>15, <1>16 DEF StepInv

LEMMA SettleStep ==
  ASSUME StepInv, NEW p \in Procs, Steps!Return(p) \/ Steps!LoseWrites(p)
  PROVE  StepInv'
<1>1. /\ run' = [run EXCEPT ![p] = [phase |-> "idle", taken |-> run[p].taken]]
      /\ UNCHANGED <<head, work, entries, now>>
  BY DEF Steps!Return, Steps!LoseWrites, Steps!Idle
<1>2. DOMAIN run = Procs /\ run[p].taken \in Nat
  BY DEF StepInv, RunIsSound
<1>3. run'[p] = [phase |-> "idle", taken |-> run[p].taken]
  BY <1>1, <1>2
<1>4. RunIsSound(p)' /\ GoesOn(p)
  BY <1>2, <1>3 DEF RunIsSound, GoesOn, Keyed, Verifies, InFlight
<1> QED
  BY <1>1, <1>2, <1>3, <1>4, RunStep

\* A step of the files in p's checkout.
LEMMA TreeStep ==
  ASSUME StepInv, NEW p \in Procs, UNCHANGED <<entries, now, run>>,
         head' \in [Procs -> [StepFiles -> 0 .. MaxVersion]],
         work' \in [Procs -> [StepFiles -> 0 .. MaxVersion]],
         \A q \in Procs : q # p => head'[q] = head[q] /\ work'[q] = work[q],
         \A f \in StepFiles \ Ignored : head'[p][f] <= work'[p][f],
         run[p].phase = "idle" \/
           /\ head'[p] = head[p]
           /\ \A f \in Ignored : work'[p][f] = work[p][f]
           /\ \A f \in StepFiles \ Ignored : work[p][f] <= work'[p][f]
  PROVE  StepInv'
<1>1. Steps!TypeOK'
  BY DEF StepInv, Steps!TypeOK
<1>2. \A x : (Spent(x) => Spent(x)') /\ (EntryIsSound(x) => EntryIsSound(x)')
  BY DEF Spent, EntryIsSound
<1>3. ASSUME NEW q \in Procs, q # p PROVE RunIsSound(q)'
  <2>1. RunIsSound(q)
    BY DEF StepInv
  <2> QED
    BY <1>2, <1>3, <2>1 DEF RunIsSound, KeyFits, Between
<1>4. RunIsSound(p)'
  <2>1. RunIsSound(p)
    BY DEF StepInv
  <2>2. CASE run[p].phase = "idle"
    BY <2>1, <2>2 DEF RunIsSound, Keyed, Verifies, InFlight
  <2>3. CASE run[p].phase # "idle"
    <3>1. \A c, S : S \subseteq StepFiles /\ Between(p, c, S) => Between(p, c, S)'
      <4> SUFFICES ASSUME NEW c, NEW S \in SUBSET StepFiles, Between(p, c, S) PROVE Between(p, c, S)'
        OBVIOUS
      <4>1. \A f \in StepFiles \ Ignored : work[p][f] \in Int /\ work'[p][f] \in Int /\ head[p][f] \in Int
        BY StepsAssumed DEF StepInv, Steps!TypeOK
      <4>2. /\ head'[p] = head[p]
            /\ \A f \in Ignored : work'[p][f] = work[p][f]
            /\ \A f \in StepFiles \ Ignored : work[p][f] <= work'[p][f]
        BY <2>3
      <4> QED
        BY <4>1, <4>2 DEF Between
    <3>2. run[p].node \in Slices /\ KeyFiles(run[p].node) \subseteq StepFiles
      BY <2>1, <2>3, KeyFilesAre DEF RunIsSound, KeyFiles
    <3>3. KeyFits(p) => KeyFits(p)'
      BY <3>1, <3>2 DEF KeyFits
    <3>4. ASSUME InFlight(run[p]), run[p].was # "bypassed"
          PROVE  run[p].node.reads \subseteq StepFiles
      BY <2>1, <3>2, <3>4, KeyFilesAre DEF RunIsSound, Keyed, InFlight, KeyFits, Steps!KeyOf
    <3> QED
      BY <1>2, <2>1, <2>3, <3>1, <3>3, <3>4 DEF RunIsSound, Keyed, Verifies, InFlight
  <2> QED
    BY <2>2, <2>3
<1> QED
  BY <1>1, <1>2, <1>3, <1>4 DEF StepInv

LEMMA EditStep ==
  ASSUME StepInv, NEW p \in Procs, NEW f \in StepFiles, Steps!Edit(p, f)
  PROVE  StepInv'
<1>1. /\ work[p][f] < MaxVersion /\ (f \in Ignored => run[p].phase = "idle")
      /\ work' = [work EXCEPT ![p][f] = work[p][f] + 1]
      /\ UNCHANGED <<head, entries, now, run>>
  BY DEF Steps!Edit
<1>2. /\ head \in [Procs -> [StepFiles -> 0 .. MaxVersion]]
      /\ work \in [Procs -> [StepFiles -> 0 .. MaxVersion]]
      /\ \A g \in StepFiles \ Ignored : head[p][g] <= work[p][g]
  BY DEF StepInv, Steps!TypeOK
<1>3. work[p][f] + 1 \in 0 .. MaxVersion
  BY <1>1, <1>2, StepsAssumed
<1>4. work' \in [Procs -> [StepFiles -> 0 .. MaxVersion]]
  BY <1>1, <1>2, <1>3
<1>5. \A g \in StepFiles : work'[p][g] = IF g = f THEN work[p][f] + 1 ELSE work[p][g]
  BY <1>1, <1>2
<1>6. \A q \in Procs : q # p => work'[q] = work[q]
  BY <1>1, <1>2
<1>7. \A g \in StepFiles \ Ignored :
        work[p][g] <= work'[p][g] /\ head[p][g] <= work'[p][g]
  BY <1>2, <1>5, StepsAssumed
<1>8. run[p].phase # "idle" => \A g \in Ignored : work'[p][g] = work[p][g]
  BY <1>1, <1>5, StepsAssumed
<1> QED
  BY <1>1, <1>2, <1>4, <1>6, <1>7, <1>8, TreeStep

LEMMA MakeCleanStep ==
  ASSUME StepInv, NEW p \in Procs, Steps!MakeClean(p)
  PROVE  StepInv'
<1> DEFINE h == [f \in StepFiles |-> IF f \in Ignored THEN 0 ELSE work[p][f]]
           t == [f \in StepFiles |-> IF f \in Ignored THEN work[p][f] ELSE head[p][f]]
<1>1. /\ run[p].phase = "idle" /\ UNCHANGED <<entries, now, run>>
      /\ \/ head' = [head EXCEPT ![p] = h] /\ work' = work
         \/ work' = [work EXCEPT ![p] = t] /\ head' = head
  BY DEF Steps!MakeClean
<1>2. /\ head \in [Procs -> [StepFiles -> 0 .. MaxVersion]]
      /\ work \in [Procs -> [StepFiles -> 0 .. MaxVersion]]
  BY DEF StepInv, Steps!TypeOK
<1>3. h \in [StepFiles -> 0 .. MaxVersion] /\ t \in [StepFiles -> 0 .. MaxVersion]
  BY <1>2, StepsAssumed
<1>4. \A f \in StepFiles \ Ignored : h[f] <= work[p][f] /\ head[p][f] <= t[f]
  BY <1>2, StepsAssumed
<1> HIDE DEF h, t
<1> QED
  BY <1>1, <1>2, <1>3, <1>4, TreeStep

LEMMA StepStep == StepInv /\ Steps!Next => StepInv'
<1> SUFFICES ASSUME StepInv, Steps!Next PROVE StepInv'
  OBVIOUS
<1>1. CASE Steps!Tick
  <2>1. UNCHANGED <<head, work, entries, run>> /\ now' = now + 1 /\ now \in Nat
    BY <1>1 DEF Steps!Tick, StepInv
  <2>2. \A x : (Spent(x) => Spent(x)') /\ (EntryIsSound(x) => EntryIsSound(x)')
    <3>1. now' \in Nat /\ now <= now'
      BY <2>1
    <3> QED
      BY <2>1, <3>1, EntryStays DEF Spent
  <2>3. \A p \in Procs : RunIsSound(p)'
    BY <2>1, <2>2 DEF StepInv, RunIsSound, KeyFits, Between
  <2>4. Steps!TypeOK'
    BY <2>1 DEF StepInv, Steps!TypeOK, EntryIsSound
  <2> QED
    BY <2>1, <2>2, <2>3, <2>4 DEF StepInv
<1>2. ASSUME NEW p \in Procs,
             \/ \E x \in Slices : Steps!ComputeKey(p, x)
             \/ Steps!Lookup(p) \/ Steps!Start(p) \/ Steps!Land(p)
             \/ Steps!Return(p) \/ Steps!LoseWrites(p)
             \/ \E passed \in BOOLEAN : Steps!Finish(p, passed)
             \/ \E f \in StepFiles : Steps!Edit(p, f)
             \/ Steps!MakeClean(p)
      PROVE  StepInv'
  BY <1>2, ComputeKeyStep, LookupStep, StartStep, LandStep, SettleStep, FinishStep, EditStep,
     MakeCleanStep
<1> QED
  BY <1>1, <1>2 DEF Steps!Next

LEMMA HitIsLookup ==
  ASSUME StepInv, Steps!Next, NEW p \in Procs, run[p].phase = "keyed", run'[p].phase = "hit"
  PROVE  /\ run[p].key # Steps!NoKey /\ Steps!Eligible(run[p].node, head[p], work[p])
         /\ Steps!ValidateEntry(p, Steps!StoreGet(run[p].key))
<1>0. DOMAIN run = Procs
  BY DEF StepInv
<1>1. Steps!Lookup(p)
  <2>1. CASE Steps!Tick
    BY <2>1 DEF Steps!Tick
  <2>2. ASSUME NEW q \in Procs, \E x \in Slices : Steps!ComputeKey(q, x)
        PROVE  FALSE
    <3>1. PICK x \in Slices : Steps!ComputeKey(q, x)
      BY <2>2
    <3>2. run' = [run EXCEPT ![q] = [phase |-> "keyed", taken |-> run[q].taken + 1, node |-> x,
                    key |-> Steps!StepKeyOf(x, head[q], work[q])]]
      BY <3>1 DEF Steps!ComputeKey
    <3> QED
      BY <1>0, <3>2
  <2>3. ASSUME NEW q \in Procs, Steps!Start(q) PROVE FALSE
    BY <1>0, <2>3 DEF Steps!Start
  <2>4. ASSUME NEW q \in Procs, NEW passed \in BOOLEAN, Steps!Finish(q, passed) PROVE FALSE
    BY <1>0, <2>4 DEF Steps!Finish
  <2>5. ASSUME NEW q \in Procs, Steps!Land(q) PROVE FALSE
    <3>1. PICK w \in run[q].pending : run' = [run EXCEPT ![q].pending = run[q].pending \ {w}]
      BY <2>5 DEF Steps!Land
    <3>2. q # p
      BY <2>5 DEF Steps!Land
    <3>3. run'[p] = run[p]
      BY <1>0, <3>1, <3>2
    <3> QED
      BY <3>3
  <2>6. ASSUME NEW q \in Procs, Steps!Return(q) \/ Steps!LoseWrites(q) PROVE FALSE
    BY <1>0, <2>6 DEF Steps!Return, Steps!LoseWrites, Steps!Idle
  <2>7. ASSUME NEW q \in Procs, Steps!MakeClean(q) \/ \E f \in StepFiles : Steps!Edit(q, f)
        PROVE  FALSE
    BY <2>7 DEF Steps!MakeClean, Steps!Edit
  <2>8. ASSUME NEW q \in Procs, Steps!Lookup(q), q # p PROVE FALSE
    <3>1. run' = [run EXCEPT ![q] = run'[q]]
      BY <1>0, <2>8 DEF Steps!Lookup, Steps!Found
    <3> QED
      BY <1>0, <2>8, <3>1
  <2> QED
    BY <2>1, <2>2, <2>3, <2>4, <2>5, <2>6, <2>7, <2>8 DEF Steps!Next
<1>2. ASSUME \/ run[p].key = Steps!NoKey \/ ~Steps!Eligible(run[p].node, head[p], work[p])
             \/ ~Steps!ValidateEntry(p, Steps!StoreGet(run[p].key))
      PROVE  FALSE
  <2>1. Steps!Found(p, "bypassed") \/ Steps!Found(p, "missed")
    BY <1>1, <1>2 DEF Steps!Lookup
  <2> QED
    BY <1>0, <2>1 DEF Steps!Found
<1> QED
  BY <1>2

LEMMA StepHits ==
  StepInv /\ Steps!Next => Steps!SkippedWouldPass /\ Steps!HitsAreTrusted /\ Steps!FalseHitDropped
<1> SUFFICES ASSUME StepInv, Steps!Next
             PROVE  Steps!SkippedWouldPass /\ Steps!HitsAreTrusted /\ Steps!FalseHitDropped
  OBVIOUS
<1>1. ASSUME NEW p \in Procs, run[p].phase = "keyed", run'[p].phase = "hit"
      PROVE  /\ Steps!Passes(Steps!Restricted(work[p], run[p].node.reads))
             /\ \E x \in entries : LET w == Settings[x.by[1]] IN
                  /\ x.key = run[p].key /\ w.write
                  /\ now <= x.createdAt + Settings[p].ttl /\ now <= x.createdAt + w.ttl
                  /\ Settings[p].public => w.private = "good"
  <2> DEFINE r == run[p]
             y == Steps!StoreGet(r.key)
  <2>1. /\ r.key # Steps!NoKey /\ Steps!Eligible(r.node, head[p], work[p])
        /\ Steps!ValidateEntry(p, y)
    BY <1>1, HitIsLookup
  <2>2. PICK x : x = y
    OBVIOUS
  <2>3. /\ x # Steps!NoEntry /\ x.createdAt + Settings[p].ttl >= now
        /\ Settings[p].public => x.signed
    BY <2>1, <2>2 DEF Steps!ValidateEntry
  <2>4. x \in entries /\ x.key = r.key /\ ~(x.expires < now)
    BY <2>1, <2>2, <2>3, FoundEntry DEF StepInv
  <2>5. EntryIsSound(x) /\ now \in Nat
    BY <2>4 DEF StepInv
  <2>6. r.node \in Slices /\ KeyFits(p)
    BY <1>1, <2>1 DEF StepInv, RunIsSound
  <2>7. Steps!Passes(Steps!Restricted(Steps!KeyContent(r.key), r.node.reads))
    BY <2>4, <2>5, <2>6 DEF EntryIsSound, KeyFits
  <2>8. Steps!IsHandlerCacheable(r.node)
    BY <2>6 DEF KeyFits, Steps!KeyOf
  <2>9. r.node.reads \subseteq KeyFiles(r.node)
    BY <2>6, <2>8, KeyFilesAre
  <2>10. \A f \in KeyFiles(r.node) : Steps!KeyContent(r.key)[f] = work[p][f]
    BY <2>1, <2>6, <2>8, ReadIsCurrent DEF KeyFits
  <2>11. Steps!Passes(Steps!Restricted(work[p], r.node.reads))
    BY <2>7, <2>9, <2>10 DEF Steps!Passes, Steps!Restricted
  <2>12. Settings[x.by[1]].ttl \in Nat /\ Settings[p].ttl \in Nat
    <3>1. x.by[1] \in Procs
      BY <2>5 DEF EntryIsSound
    <3> QED
      BY <3>1, CacheAssumptions DEF Steps!SettingsAssumption
  <2>13. LET w == Settings[x.by[1]] IN
           /\ x.key = run[p].key /\ w.write
           /\ now <= x.createdAt + Settings[p].ttl /\ now <= x.createdAt + w.ttl
           /\ Settings[p].public => w.private = "good"
    BY <2>3, <2>4, <2>5, <2>12 DEF EntryIsSound
  <2> QED
    BY <2>4, <2>11, <2>13
<1>2. ASSUME NEW p \in Procs, Steps!FalseHit(p), Settings[p].write, Steps!Return(p)
      PROVE  run[p].entry \notin entries
  BY <1>2 DEF Steps!FalseHit, Steps!Return, StepInv, RunIsSound
<1> QED
  BY <1>1, <1>2 DEF Steps!SkippedWouldPass, Steps!HitsAreTrusted, Steps!FalseHitDropped

-----------------------------------------------------------------------------
(* The plan: its lookups, and what is left of it. *)

needs    == v1
stage    == v2
place    == v3
found    == v4
sliced   == v5
adjusted == v6
status   == v7
recorded == v9
stats    == v10
mode     == v11

USE DEF needs, stage, place, found, sliced, adjusted, status, recorded, stats, mode

Looking   == {"scan", "await", "crashed"}
Executing == {"run", "settle", "returned"}
Answers   == {"hit", "miss", "verify", "bypass", "error"}

\* The scanning loop, and the awaiting loop, has left n behind.
Scanned(n) == stage \in {"await"} \cup Executing \/ (stage = "scan" /\ n < place)
Awaited(n) == stage \in Executing \/ (stage = "await" /\ n < place)

\* What the counters count: the targets whose hit is verified, and those of them
\* that failed.
Pairs       == Plan!Nodes \X ((UNION {Batches[n] : n \in Plan!Nodes}) \cup {"whole"})
Verified(n) == IF Batches[n] = {} /\ ~Awaited(n) THEN {} ELSE Plan!Verifying(n)
VerifiedPairs == {q \in Pairs : q[2] \in Verified(q[1])}
FalsePairs    == {q \in Pairs : status[q[1]] = "failure" /\ q[2] \in Verified(q[1])}

Ran == {"running", "success", "failure"}

PlanInv ==
  /\ needs \in Plans /\ place \in Plan!Nodes
  /\ Plan!TypeOK
  /\ stage \in Looking => status = [n \in Plan!Nodes |-> "pending"] /\ recorded = {}
  /\ DOMAIN sliced = Plan!Nodes
  /\ \A n \in Plan!Nodes : Batches[n] # {} /\ Scanned(n) => sliced[n] \in [Batches[n] -> Answers]
  /\ \A n \in Plan!Nodes : Batches[n] = {} /\ Awaited(n) => found[n] \in Answers
  /\ stage = "await" => \A n \in Plan!Nodes : Batches[n] = {} => found[n] # "none"
  /\ stage = "scan" => \A n \in Plan!Nodes :
       /\ n < place /\ Batches[n] = {} => found[n] # "none"
       /\ n >= place => sliced[n] = << >>
  /\ stage \in Executing =>
       /\ adjusted = Plan!FilterPlanNodes(Plan!SkipNodes)
       /\ \A n \in Plan!Nodes \ Plan!SkipNodes :
            status[n] \in Ran => \A d \in adjusted[n] : status[d] = "success"
  /\ Plan!RecordsAreProven /\ \A r \in recorded : r[1] \in Plan!Nodes
  /\ stage = "run" => \A n \in Plan!Nodes :
       /\ status[n] # "skipped"
       /\ n \in Plan!SkipNodes => status[n] = "pending"
  /\ stage \in {"settle", "returned"} => \A n \in Plan!Nodes :
       \/ n \in Plan!SkipNodes /\ status[n] = "success"
       \/ n \notin Plan!SkipNodes /\ status[n] \in {"success", "failure"}
       \/ /\ n \notin Plan!SkipNodes /\ status[n] = "skipped"
          /\ Plan!Aborted \/ \E d \in adjusted[n] : status[d] \in {"skipped", "failure"}
  /\ stats \in [hits : Nat, misses : Nat, bypasses : Nat, verifications : Nat, falseHits : Nat]
  /\ stage # "crashed" =>
       /\ stats.verifications = Cardinality(VerifiedPairs)
       /\ stats.falseHits = Cardinality(FalsePairs)

LEMMA PlanAssumed ==
  /\ NodeCount \in Nat \ {0} /\ Plan!Nodes = 1 .. NodeCount /\ DOMAIN Batches = Plan!Nodes
  /\ IsFiniteSet(Plan!Nodes) /\ Cardinality(Plan!Nodes) = NodeCount
  /\ \A n \in Plan!Nodes : IsFiniteSet(Batches[n]) /\ "whole" \notin Batches[n]
  /\ \A f \in Plans : /\ f \in [Plan!Nodes -> SUBSET Plan!Nodes]
                      /\ \A S \in SUBSET Plan!Nodes : S # {} => \E n \in S : f[n] \cap S = {}
<1>1. /\ NodeCount \in Nat \ {0} /\ Plan!Nodes = 1 .. NodeCount /\ DOMAIN Batches = Plan!Nodes
      /\ \A n \in Plan!Nodes : IsFiniteSet(Batches[n]) /\ "whole" \notin Batches[n]
      /\ \A f \in Plans : /\ f \in [Plan!Nodes -> SUBSET Plan!Nodes]
                          /\ \A S \in SUBSET Plan!Nodes : S # {} => \E n \in S : f[n] \cap S = {}
  BY CacheAssumptions DEF Plan!CachedPlanAssumption, Plan!Nodes, Plan!IsFiniteSet, IsFiniteSet
<1>2. IsFiniteSet(1 .. NodeCount) /\ Cardinality(1 .. NodeCount) = NodeCount
  <2>1. /\ NodeCount \in Int /\ 1 \in Int /\ ~(1 > NodeCount) /\ NodeCount - 1 + 1 = NodeCount
    BY <1>1
  <2>2. /\ IsFiniteSet(1 .. NodeCount)
        /\ Cardinality(1 .. NodeCount) = IF 1 > NodeCount THEN 0 ELSE NodeCount - 1 + 1
    BY <2>1, FS_Interval
  <2> QED
    BY <2>1, <2>2
<1> QED
  BY <1>1, <1>2

LEMMA NeedsThroughUnfolds ==
  ASSUME NEW removed, NEW x \in Plan!Nodes
  PROVE  /\ Plan!NeedsThrough(removed, x)[0] = needs[x]
         /\ \A k \in 0 .. NodeCount - 1 :
              Plan!NeedsThrough(removed, x)[k + 1] =
                Plan!NeedsThrough(removed, x)[k]
                  \cup UNION {needs[r] : r \in Plan!NeedsThrough(removed, x)[k] \cap removed}
<1> DEFINE N == NodeCount
           Step(S) == S \cup UNION {needs[r] : r \in S \cap removed}
           Body(g, n) == [k \in 0 .. n |-> IF k = 0 THEN needs[x] ELSE Step(g[k - 1])]
           E == {n \in Nat : \E g : g = Body(g, n)}
           R == Plan!NeedsThrough(removed, x)
<1>0. N \in Nat
  BY PlanAssumed
<1>1. R = Body(R, N)
  <2>1. R = CHOOSE g : g = Body(g, N)
    BY DEF Plan!NeedsThrough
  <2> HIDE DEF Step, R, N
  <2>2. 0 \in E
    <3>1. Body([k \in 0 .. 0 |-> needs[x]], 0) = [k \in 0 .. 0 |-> needs[x]]
      OBVIOUS
    <3> QED
      BY <3>1
  <2>3. ASSUME NEW n \in Nat, n \in E
        PROVE  n + 1 \in E
    <3>1. PICK g : g = Body(g, n)
      BY <2>3
    <3> DEFINE h == [k \in 0 .. n + 1 |-> IF k <= n THEN g[k] ELSE Step(g[n])]
    <3>2. h = Body(h, n + 1)
      BY <3>1
    <3> HIDE DEF h, Body
    <3>3. \E f : f = Body(f, n + 1)
      BY <3>2
    <3> QED
      BY <3>3
  <2>4. N \in E
    BY <1>0, <2>2, <2>3, SetInduction
  <2> QED
    BY <2>1, <2>4
<1> HIDE DEF R, Step, N
<1>2. R[0] = needs[x]
  BY <1>0, <1>1
<1>3. ASSUME NEW k \in 0 .. N - 1
      PROVE  R[k + 1] = Step(R[k])
  <2>1. k + 1 \in 0 .. N /\ k + 1 # 0 /\ (k + 1) - 1 = k
    BY <1>0
  <2> QED
    BY <1>1, <2>1
<1> QED
  BY <1>2, <1>3 DEF R, Step, N

\* After as many rounds as there are nodes, the needs of every removed need have
\* been added, and nothing but needs of needs: a round that adds none ends the growth, and
\* there are not more nodes than rounds.
LEMMA NeedsThroughIsClosed ==
  ASSUME needs \in [Plan!Nodes -> SUBSET Plan!Nodes], NEW removed, NEW x \in Plan!Nodes
  PROVE  LET R == Plan!NeedsThrough(removed, x)[NodeCount] IN
         /\ needs[x] \subseteq R /\ R \subseteq Plan!Nodes
         /\ \A r \in R \cap removed : needs[r] \subseteq R
         /\ \A S \in SUBSET Plan!Nodes :
              needs[x] \subseteq S /\ (\A s \in S : needs[s] \subseteq S) => R \subseteq S
<1> DEFINE Q == Plan!NeedsThrough(removed, x)
           Closed(S) == \A r \in S \cap removed : needs[r] \subseteq S
           K == {k \in 0 .. NodeCount :
                   /\ needs[x] \subseteq Q[k] /\ Q[k] \subseteq Plan!Nodes
                   /\ Closed(Q[k]) \/ Cardinality(Q[k]) >= k}
<1>0. NodeCount \in Nat /\ IsFiniteSet(Plan!Nodes) /\ Cardinality(Plan!Nodes) = NodeCount
  BY PlanAssumed
<1>1. Q[0] = needs[x]
  BY NeedsThroughUnfolds
<1>2. \A k \in 0 .. NodeCount - 1 : Q[k + 1] = Q[k] \cup UNION {needs[r] : r \in Q[k] \cap removed}
  BY NeedsThroughUnfolds
<1> HIDE DEF Q
<1>3. \A S \in SUBSET Plan!Nodes : IsFiniteSet(S) /\ Cardinality(S) \in Nat
  BY <1>0, FS_Subset, FS_CardinalityType
<1>4. 0 \in K
  BY <1>0, <1>1, <1>3
<1>5. ASSUME NEW k \in 0 .. NodeCount - 1, k \in K PROVE k + 1 \in K
  <2>1. k + 1 \in 0 .. NodeCount
    BY <1>0
  <2>2. Q[k] \subseteq Q[k + 1] /\ Q[k + 1] \subseteq Plan!Nodes /\ needs[x] \subseteq Q[k + 1]
    BY <1>2, <1>5
  <2>3. CASE Closed(Q[k])
    <3>1. Q[k + 1] = Q[k]
      <4>1. UNION {needs[r] : r \in Q[k] \cap removed} \subseteq Q[k]
        BY <2>3
      <4> QED
        BY <1>2, <4>1
    <3> QED
      BY <1>5, <2>1, <2>3, <3>1
  <2>4. CASE ~Closed(Q[k])
    <3>1. Q[k + 1] # Q[k]
      BY <1>2, <2>4
    <3>2. Cardinality(Q[k]) >= k
      BY <1>5, <2>4
    <3>3. Cardinality(Q[k]) <= Cardinality(Q[k + 1]) /\ Cardinality(Q[k]) # Cardinality(Q[k + 1])
      BY <1>3, <2>2, <3>1, FS_Subset
    <3>4. Cardinality(Q[k + 1]) >= k + 1
      BY <1>3, <1>5, <2>2, <3>2, <3>3
    <3> QED
      BY <2>1, <2>2, <3>4
  <2> QED
    BY <2>3, <2>4
<1>6. NodeCount \in K
  <2>1. 0 .. NodeCount \subseteq K
    BY <1>0, <1>4, <1>5, BoundedInduction
  <2> QED
    BY <1>0, <2>1
<1>7. Closed(Q[NodeCount])
  <2>1. CASE Cardinality(Q[NodeCount]) >= NodeCount
    <3>1. Q[NodeCount] \subseteq Plan!Nodes
      BY <1>6
    <3>2. Cardinality(Q[NodeCount]) = Cardinality(Plan!Nodes)
      BY <1>0, <1>3, <2>1, <3>1, FS_Subset
    <3>3. Q[NodeCount] = Plan!Nodes
      BY <1>0, <3>1, <3>2, FS_Subset
    <3> QED
      BY <3>3
  <2> QED
    BY <1>6, <2>1
<1>8. ASSUME NEW S \in SUBSET Plan!Nodes, needs[x] \subseteq S, \A s \in S : needs[s] \subseteq S
      PROVE  Q[NodeCount] \subseteq S
  <2> DEFINE L == {k \in 0 .. NodeCount : Q[k] \subseteq S}
  <2>1. 0 \in L
    BY <1>0, <1>1, <1>8
  <2>2. ASSUME NEW k \in 0 .. NodeCount - 1, k \in L PROVE k + 1 \in L
    <3>1. k + 1 \in 0 .. NodeCount
      BY <1>0
    <3> QED
      BY <1>2, <1>8, <2>2, <3>1
  <2>3. 0 .. NodeCount \subseteq L
    BY <1>0, <2>1, <2>2, BoundedInduction
  <2> QED
    BY <1>0, <2>3
<1> QED
  BY <1>6, <1>7, <1>8 DEF Q

\* The ancestors are the least set that holds the needs and is closed under them.
LEMMA AncestorsAreClosed ==
  ASSUME needs \in [Plan!Nodes -> SUBSET Plan!Nodes], NEW x \in Plan!Nodes
  PROVE  /\ needs[x] \subseteq Plan!Ancestors(x) /\ Plan!Ancestors(x) \subseteq Plan!Nodes
         /\ \A s \in Plan!Ancestors(x) : needs[s] \subseteq Plan!Ancestors(x)
         /\ \A S \in SUBSET Plan!Nodes :
              needs[x] \subseteq S /\ (\A s \in S : needs[s] \subseteq S) => Plan!Ancestors(x) \subseteq S
BY DEF Plan!Ancestors

\* What a node waits for in the plan as it runs.
LEMMA AdjustedNeeds ==
  ASSUME PlanInv, stage \in Executing, NEW x \in Plan!Nodes
  PROVE  LET R == Plan!NeedsThrough(Plan!SkipNodes, x)[NodeCount] IN
         /\ adjusted[x] = IF x \in Plan!SkipNodes THEN {} ELSE R \ Plan!SkipNodes
         /\ needs[x] \subseteq R /\ R \subseteq Plan!Ancestors(x)
         /\ \A r \in R \cap Plan!SkipNodes : needs[r] \subseteq R
<1> DEFINE R == Plan!NeedsThrough(Plan!SkipNodes, x)[NodeCount]
<1>1. needs \in [Plan!Nodes -> SUBSET Plan!Nodes]
  BY PlanAssumed DEF PlanInv
<1>2. adjusted[x] = IF x \in Plan!SkipNodes THEN {} ELSE R \ Plan!SkipNodes
  BY DEF PlanInv, Plan!FilterPlanNodes, Plan!ResolveNeeds
<1>3. /\ needs[x] \subseteq R /\ \A r \in R \cap Plan!SkipNodes : needs[r] \subseteq R
      /\ \A S \in SUBSET Plan!Nodes :
           needs[x] \subseteq S /\ (\A s \in S : needs[s] \subseteq S) => R \subseteq S
  BY <1>1, NeedsThroughIsClosed
<1>4. /\ Plan!Ancestors(x) \in SUBSET Plan!Nodes /\ needs[x] \subseteq Plan!Ancestors(x)
      /\ \A s \in Plan!Ancestors(x) : needs[s] \subseteq Plan!Ancestors(x)
  BY <1>1, AncestorsAreClosed
<1> HIDE DEF R
<1>5. R \subseteq Plan!Ancestors(x)
  BY <1>3, <1>4
<1> QED
  BY <1>2, <1>3, <1>5 DEF R

\* The nodes that a started node waited for have succeeded; so have those that
\* they waited for, and whatever is between them was cached: together they are closed under
\* needs and hold every ancestor.
LEMMA OrderIsKept == PlanInv => Plan!OrderSurvivesCaching /\ Plan!OnlyPlanOrder
<1> SUFFICES ASSUME PlanInv PROVE Plan!OrderSurvivesCaching /\ Plan!OnlyPlanOrder
  OBVIOUS
<1>0. needs \in [Plan!Nodes -> SUBSET Plan!Nodes]
  BY PlanAssumed DEF PlanInv
<1>1. ASSUME NEW x \in Plan!Nodes \ Plan!SkipNodes, status[x] \in Ran,
             NEW m \in Plan!Ancestors(x) \ Plan!SkipNodes
      PROVE  status[m] = "success"
  <2> DEFINE R(n) == Plan!NeedsThrough(Plan!SkipNodes, n)[NodeCount]
             Done == {n \in Plan!Nodes \ Plan!SkipNodes : n = x \/ status[n] = "success"}
             S == {s \in Plan!Nodes : \E n \in Done : s \in R(n)}
  <2>1. stage \in Executing
    BY <1>1 DEF PlanInv, Plan!TypeOK, Ran, Looking, Executing
  <2>2. \A n \in Plan!Nodes :
          /\ adjusted[n] = IF n \in Plan!SkipNodes THEN {} ELSE R(n) \ Plan!SkipNodes
          /\ needs[n] \subseteq R(n) /\ R(n) \subseteq Plan!Ancestors(n)
          /\ \A r \in R(n) \cap Plan!SkipNodes : needs[r] \subseteq R(n)
    BY <2>1, AdjustedNeeds
  <2>3. \A n \in Plan!Nodes : Plan!Ancestors(n) \subseteq Plan!Nodes
    BY <1>0, AncestorsAreClosed
  <2> HIDE DEF R
  <2>4. \A n \in Done : \A d \in R(n) \ Plan!SkipNodes : status[d] = "success"
    <3> SUFFICES ASSUME NEW n \in Done, NEW d \in R(n) \ Plan!SkipNodes PROVE status[d] = "success"
      OBVIOUS
    <3>1. n \in Plan!Nodes \ Plan!SkipNodes /\ status[n] \in Ran
      BY <1>1 DEF Ran
    <3>2. d \in adjusted[n]
      BY <2>2, <3>1
    <3> QED
      BY <2>1, <3>1, <3>2 DEF PlanInv
  <2>5. \A s \in S \ Plan!SkipNodes : status[s] = "success"
    BY <2>4
  <2>6. ASSUME NEW s \in S PROVE needs[s] \subseteq S
    <3>1. needs[s] \subseteq Plan!Nodes
      BY <1>0
    <3>2. CASE s \in Plan!SkipNodes
      BY <2>2, <3>1, <3>2
    <3>3. CASE s \notin Plan!SkipNodes
      <4>1. s \in Done
        BY <2>5, <3>3
      <4> QED
        BY <2>2, <3>1, <4>1
    <3> QED
      BY <3>2, <3>3
  <2>7. needs[x] \subseteq S
    <3>1. x \in Done
      BY <1>1
    <3> QED
      BY <1>0, <2>2, <3>1
  <2>8. S \in SUBSET Plan!Nodes
    OBVIOUS
  <2> HIDE DEF S
  <2>9. Plan!Ancestors(x) \subseteq S
    BY <1>0, <2>6, <2>7, <2>8, AncestorsAreClosed
  <2> QED
    BY <2>5, <2>9
<1>2. ASSUME stage = "run", NEW x \in Plan!Nodes
      PROVE  adjusted[x] \subseteq Plan!Ancestors(x) \ Plan!SkipNodes
  BY <1>2, AdjustedNeeds DEF Executing
<1> QED
  BY <1>1, <1>2 DEF Plan!OrderSurvivesCaching, Plan!OnlyPlanOrder, Ran

\* A node was skipped because the plan was aborted, or for one that failed or was
\* skipped itself, and the plan has no cycle to go round without coming to a failure.
LEMMA PlanIsCovered == PlanInv => Plan!ResultsCoverPlan
<1> SUFFICES ASSUME PlanInv, stage = "returned", NEW x \in Plan!Nodes
             PROVE  CASE x \in Plan!SkipNodes    -> status[x] = "success"
                      [] status[x] = "skipped"   ->
                           Plan!Aborted \/ \E m \in Plan!Ancestors(x) : status[m] = "failure"
                      [] OTHER                   -> status[x] \in {"success", "failure"}
  BY DEF Plan!ResultsCoverPlan
<1>0. /\ needs \in [Plan!Nodes -> SUBSET Plan!Nodes]
      /\ \A S \in SUBSET Plan!Nodes : S # {} => \E n \in S : needs[n] \cap S = {}
  BY PlanAssumed DEF PlanInv
<1>1. \A n \in Plan!Nodes :
        \/ n \in Plan!SkipNodes /\ status[n] = "success"
        \/ n \notin Plan!SkipNodes /\ status[n] \in {"success", "failure"}
        \/ /\ n \notin Plan!SkipNodes /\ status[n] = "skipped"
           /\ Plan!Aborted \/ \E d \in adjusted[n] : status[d] \in {"skipped", "failure"}
  BY DEF PlanInv
<1>2. ASSUME NEW n \in Plan!Nodes PROVE adjusted[n] \subseteq Plan!Ancestors(n)
  BY AdjustedNeeds DEF Executing
<1>3. \A n \in Plan!Nodes : Plan!Ancestors(n) \subseteq Plan!Nodes
  BY <1>0, AncestorsAreClosed
<1>4. \A n \in Plan!Nodes : \A m \in Plan!Ancestors(n) : Plan!Ancestors(m) \subseteq Plan!Ancestors(n)
  <2> SUFFICES ASSUME NEW n \in Plan!Nodes, NEW m \in Plan!Ancestors(n)
               PROVE  Plan!Ancestors(m) \subseteq Plan!Ancestors(n)
    OBVIOUS
  <2>1. m \in Plan!Nodes /\ Plan!Ancestors(n) \in SUBSET Plan!Nodes
    BY <1>3
  <2>2. needs[m] \subseteq Plan!Ancestors(n) /\ \A s \in Plan!Ancestors(n) : needs[s] \subseteq Plan!Ancestors(n)
    BY <1>0, AncestorsAreClosed
  <2> QED
    BY <1>0, <2>1, <2>2, AncestorsAreClosed
<1>5. ASSUME status[x] = "skipped", ~Plan!Aborted,
             \A m \in Plan!Ancestors(x) : status[m] # "failure"
      PROVE  FALSE
  <2> DEFINE U == {m \in Plan!Nodes : (m = x \/ m \in Plan!Ancestors(x)) /\ status[m] = "skipped"}
             W == {m \in Plan!Nodes : m \in U \/ Plan!Ancestors(m) \cap U # {}}
  <2>1. ASSUME NEW m \in W PROVE needs[m] \cap W # {}
    <3>1. PICK u \in U : u \in Plan!Ancestors(m)
      <4>1. CASE m \in U
        <5>1. PICK d \in adjusted[m] : status[d] \in {"skipped", "failure"}
          BY <1>1, <1>5, <4>1
        <5>2. d \in Plan!Ancestors(m) /\ d \in Plan!Ancestors(x) /\ d \in Plan!Nodes
          BY <1>2, <1>3, <1>4, <4>1, <5>1
        <5>3. d \in U
          BY <1>5, <5>1, <5>2
        <5> QED
          BY <5>2, <5>3
      <4> QED
        BY <4>1
    <3> DEFINE S == {s \in Plan!Nodes : \E y \in needs[m] : s = y \/ s \in Plan!Ancestors(y)}
    <3>2. needs[m] \subseteq Plan!Nodes
      BY <1>0
    <3>3. needs[m] \subseteq S /\ S \in SUBSET Plan!Nodes
      BY <3>2
    <3>4. ASSUME NEW s \in S PROVE needs[s] \subseteq S
      <4>1. PICK y \in needs[m] : s = y \/ s \in Plan!Ancestors(y)
        OBVIOUS
      <4>2. needs[s] \subseteq Plan!Ancestors(y) /\ needs[s] \subseteq Plan!Nodes
        BY <1>0, <3>2, <4>1, AncestorsAreClosed
      <4> QED
        BY <4>1, <4>2
    <3> HIDE DEF S
    <3>5. Plan!Ancestors(m) \subseteq S
      BY <1>0, <3>3, <3>4, AncestorsAreClosed
    <3>6. PICK y \in needs[m] : u = y \/ u \in Plan!Ancestors(y)
      BY <3>1, <3>5 DEF S
    <3>7. y \in W
      BY <3>1, <3>2, <3>6
    <3> QED
      BY <3>6, <3>7
  <2>2. x \in W /\ W \in SUBSET Plan!Nodes
    BY <1>5
  <2> HIDE DEF W
  <2> QED
    BY <1>0, <2>1, <2>2
<1> QED
  BY <1>1, <1>5

LEMMA PairsAreFinite == IsFiniteSet(Pairs)
<1> DEFINE B == {Batches[n] : n \in Plan!Nodes}
           f == [n \in Plan!Nodes |-> Batches[n]]
<1>1. f \in Surjection(Plan!Nodes, B)
  BY DEF Surjection
<1>2. IsFiniteSet(B) /\ \A T \in B : IsFiniteSet(T)
  BY <1>1, PlanAssumed, FS_Surjection
<1> HIDE DEF B
<1>3. IsFiniteSet((UNION B) \cup {"whole"})
  BY <1>2, FS_UNION, FS_AddElement
<1> QED
  BY <1>3, PlanAssumed, FS_Product DEF Pairs, B

\* One element before each of a set.
Paired(n, S) == {<<n, t>> : t \in S}

LEMMA PairsAdded ==
  ASSUME NEW P, IsFiniteSet(P), NEW n, NEW S, IsFiniteSet(S), \A t \in S : <<n, t>> \notin P
  PROVE  Cardinality(P \cup Paired(n, S)) = Cardinality(P) + Cardinality(S)
<1> DEFINE T == Paired(n, S)
           f == [t \in S |-> <<n, t>>]
<1>1. f \in Bijection(S, T)
  <2>1. f \in [S -> T] /\ \A y \in T : \E t \in S : f[t] = y
    BY DEF Paired
  <2>2. \A s, t \in S : f[s] = f[t] => s = t
    <3> SUFFICES ASSUME NEW s \in S, NEW t \in S, f[s] = f[t] PROVE s = t
      OBVIOUS
    <3>1. <<n, s>> = <<n, t>>
      OBVIOUS
    <3> QED
      BY <3>1
  <2> HIDE DEF f, T
  <2> QED
    BY <2>1, <2>2 DEF Bijection, Injection, Surjection, IsInjective
<1>2. IsFiniteSet(T) /\ Cardinality(T) = Cardinality(S)
  BY <1>1, FS_Bijection DEF ExistsBijection
<1>3. P \cap T = {}
  BY DEF Paired
<1> HIDE DEF T
<1>4. Cardinality(P \cap T) = 0 /\ Cardinality(P) \in Nat /\ Cardinality(T) \in Nat
  BY <1>2, <1>3, FS_EmptySet, FS_CardinalityType
<1>5. Cardinality(P \cup T) = Cardinality(P) + Cardinality(T) - Cardinality(P \cap T)
  BY <1>2, FS_Union
<1> QED
  BY <1>2, <1>3, <1>4, <1>5 DEF T

LEMMA FalseAreVerified ==
  /\ IsFiniteSet(VerifiedPairs) /\ IsFiniteSet(FalsePairs)
  /\ Cardinality(VerifiedPairs) \in Nat /\ Cardinality(FalsePairs) \in Nat
  /\ Cardinality(FalsePairs) <= Cardinality(VerifiedPairs)
<1>1. VerifiedPairs \subseteq Pairs /\ FalsePairs \subseteq VerifiedPairs
  BY DEF VerifiedPairs, FalsePairs
<1> QED
  BY <1>1, PairsAreFinite, FS_Subset, FS_CardinalityType

LEMMA PlanInit == Plan!Init => PlanInv
<1> SUFFICES ASSUME Plan!Init PROVE PlanInv
  OBVIOUS
<1>1. /\ needs \in Plans /\ stage = "scan" /\ place = 1 /\ adjusted = needs /\ recorded = {}
      /\ found = [n \in Plan!Nodes |-> "none"] /\ sliced = [n \in Plan!Nodes |-> << >>]
      /\ status = [n \in Plan!Nodes |-> "pending"]
      /\ stats = [hits |-> 0, misses |-> 0, bypasses |-> 0, verifications |-> 0, falseHits |-> 0]
      /\ mode \in Modes
  BY DEF Plan!Init
<1>2. place \in Plan!Nodes /\ \A n \in Plan!Nodes : ~(n < 1)
  BY <1>1, PlanAssumed
<1>3. Plan!TypeOK
  BY <1>1, PlanAssumed DEF Plan!TypeOK, Plan!Outcomes
<1>4. \A n \in Plan!Nodes : ~Scanned(n) /\ ~Awaited(n)
  BY <1>1, <1>2 DEF Scanned, Awaited, Executing
<1>5. VerifiedPairs = {} /\ FalsePairs = {}
  <2>1. \A n \in Plan!Nodes : Verified(n) = {}
    BY <1>1, <1>4 DEF Verified, Plan!Verifying, Plan!SlicesWith
  <2> QED
    BY <2>1 DEF VerifiedPairs, FalsePairs, Pairs
<1>6. Plan!RecordsAreProven
  BY <1>1 DEF Plan!RecordsAreProven
<1> QED
  BY <1>1, <1>2, <1>3, <1>4, <1>5, <1>6, FS_EmptySet DEF PlanInv, Looking, Executing

\* While the lookups go on, the plan stands still and nothing has run.
LEMMA LookingStep ==
  ASSUME PlanInv, stage \in Looking, stage' \in Looking, place' \in Plan!Nodes,
         UNCHANGED <<needs, mode, adjusted, status, recorded>>,
         found' \in [Plan!Nodes -> {"none", "open", "error"} \cup Plan!Outcomes],
         DOMAIN sliced' = Plan!Nodes,
         \A n \in Plan!Nodes : Batches[n] # {} /\ Scanned(n)' => sliced'[n] \in [Batches[n] -> Answers],
         \A n \in Plan!Nodes : Batches[n] = {} /\ Awaited(n)' => found'[n] \in Answers,
         stage' = "await" => \A n \in Plan!Nodes : Batches[n] = {} => found'[n] # "none",
         stage' = "scan" => \A n \in Plan!Nodes :
           /\ n < place' /\ Batches[n] = {} => found'[n] # "none"
           /\ n >= place' => sliced'[n] = << >>,
         stats' \in [hits : Nat, misses : Nat, bypasses : Nat, verifications : Nat, falseHits : Nat],
         stats'.verifications <= stats'.misses, stats'.falseHits = stats.falseHits,
         stats'.falseHits <= stats'.verifications,
         stage' # "crashed" => stage # "crashed" /\ stats'.verifications = Cardinality(VerifiedPairs')
  PROVE  PlanInv'
<1>1. status = [n \in Plan!Nodes |-> "pending"] /\ recorded = {}
  BY DEF PlanInv
<1>2. Plan!TypeOK'
  BY DEF PlanInv, Plan!TypeOK, Looking
<1>3. FalsePairs = {} /\ FalsePairs' = {}
  BY <1>1 DEF FalsePairs, Pairs
<1>4. Plan!RecordsAreProven'
  BY <1>1 DEF Plan!RecordsAreProven
<1> QED
  BY <1>1, <1>2, <1>3, <1>4 DEF PlanInv, Looking, Executing

LEMMA ScanGoesOn ==
  ASSUME PlanInv, stage = "scan", Plan!ScanNext
  PROVE  /\ place' \in Plan!Nodes /\ stage' \in {"scan", "await"}
         /\ \A n \in Plan!Nodes : ~Awaited(n) /\ ~Awaited(n)'
         /\ \A n \in Plan!Nodes : Scanned(n)' => n < place \/ n = place
         /\ stage' = "scan" => \A n \in Plan!Nodes : n >= place' => n >= place /\ n # place
<1>1. /\ place \in 1 .. NodeCount /\ NodeCount \in Nat \ {0} /\ Plan!Nodes = 1 .. NodeCount
  BY PlanAssumed DEF PlanInv
<1>2. CASE place = NodeCount
  <2>1. stage' = "await" /\ place' = 1
    BY <1>2 DEF Plan!ScanNext
  <2> QED
    BY <1>1, <1>2, <2>1 DEF Awaited, Scanned, Executing
<1>3. CASE place # NodeCount
  <2>1. stage' = "scan" /\ place' = place + 1
    BY <1>3 DEF Plan!ScanNext
  <2> QED
    BY <1>1, <1>3, <2>1 DEF Awaited, Scanned, Executing
<1> QED
  BY <1>2, <1>3

LEMMA SlicesStep ==
  ASSUME PlanInv, Plan!LookupBatchSlices
  PROVE  PlanInv'
<1> DEFINE Count(how, S) == Cardinality({b \in Batches[place] : how[b] \in S})
<1>1. PICK how \in [Batches[place] -> Answers] :
        /\ sliced' = [sliced EXCEPT ![place] = how]
        /\ stats' = [stats EXCEPT !.hits = @ + Count(how, {"hit"}),
                                  !.misses = @ + Count(how, {"miss", "verify"}),
                                  !.bypasses = @ + Count(how, {"bypass"}),
                                  !.verifications = @ + Count(how, {"verify"})]
  <2>1. PICK how \in [Batches[place] -> Plan!Outcomes \cup Plan!Failing] :
          sliced' = [sliced EXCEPT ![place] = how] /\ stats' = Plan!Counted(stats, place, how)
    BY DEF Plan!LookupBatchSlices
  <2>2. Plan!Outcomes \cup Plan!Failing \subseteq Answers
    BY DEF Plan!Outcomes, Plan!Failing, Answers
  <2>3. how \in [Batches[place] -> Answers]
    BY <2>2
  <2> QED
    BY <2>1, <2>3 DEF Plan!Counted, Plan!Cardinality, Cardinality
<1>2. /\ stage = "scan" /\ Batches[place] # {} /\ Plan!ScanNext
      /\ UNCHANGED <<needs, mode, found, adjusted, status, recorded>>
  BY DEF Plan!LookupBatchSlices
<1>3. /\ place' \in Plan!Nodes /\ stage' \in {"scan", "await"}
      /\ \A n \in Plan!Nodes : ~Awaited(n) /\ ~Awaited(n)'
      /\ \A n \in Plan!Nodes : Scanned(n)' => n < place \/ n = place
      /\ stage' = "scan" => \A n \in Plan!Nodes : n >= place' => n >= place /\ n # place
  BY <1>2, ScanGoesOn
<1>4. /\ place \in Plan!Nodes /\ DOMAIN sliced = Plan!Nodes
      /\ \A n \in Plan!Nodes : n < place /\ Batches[n] = {} => found[n] # "none"
      /\ \A n \in Plan!Nodes : n >= place => sliced[n] = << >>
      /\ \A n \in Plan!Nodes : n < place /\ Batches[n] # {} => sliced[n] \in [Batches[n] -> Answers]
      /\ stats \in [hits : Nat, misses : Nat, bypasses : Nat, verifications : Nat, falseHits : Nat]
      /\ stats.falseHits <= stats.verifications /\ stats.verifications <= stats.misses
      /\ stats.verifications = Cardinality(VerifiedPairs)
  BY <1>2 DEF PlanInv, Plan!TypeOK, Scanned
<1>5. \A S : IsFiniteSet({b \in Batches[place] : how[b] \in S}) /\ Count(how, S) \in Nat
  <2>1. IsFiniteSet(Batches[place])
    BY <1>4, PlanAssumed
  <2> QED
    BY <2>1, FS_Subset, FS_CardinalityType
<1>6. Count(how, {"verify"}) <= Count(how, {"miss", "verify"})
  <2>1. {b \in Batches[place] : how[b] \in {"verify"}}
          \in SUBSET {b \in Batches[place] : how[b] \in {"miss", "verify"}}
    OBVIOUS
  <2> QED
    BY <1>5, <2>1, FS_Subset
<1>7. Cardinality(VerifiedPairs') = Cardinality(VerifiedPairs) + Count(how, {"verify"})
  <2> DEFINE S == {b \in Batches[place] : how[b] \in {"verify"}}
  <2>1. \A n \in Plan!Nodes : n # place => Verified(n)' = Verified(n)
    BY <1>1, <1>2, <1>3, <1>4 DEF Verified, Plan!Verifying, Plan!SlicesWith
  <2>2. Verified(place) = {}
    <3>1. sliced[place] = << >>
      BY <1>4, PlanAssumed
    <3> QED
      BY <1>2, <3>1 DEF Verified, Plan!Verifying, Plan!SlicesWith
  <2>3. \A b : b \in S <=> \E n \in {place} : b \in Verified(n)'
    <3>1. sliced'[place] = how
      BY <1>1, <1>4
    <3> QED
      BY <1>2, <3>1 DEF Verified, Plan!Verifying, Plan!SlicesWith
  <2>4. S \subseteq UNION {Batches[n] : n \in Plan!Nodes}
    BY <1>4
  <2>5. IsFiniteSet(S) /\ IsFiniteSet(VerifiedPairs)
    BY <1>5, FalseAreVerified
  <2> HIDE DEF S
  <2>6. \A b \in S : <<place, b>> \notin VerifiedPairs
    BY <2>2 DEF VerifiedPairs
  <2>7. \A q : q \in VerifiedPairs' <=> q \in VerifiedPairs \/ \E b \in S : q = <<place, b>>
    <3>1. ASSUME NEW q \in VerifiedPairs' PROVE q \in VerifiedPairs \/ \E b \in S : q = <<place, b>>
      <4>1. q \in Pairs /\ q = <<q[1], q[2]>> /\ q[1] \in Plan!Nodes /\ q[2] \in Verified(q[1])'
        BY DEF VerifiedPairs, Pairs
      <4> QED
        BY <2>1, <2>3, <4>1 DEF VerifiedPairs
    <3>2. ASSUME NEW q \in VerifiedPairs PROVE q \in VerifiedPairs'
      <4>1. q \in Pairs /\ q[1] \in Plan!Nodes /\ q[2] \in Verified(q[1])
        BY DEF VerifiedPairs, Pairs
      <4> QED
        BY <2>1, <2>2, <4>1 DEF VerifiedPairs
    <3>3. ASSUME NEW b \in S PROVE <<place, b>> \in VerifiedPairs'
      <4>1. <<place, b>> \in Pairs
        BY <1>4, <2>4 DEF Pairs
      <4> QED
        BY <2>3, <4>1 DEF VerifiedPairs
    <3> QED
      BY <3>1, <3>2, <3>3
  <2>8. Cardinality(VerifiedPairs') = Cardinality(VerifiedPairs) + Cardinality(S)
    <3>1. VerifiedPairs' = VerifiedPairs \cup Paired(place, S)
      BY <2>7 DEF Paired
    <3> QED
      BY <2>5, <2>6, <3>1, PairsAdded
  <2> QED
    BY <2>8 DEF S
<1> HIDE DEF Count
<1>8. /\ stats' \in [hits : Nat, misses : Nat, bypasses : Nat, verifications : Nat, falseHits : Nat]
      /\ stats'.verifications = stats.verifications + Count(how, {"verify"})
      /\ stats'.misses = stats.misses + Count(how, {"miss", "verify"})
      /\ stats'.falseHits = stats.falseHits
  <2>1. PICK h, m, b, v \in Nat :
          /\ h = Count(how, {"hit"}) /\ m = Count(how, {"miss", "verify"})
          /\ b = Count(how, {"bypass"}) /\ v = Count(how, {"verify"})
    BY <1>5
  <2>2. stats' = [stats EXCEPT !.hits = @ + h, !.misses = @ + m, !.bypasses = @ + b,
                               !.verifications = @ + v]
    BY <1>1, <2>1
  <2>3. stats' = [hits |-> stats.hits + h, misses |-> stats.misses + m,
                  bypasses |-> stats.bypasses + b, verifications |-> stats.verifications + v,
                  falseHits |-> stats.falseHits]
    BY <1>4, <2>2
  <2>4. /\ stats' \in [hits : Nat, misses : Nat, bypasses : Nat, verifications : Nat, falseHits : Nat]
        /\ stats'.verifications = stats.verifications + v /\ stats'.misses = stats.misses + m
        /\ stats'.falseHits = stats.falseHits
    <3>1. /\ stats.hits \in Nat /\ stats.misses \in Nat /\ stats.bypasses \in Nat
          /\ stats.verifications \in Nat /\ stats.falseHits \in Nat
      BY <1>4
    <3> QED
      BY <2>1, <2>3, <3>1
  <2> QED
    BY <2>1, <2>4
<1>9. /\ stats'.verifications <= stats'.misses /\ stats'.falseHits <= stats'.verifications
      /\ stats'.verifications = Cardinality(VerifiedPairs')
  <2>1. PICK v, m \in Nat : v = Count(how, {"verify"}) /\ m = Count(how, {"miss", "verify"}) /\ v <= m
    BY <1>5, <1>6
  <2>2. stats.verifications \in Nat /\ stats.misses \in Nat /\ stats.falseHits \in Nat
    BY <1>4
  <2> QED
    BY <1>4, <1>7, <1>8, <2>1, <2>2
<1>10. \A n \in Plan!Nodes : sliced'[n] = IF n = place THEN how ELSE sliced[n]
  BY <1>1, <1>4
<1>11. \A n \in Plan!Nodes : Batches[n] # {} /\ Scanned(n)' => sliced'[n] \in [Batches[n] -> Answers]
  BY <1>3, <1>4, <1>10
<1>12. stage' = "await" => \A n \in Plan!Nodes : Scanned(n)'
  BY DEF Scanned
<1>13. stage' = "scan" => \A n \in Plan!Nodes : n < place' => Scanned(n)'
  BY DEF Scanned
<1>14. \A n \in Plan!Nodes : Scanned(n)' /\ Batches[n] = {} => found'[n] # "none"
  BY <1>2, <1>3, <1>4
<1>15. found' \in [Plan!Nodes -> {"none", "open", "error"} \cup Plan!Outcomes] /\ DOMAIN sliced' = Plan!Nodes
  BY <1>1, <1>2, <1>4 DEF PlanInv, Plan!TypeOK
<1> QED
  BY <1>2, <1>3, <1>4, <1>8, <1>9, <1>10, <1>11, <1>12, <1>13, <1>14, <1>15, LookingStep DEF Looking

LEMMA StartLookupStep ==
  ASSUME PlanInv, Plan!StartLookup
  PROVE  PlanInv'
<1>1. /\ stage = "scan" /\ Batches[place] = {} /\ found' = [found EXCEPT ![place] = "open"]
      /\ Plan!ScanNext /\ UNCHANGED <<needs, mode, sliced, adjusted, status, recorded, stats>>
  BY DEF Plan!StartLookup
<1>2. /\ place' \in Plan!Nodes /\ stage' \in {"scan", "await"}
      /\ \A n \in Plan!Nodes : ~Awaited(n) /\ ~Awaited(n)'
      /\ \A n \in Plan!Nodes : Scanned(n)' => n < place \/ n = place
      /\ stage' = "scan" => \A n \in Plan!Nodes : n >= place' => n >= place /\ n # place
  BY <1>1, ScanGoesOn
<1>3. /\ place \in Plan!Nodes /\ DOMAIN sliced = Plan!Nodes
      /\ \A n \in Plan!Nodes : n < place /\ Batches[n] = {} => found[n] # "none"
      /\ \A n \in Plan!Nodes : n >= place => sliced[n] = << >>
      /\ \A n \in Plan!Nodes : n < place /\ Batches[n] # {} => sliced[n] \in [Batches[n] -> Answers]
      /\ stats \in [hits : Nat, misses : Nat, bypasses : Nat, verifications : Nat, falseHits : Nat]
      /\ stats.falseHits <= stats.verifications /\ stats.verifications <= stats.misses
      /\ stats.verifications = Cardinality(VerifiedPairs)
      /\ found \in [Plan!Nodes -> {"none", "open", "error"} \cup Plan!Outcomes]
  BY <1>1 DEF PlanInv, Plan!TypeOK, Scanned
<1>4. found' \in [Plan!Nodes -> {"none", "open", "error"} \cup Plan!Outcomes]
  BY <1>1, <1>3
<1>5. \A n \in Plan!Nodes : Scanned(n)' /\ Batches[n] = {} => found'[n] # "none"
  BY <1>1, <1>2, <1>3
<1>6. VerifiedPairs' = VerifiedPairs
  <2>1. \A n \in Plan!Nodes : Verified(n)' = Verified(n)
    BY <1>1, <1>2 DEF Verified, Plan!Verifying, Plan!SlicesWith
  <2> QED
    BY <2>1 DEF VerifiedPairs, Pairs
<1>7. /\ stage' = "await" => \A n \in Plan!Nodes : Scanned(n)'
      /\ stage' = "scan" => \A n \in Plan!Nodes : n < place' => Scanned(n)'
  BY DEF Scanned
<1>8. \A n \in Plan!Nodes : Batches[n] # {} /\ Scanned(n)' => sliced'[n] \in [Batches[n] -> Answers]
  BY <1>1, <1>2, <1>3
<1> QED
  BY <1>1, <1>2, <1>3, <1>4, <1>5, <1>6, <1>7, <1>8, LookingStep DEF Looking

LEMMA LookupSettles ==
  ASSUME PlanInv, NEW x \in Plan!Nodes, Plan!SettleLookup(x)
  PROVE  PlanInv'
<1>1. PICK how \in Answers :
        /\ stage \in {"scan", "await"} /\ found[x] = "open" /\ found' = [found EXCEPT ![x] = how]
        /\ stage' \in {stage, "crashed"}
        /\ UNCHANGED <<needs, mode, place, sliced, adjusted, status, recorded, stats>>
  BY DEF Plan!SettleLookup, Plan!Outcomes, Plan!Failing, Answers
<1>2. /\ found \in [Plan!Nodes -> {"none", "open", "error"} \cup Plan!Outcomes]
      /\ place \in Plan!Nodes /\ DOMAIN sliced = Plan!Nodes
      /\ stats \in [hits : Nat, misses : Nat, bypasses : Nat, verifications : Nat, falseHits : Nat]
      /\ stats.falseHits <= stats.verifications /\ stats.verifications <= stats.misses
      /\ stats.verifications = Cardinality(VerifiedPairs)
  BY <1>1 DEF PlanInv, Plan!TypeOK
<1>3. \A n \in Plan!Nodes : found'[n] = IF n = x THEN how ELSE found[n]
  BY <1>1, <1>2
<1>4. found' \in [Plan!Nodes -> {"none", "open", "error"} \cup Plan!Outcomes]
  BY <1>1, <1>2 DEF Answers, Plan!Outcomes
<1>5. how # "none" /\ "open" \notin Answers
  BY DEF Answers
<1>6. \A n \in Plan!Nodes : Batches[n] # {} /\ Scanned(n)' => sliced'[n] \in [Batches[n] -> Answers]
  BY <1>1 DEF PlanInv, Scanned, Executing
<1>7. \A n \in Plan!Nodes : Awaited(n)' => Awaited(n)
  BY <1>1 DEF Awaited, Executing
<1>8. \A n \in Plan!Nodes : Batches[n] = {} /\ Awaited(n)' => found'[n] \in Answers
  BY <1>3, <1>7 DEF PlanInv
<1>9. stage' # "crashed" => VerifiedPairs' = VerifiedPairs
  <2> SUFFICES ASSUME stage' = stage PROVE VerifiedPairs' = VerifiedPairs
    BY <1>1
  <2>1. \A n \in Plan!Nodes : Awaited(n)' = Awaited(n)
    BY <1>1 DEF Awaited
  <2>2. Batches[x] = {} => ~Awaited(x)
    BY <1>1, <1>5 DEF PlanInv
  <2>3. \A n \in Plan!Nodes : Verified(n)' = Verified(n)
    BY <1>1, <1>3, <2>1, <2>2 DEF Verified, Plan!Verifying, Plan!SlicesWith
  <2> QED
    BY <2>3 DEF VerifiedPairs, Pairs
<1>10. /\ stage' = "await" => \A n \in Plan!Nodes : Batches[n] = {} => found'[n] # "none"
       /\ stage' = "scan" => \A n \in Plan!Nodes :
            /\ n < place' /\ Batches[n] = {} => found'[n] # "none"
            /\ n >= place' => sliced'[n] = << >>
  BY <1>1, <1>3, <1>5 DEF PlanInv
<1> QED
  BY <1>1, <1>2, <1>4, <1>6, <1>8, <1>9, <1>10, LookingStep DEF Looking

\* Awaiting a lookup counts it.
LEMMA AwaitCounts ==
  ASSUME PlanInv, Plan!AwaitLookup, NEW x, x = place,
         \A n \in Plan!Nodes : Awaited(n)' <=> Awaited(n) \/ n = x
  PROVE  /\ stats' \in [hits : Nat, misses : Nat, bypasses : Nat, verifications : Nat, falseHits : Nat]
         /\ stats'.verifications <= stats'.misses /\ stats'.falseHits = stats.falseHits
         /\ stats'.falseHits <= stats'.verifications
         /\ stats'.verifications = Cardinality(VerifiedPairs')
<1>1. /\ stage = "await" /\ found[x] # "open" /\ UNCHANGED <<found, sliced>>
      /\ stats' = IF Batches[x] = {} THEN Plan!CountedWhole(stats, found[x]) ELSE stats
  BY DEF Plan!AwaitLookup
<1>2. /\ x \in Plan!Nodes /\ ~Awaited(x)
      /\ stats \in [hits : Nat, misses : Nat, bypasses : Nat, verifications : Nat, falseHits : Nat]
      /\ stats.falseHits <= stats.verifications /\ stats.verifications <= stats.misses
      /\ stats.verifications = Cardinality(VerifiedPairs)
  BY <1>1, PlanAssumed DEF PlanInv, Plan!TypeOK, Awaited, Executing
<1>3. \A n \in Plan!Nodes : n # x => Verified(n)' = Verified(n)
  BY <1>1 DEF Verified, Plan!Verifying, Plan!SlicesWith
<1>4. CASE Batches[x] = {} /\ found[x] = "verify"
  <2>1. stats' = [stats EXCEPT !.misses = @ + 1, !.verifications = @ + 1]
    BY <1>1, <1>4 DEF Plan!CountedWhole
  <2>2. Verified(x) = {} /\ Verified(x)' = {"whole"}
    <3>1. Verified(x) = {}
      BY <1>2, <1>4 DEF Verified
    <3>2. Awaited(x)'
      BY <1>2
    <3>3. Plan!Verifying(x)' = {"whole"}
      BY <1>1, <1>4 DEF Plan!Verifying, Plan!Whole
    <3> QED
      BY <3>1, <3>2, <3>3 DEF Verified
  <2>3. VerifiedPairs' = VerifiedPairs \cup {<<x, "whole">>}
    <3>1. ASSUME NEW q \in Pairs
          PROVE  q[2] \in Verified(q[1])' <=> q[2] \in Verified(q[1]) \/ q = <<x, "whole">>
      <4>1. q = <<q[1], q[2]>> /\ q[1] \in Plan!Nodes
        BY DEF Pairs
      <4> QED
        BY <1>3, <2>2, <4>1
    <3>2. <<x, "whole">> \in Pairs
      BY <1>2 DEF Pairs
    <3> QED
      BY <3>1, <3>2 DEF VerifiedPairs
  <2>4. <<x, "whole">> \notin VerifiedPairs
    BY <2>2 DEF VerifiedPairs
  <2>5. Cardinality(VerifiedPairs') = Cardinality(VerifiedPairs) + 1
    BY <2>3, <2>4, FalseAreVerified, FS_AddElement
  <2>6. /\ stats' \in [hits : Nat, misses : Nat, bypasses : Nat, verifications : Nat, falseHits : Nat]
        /\ stats'.verifications = stats.verifications + 1 /\ stats'.misses = stats.misses + 1
        /\ stats'.falseHits = stats.falseHits
    <3>1. stats' = [hits |-> stats.hits, misses |-> stats.misses + 1, bypasses |-> stats.bypasses,
                    verifications |-> stats.verifications + 1, falseHits |-> stats.falseHits]
      BY <1>2, <2>1
    <3>2. /\ stats.hits \in Nat /\ stats.misses \in Nat /\ stats.bypasses \in Nat
          /\ stats.verifications \in Nat /\ stats.falseHits \in Nat
      BY <1>2
    <3> QED
      BY <3>1, <3>2
  <2>7. stats.verifications \in Nat /\ stats.misses \in Nat /\ stats.falseHits \in Nat
    BY <1>2
  <2> QED
    BY <1>2, <2>5, <2>6, <2>7
<1>5. CASE ~(Batches[x] = {} /\ found[x] = "verify")
  <2>1. Verified(x)' = Verified(x)
    <3>1. CASE Batches[x] # {}
      BY <1>1, <3>1 DEF Verified, Plan!Verifying, Plan!SlicesWith
    <3>2. CASE Batches[x] = {}
      BY <1>1, <1>2, <1>5, <3>2 DEF Verified, Plan!Verifying
    <3> QED
      BY <3>1, <3>2
  <2>2. VerifiedPairs' = VerifiedPairs
    <3>1. \A q \in Pairs : Verified(q[1])' = Verified(q[1])
      BY <1>3, <2>1 DEF Pairs
    <3> QED
      BY <3>1 DEF VerifiedPairs
  <2>3. /\ stats.hits \in Nat /\ stats.misses \in Nat /\ stats.bypasses \in Nat
        /\ stats.verifications \in Nat /\ stats.falseHits \in Nat
        /\ stats = [hits |-> stats.hits, misses |-> stats.misses, bypasses |-> stats.bypasses,
                    verifications |-> stats.verifications, falseHits |-> stats.falseHits]
    BY <1>2
  <2>4. PICK h, m, b \in {0, 1} :
          stats' = [hits |-> stats.hits + h, misses |-> stats.misses + m,
                    bypasses |-> stats.bypasses + b, verifications |-> stats.verifications,
                    falseHits |-> stats.falseHits]
    <3>0. \A c \in Nat : c + 0 = c
      OBVIOUS
    <3>1. CASE Batches[x] # {}
      <4>1. stats' = [hits |-> stats.hits + 0, misses |-> stats.misses + 0,
                      bypasses |-> stats.bypasses + 0, verifications |-> stats.verifications,
                      falseHits |-> stats.falseHits]
        BY <1>1, <2>3, <3>0, <3>1
      <4> QED
        BY <4>1
    <3>2. CASE Batches[x] = {} /\ found[x] = "hit"
      <4>1. stats' = [stats EXCEPT !.hits = @ + 1]
        BY <1>1, <3>2 DEF Plan!CountedWhole
      <4>2. stats' = [hits |-> stats.hits + 1, misses |-> stats.misses + 0,
                      bypasses |-> stats.bypasses + 0, verifications |-> stats.verifications,
                      falseHits |-> stats.falseHits]
        BY <1>2, <2>3, <3>0, <4>1
      <4> QED
        BY <4>2
    <3>3. CASE Batches[x] = {} /\ found[x] = "bypass"
      <4>1. stats' = [stats EXCEPT !.misses = @ + 1, !.bypasses = @ + 1]
        BY <1>1, <3>3 DEF Plan!CountedWhole
      <4>2. stats' = [hits |-> stats.hits + 0, misses |-> stats.misses + 1,
                      bypasses |-> stats.bypasses + 1, verifications |-> stats.verifications,
                      falseHits |-> stats.falseHits]
        BY <1>2, <2>3, <3>0, <4>1
      <4> QED
        BY <4>2
    <3>4. CASE Batches[x] = {} /\ found[x] \notin {"hit", "bypass", "verify"}
      <4>1. stats' = [stats EXCEPT !.misses = @ + 1]
        BY <1>1, <3>4 DEF Plan!CountedWhole
      <4>2. stats' = [hits |-> stats.hits + 0, misses |-> stats.misses + 1,
                      bypasses |-> stats.bypasses + 0, verifications |-> stats.verifications,
                      falseHits |-> stats.falseHits]
        BY <1>2, <2>3, <3>0, <4>1
      <4> QED
        BY <4>2
    <3> QED
      BY <1>5, <3>1, <3>2, <3>3, <3>4
  <2> QED
    BY <1>2, <2>2, <2>3, <2>4
<1> QED
  BY <1>4, <1>5

LEMMA AwaitStep ==
  ASSUME PlanInv, Plan!AwaitLookup
  PROVE  PlanInv'
<1>1. /\ stage = "await" /\ found[place] # "open" /\ UNCHANGED <<needs, mode, found, sliced, status, recorded>>
      /\ \/ /\ place < NodeCount /\ place' = place + 1 /\ UNCHANGED <<stage, adjusted>>
         \/ /\ ~(place < NodeCount) /\ stage' = "run" /\ UNCHANGED place
            /\ adjusted' = Plan!FilterPlanNodes(Plan!SkipNodes)
  BY DEF Plan!AwaitLookup
<1>2. /\ place \in 1 .. NodeCount /\ NodeCount \in Nat \ {0} /\ Plan!Nodes = 1 .. NodeCount
      /\ needs \in [Plan!Nodes -> SUBSET Plan!Nodes]
  BY PlanAssumed DEF PlanInv
<1>3. \A n \in Plan!Nodes : Awaited(n)' <=> Awaited(n) \/ n = place
  BY <1>1, <1>2 DEF Awaited, Executing
<1>4. /\ stats' \in [hits : Nat, misses : Nat, bypasses : Nat, verifications : Nat, falseHits : Nat]
      /\ stats'.verifications <= stats'.misses /\ stats'.falseHits = stats.falseHits
      /\ stats'.falseHits <= stats'.verifications
      /\ stats'.verifications = Cardinality(VerifiedPairs')
  <2>1. PICK x : x = place
    OBVIOUS
  <2>2. \A n \in Plan!Nodes : Awaited(n)' <=> Awaited(n) \/ n = x
    BY <1>3, <2>1
  <2> QED
    BY <2>1, <2>2, AwaitCounts
<1>5. /\ found \in [Plan!Nodes -> {"none", "open", "error"} \cup Plan!Outcomes]
      /\ DOMAIN sliced = Plan!Nodes
      /\ \A n \in Plan!Nodes : Batches[n] # {} => sliced[n] \in [Batches[n] -> Answers]
      /\ \A n \in Plan!Nodes : Batches[n] = {} => found[n] # "none"
      /\ \A n \in Plan!Nodes : Batches[n] = {} /\ Awaited(n) => found[n] \in Answers
      /\ status = [n \in Plan!Nodes |-> "pending"] /\ recorded = {}
  BY <1>1 DEF PlanInv, Plan!TypeOK, Scanned, Looking
<1>6. \A n \in Plan!Nodes : Batches[n] = {} /\ Awaited(n)' => found'[n] \in Answers
  <2>1. Batches[place] = {} => found[place] \in Answers
    BY <1>1, <1>2, <1>5 DEF Answers, Plan!Outcomes
  <2> QED
    BY <1>1, <1>3, <1>5, <2>1
<1>7. CASE place < NodeCount
  <2>1. place' \in Plan!Nodes /\ stage' = "await" /\ UNCHANGED adjusted
    BY <1>1, <1>2, <1>7
  <2> QED
    BY <1>1, <1>4, <1>5, <1>6, <2>1, LookingStep DEF Looking
<1>8. CASE ~(place < NodeCount)
  <2>1. stage' = "run" /\ place' = place /\ adjusted' = Plan!FilterPlanNodes(Plan!SkipNodes)
    BY <1>1, <1>8
  <2>2. Plan!SkipNodes' = Plan!SkipNodes
    BY <1>1 DEF Plan!SkipNodes, Plan!Cached, Plan!SlicesWith
  <2>3. adjusted' = Plan!FilterPlanNodes(Plan!SkipNodes)'
    <3>1. PICK S : S = Plan!SkipNodes
      OBVIOUS
    <3>2. Plan!FilterPlanNodes(S)' = Plan!FilterPlanNodes(S)
      BY <1>1 DEF Plan!FilterPlanNodes, Plan!ResolveNeeds, Plan!NeedsThrough
    <3> QED
      BY <2>1, <2>2, <3>1, <3>2
  <2>4. adjusted' \in [Plan!Nodes -> SUBSET Plan!Nodes]
    <3>1. \A n \in Plan!Nodes : Plan!NeedsThrough(Plan!SkipNodes, n)[NodeCount] \subseteq Plan!Nodes
      BY <1>2, NeedsThroughIsClosed
    <3> QED
      BY <2>1, <3>1 DEF Plan!FilterPlanNodes, Plan!ResolveNeeds
  <2>5. Plan!TypeOK'
    BY <1>1, <1>4, <1>5, <2>1, <2>4 DEF PlanInv, Plan!TypeOK
  <2>6. FalsePairs = {} /\ FalsePairs' = {}
    BY <1>1, <1>5 DEF FalsePairs, Pairs
  <2>7. Plan!RecordsAreProven'
    BY <1>1, <1>5 DEF Plan!RecordsAreProven
  <2>8. stats'.falseHits = Cardinality(FalsePairs')
    BY <1>1, <1>4, <2>6 DEF PlanInv
  <2>9. needs' \in Plans /\ place' \in Plan!Nodes
    BY <1>1, <2>1 DEF PlanInv
  <2>10. \A n \in Plan!Nodes : status'[n] = "pending"
    BY <1>1, <1>5
  <2> QED
    BY <1>1, <1>4, <1>5, <1>6, <2>1, <2>3, <2>5, <2>7, <2>8, <2>9, <2>10
    DEF PlanInv, Looking, Executing, Ran
<1> QED
  BY <1>7, <1>8

\* While the plan runs, what was looked up and what is left of the plan stand.
LEMMA PlanStands ==
  ASSUME PlanInv, stage \in Executing, stage' \in Executing,
         UNCHANGED <<needs, mode, place, found, sliced, adjusted>>
  PROVE  /\ Plan!SkipNodes' = Plan!SkipNodes
         /\ adjusted' = Plan!FilterPlanNodes(Plan!SkipNodes)'
         /\ \A n \in Plan!Nodes : Verified(n)' = Verified(n) /\ Verified(n) = Plan!Verifying(n)
         /\ VerifiedPairs' = VerifiedPairs
         /\ \A n \in Plan!Nodes : Batches[n] # {} => sliced[n] \in [Batches[n] -> Answers]
         /\ \A n \in Plan!Nodes : Batches[n] = {} => found[n] \in Answers
<1>1. Plan!SkipNodes' = Plan!SkipNodes
  BY DEF Plan!SkipNodes, Plan!Cached, Plan!SlicesWith
<1>2. adjusted' = Plan!FilterPlanNodes(Plan!SkipNodes)'
  <2>1. PICK S : S = Plan!SkipNodes
    OBVIOUS
  <2>2. Plan!FilterPlanNodes(S)' = Plan!FilterPlanNodes(S)
    BY DEF Plan!FilterPlanNodes, Plan!ResolveNeeds, Plan!NeedsThrough
  <2>3. adjusted = Plan!FilterPlanNodes(Plan!SkipNodes)
    BY DEF PlanInv
  <2> QED
    BY <1>1, <2>1, <2>2, <2>3
<1>3. \A n \in Plan!Nodes : Verified(n)' = Verified(n) /\ Verified(n) = Plan!Verifying(n)
  BY DEF Verified, Awaited, Plan!Verifying, Plan!SlicesWith
<1>4. VerifiedPairs' = VerifiedPairs
  BY <1>3 DEF VerifiedPairs, Pairs
<1>5. /\ \A n \in Plan!Nodes : Batches[n] # {} => sliced[n] \in [Batches[n] -> Answers]
      /\ \A n \in Plan!Nodes : Batches[n] = {} => found[n] \in Answers
  BY DEF PlanInv, Scanned, Awaited
<1> QED
  BY <1>1, <1>2, <1>3, <1>4, <1>5

\* A step of the plan as it runs.
LEMMA ExecutingStep ==
  ASSUME PlanInv, stage = "run", stage' = "run", UNCHANGED <<needs, mode, place, found, sliced, adjusted>>,
         status' \in [Plan!Nodes -> {"pending", "running", "success", "failure", "skipped"}],
         \A n \in Plan!Nodes : status[n] = "success" => status'[n] = "success",
         \A n \in Plan!Nodes : status'[n] # status[n] => n \notin Plan!SkipNodes /\ status'[n] # "skipped",
         \A n \in Plan!Nodes : status'[n] \in Ran /\ status[n] \notin Ran =>
           \A d \in adjusted[n] : status[d] = "success",
         Plan!RecordsAreProven', \A r \in recorded' : r[1] \in Plan!Nodes,
         stats' \in [hits : Nat, misses : Nat, bypasses : Nat, verifications : Nat, falseHits : Nat],
         stats'.verifications = stats.verifications, stats'.misses = stats.misses,
         stats'.falseHits = Cardinality(FalsePairs')
  PROVE  PlanInv'
<1>1. /\ Plan!SkipNodes' = Plan!SkipNodes /\ adjusted' = Plan!FilterPlanNodes(Plan!SkipNodes)'
      /\ VerifiedPairs' = VerifiedPairs
      /\ \A n \in Plan!Nodes : Verified(n)' = Verified(n)
      /\ \A n \in Plan!Nodes : Batches[n] # {} => sliced[n] \in [Batches[n] -> Answers]
      /\ \A n \in Plan!Nodes : Batches[n] = {} => found[n] \in Answers
  BY PlanStands DEF Executing
<1>2. stats.verifications = Cardinality(VerifiedPairs)
  BY DEF PlanInv
<1>3. stats'.falseHits <= stats'.verifications
  <2>1. FalsePairs' \subseteq VerifiedPairs /\ VerifiedPairs \subseteq Pairs
    BY <1>1 DEF FalsePairs, VerifiedPairs, Pairs
  <2> QED
    BY <1>2, <2>1, PairsAreFinite, FS_Subset
<1>4. Plan!TypeOK'
  BY <1>3 DEF PlanInv, Plan!TypeOK
<1>5. ASSUME NEW n \in Plan!Nodes \ Plan!SkipNodes, status'[n] \in Ran, NEW d \in adjusted[n]
      PROVE  status'[d] = "success"
  <2>1. d \in Plan!Nodes
    BY DEF PlanInv, Plan!TypeOK
  <2>2. status[d] = "success"
    BY <1>5 DEF PlanInv, Executing
  <2> QED
    BY <2>1, <2>2
<1>6. \A n \in Plan!Nodes : status'[n] # "skipped" /\ (n \in Plan!SkipNodes => status'[n] = "pending")
  BY DEF PlanInv
<1> QED
  BY <1>1, <1>2, <1>4, <1>5, <1>6 DEF PlanInv, Looking, Executing

LEMMA StartNodeStep ==
  ASSUME PlanInv, NEW x \in Plan!Nodes, Plan!Start(x)
  PROVE  PlanInv'
<1>1. /\ stage = "run" /\ status[x] = "pending" /\ x \notin Plan!SkipNodes
      /\ \A d \in adjusted[x] : status[d] = "success"
      /\ status' = [status EXCEPT ![x] = "running"]
      /\ UNCHANGED <<needs, mode, stage, place, found, sliced, adjusted, recorded, stats>>
  BY DEF Plan!Start
<1>2. /\ status \in [Plan!Nodes -> {"pending", "running", "success", "failure", "skipped"}]
      /\ stats \in [hits : Nat, misses : Nat, bypasses : Nat, verifications : Nat, falseHits : Nat]
      /\ stats.falseHits = Cardinality(FalsePairs) /\ Plan!RecordsAreProven
  BY <1>1 DEF PlanInv, Plan!TypeOK
<1>3. /\ Plan!SkipNodes' = Plan!SkipNodes /\ \A n \in Plan!Nodes : Verified(n)' = Verified(n)
  BY <1>1, PlanStands DEF Executing
<1>4. FalsePairs' = FalsePairs
  <2>1. \A n \in Plan!Nodes : status'[n] = "failure" <=> status[n] = "failure"
    BY <1>1, <1>2
  <2> QED
    BY <1>3, <2>1 DEF FalsePairs, Pairs
<1>5. Plan!RecordsAreProven'
  <2>1. \A n : status[n] = "success" => status'[n] = "success"
    BY <1>1, <1>2
  <2>2. \A n : Plan!RunTargets(n)' = Plan!RunTargets(n)
    BY <1>1 DEF Plan!RunTargets, Plan!SlicesWith
  <2> QED
    BY <1>1, <1>2, <1>3, <2>1, <2>2 DEF Plan!RecordsAreProven
<1>6. \A n \in Plan!Nodes : status'[n] = IF n = x THEN "running" ELSE status[n]
  BY <1>1, <1>2
<1>7. \A r \in recorded' : r[1] \in Plan!Nodes
  BY <1>1 DEF PlanInv
<1> QED
  BY <1>1, <1>2, <1>4, <1>5, <1>6, <1>7, ExecutingStep DEF Ran

LEMMA SucceedStep ==
  ASSUME PlanInv, NEW x \in Plan!Nodes, Plan!Succeed(x)
  PROVE  PlanInv'
<1>1. /\ stage = "run" /\ status[x] = "running" /\ status' = [status EXCEPT ![x] = "success"]
      /\ recorded' = recorded \cup {<<x, b>> : b \in Plan!Recordable(x)}
      /\ UNCHANGED <<needs, mode, stage, place, found, sliced, adjusted, stats>>
  BY DEF Plan!Succeed, Plan!OnSuccess
<1>2. /\ status \in [Plan!Nodes -> {"pending", "running", "success", "failure", "skipped"}]
      /\ stats \in [hits : Nat, misses : Nat, bypasses : Nat, verifications : Nat, falseHits : Nat]
      /\ stats.falseHits = Cardinality(FalsePairs) /\ Plan!RecordsAreProven
      /\ x \notin Plan!SkipNodes
  BY <1>1 DEF PlanInv, Plan!TypeOK
<1>3. /\ Plan!SkipNodes' = Plan!SkipNodes /\ \A n \in Plan!Nodes : Verified(n)' = Verified(n)
      /\ Batches[x] # {} => sliced[x] \in [Batches[x] -> Answers]
      /\ Batches[x] = {} => found[x] \in Answers
  BY <1>1, PlanStands DEF Executing
<1>4. \A n \in Plan!Nodes : status'[n] = IF n = x THEN "success" ELSE status[n]
  BY <1>1, <1>2
<1>5. FalsePairs' = FalsePairs
  <2>1. \A n \in Plan!Nodes : status'[n] = "failure" <=> status[n] = "failure"
    BY <1>1, <1>4
  <2> QED
    BY <1>3, <2>1 DEF FalsePairs, Pairs
<1>6. Plan!RecordsAreProven'
  <2>1. \A n : status[n] = "success" => status'[n] = "success"
    BY <1>1, <1>2
  <2>2. \A n : Plan!RunTargets(n)' = Plan!RunTargets(n)
    BY <1>1 DEF Plan!RunTargets, Plan!SlicesWith
  <2>3. ASSUME NEW r \in recorded
        PROVE  /\ status'[r[1]] = "success" /\ r[1] \notin Plan!SkipNodes
               /\ IF r[2] = "whole" THEN found[r[1]] \in {"miss", "verify", "error"}
                  ELSE r[2] \in Plan!RunTargets(r[1]) /\ sliced[r[1]][r[2]] \in {"miss", "verify"}
    BY <1>2, <2>1 DEF Plan!RecordsAreProven, Plan!Whole
  <2>4. ASSUME NEW b \in Plan!Recordable(x)
        PROVE  IF b = "whole" THEN found[x] \in {"miss", "verify", "error"}
               ELSE b \in Plan!RunTargets(x) /\ sliced[x][b] \in {"miss", "verify"}
    <3>1. CASE Batches[x] # {}
      <4>1. b \in Batches[x] /\ sliced[x][b] \in {"miss", "verify"}
        BY <1>3, <2>4, <3>1 DEF Plan!Recordable, Plan!BatchRun, Plan!SlicesWith
      <4>2. b # "whole" /\ b \in Plan!RunTargets(x)
        BY <4>1, PlanAssumed DEF Plan!RunTargets, Plan!SlicesWith
      <4> QED
        BY <4>1, <4>2
    <3>2. CASE Batches[x] = {}
      <4>1. b = "whole" /\ found[x] # "bypass"
        BY <2>4, <3>2 DEF Plan!Recordable, Plan!WholeRun, Plan!Whole
      <4>2. found[x] # "hit"
        BY <1>2 DEF Plan!SkipNodes, Plan!Cached
      <4> QED
        BY <1>3, <3>2, <4>1, <4>2 DEF Answers
    <3> QED
      BY <3>1, <3>2
  <2>5. ASSUME NEW r \in recorded'
        PROVE  /\ status'[r[1]] = "success" /\ r[1] \notin Plan!SkipNodes
               /\ IF r[2] = "whole" THEN found[r[1]] \in {"miss", "verify", "error"}
                  ELSE r[2] \in Plan!RunTargets(r[1]) /\ sliced[r[1]][r[2]] \in {"miss", "verify"}
    <3>1. CASE r \in recorded
      BY <2>3, <3>1
    <3>2. ASSUME NEW b \in Plan!Recordable(x), r = <<x, b>>
          PROVE  /\ status'[r[1]] = "success" /\ r[1] \notin Plan!SkipNodes
                 /\ IF r[2] = "whole" THEN found[r[1]] \in {"miss", "verify", "error"}
                    ELSE r[2] \in Plan!RunTargets(r[1]) /\ sliced[r[1]][r[2]] \in {"miss", "verify"}
      <4>1. r[1] = x /\ r[2] = b
        BY <3>2
      <4> QED
        BY <1>2, <1>4, <2>4, <4>1
    <3> QED
      BY <1>1, <3>1, <3>2
  <2> QED
    BY <1>1, <1>3, <2>2, <2>5 DEF Plan!RecordsAreProven, Plan!Whole
<1>7. \A r \in recorded' : r[1] \in Plan!Nodes
  BY <1>1 DEF PlanInv
<1> QED
  BY <1>1, <1>2, <1>4, <1>5, <1>6, <1>7, ExecutingStep DEF Ran

LEMMA FailStep ==
  ASSUME PlanInv, NEW x \in Plan!Nodes, Plan!Fail(x)
  PROVE  PlanInv'
<1> DEFINE V == Plan!Verifying(x)
<1>1. /\ stage = "run" /\ status[x] = "running" /\ status' = [status EXCEPT ![x] = "failure"]
      /\ stats' = [stats EXCEPT !.falseHits = @ + Cardinality(V)]
      /\ UNCHANGED <<needs, mode, stage, place, found, sliced, adjusted, recorded>>
  BY DEF Plan!Fail, Plan!OnFailure, Plan!Cardinality, Cardinality
<1>2. /\ status \in [Plan!Nodes -> {"pending", "running", "success", "failure", "skipped"}]
      /\ stats \in [hits : Nat, misses : Nat, bypasses : Nat, verifications : Nat, falseHits : Nat]
      /\ stats.falseHits = Cardinality(FalsePairs) /\ Plan!RecordsAreProven
      /\ x \notin Plan!SkipNodes
  BY <1>1 DEF PlanInv, Plan!TypeOK
<1>3. /\ Plan!SkipNodes' = Plan!SkipNodes
      /\ \A n \in Plan!Nodes : Verified(n)' = Verified(n) /\ Verified(n) = Plan!Verifying(n)
      /\ Batches[x] # {} => sliced[x] \in [Batches[x] -> Answers]
  BY <1>1, PlanStands DEF Executing
<1>4. \A n \in Plan!Nodes : status'[n] = IF n = x THEN "failure" ELSE status[n]
  BY <1>1, <1>2
<1>5. /\ V \subseteq (UNION {Batches[n] : n \in Plan!Nodes}) \cup {"whole"}
      /\ IsFiniteSet(V) /\ Cardinality(V) \in Nat
  <2>1. V \subseteq Batches[x] \cup {"whole"}
    BY <1>3 DEF Plan!Verifying, Plan!SlicesWith, Plan!Whole
  <2>2. IsFiniteSet(Batches[x] \cup {"whole"})
    BY PlanAssumed, FS_AddElement
  <2> HIDE DEF V
  <2>3. IsFiniteSet(V) /\ Cardinality(V) \in Nat
    BY <2>1, <2>2, FS_Subset, FS_CardinalityType
  <2> QED
    BY <2>1, <2>3
<1>6. \A b \in V : <<x, b>> \in Pairs
  BY <1>5 DEF Pairs
<1>7. Verified(x) = V
  BY <1>3
<1> HIDE DEF V
<1>8. FalsePairs' = FalsePairs \cup Paired(x, V)
  <2>1. ASSUME NEW q \in Pairs
        PROVE  q \in FalsePairs' <=> q \in FalsePairs \/ q \in Paired(x, V)
    <3>1. q = <<q[1], q[2]>> /\ q[1] \in Plan!Nodes
      BY DEF Pairs
    <3>2. q \in Paired(x, V) <=> q[1] = x /\ q[2] \in V
      BY <3>1 DEF Paired
    <3>3. q \in FalsePairs' <=> status'[q[1]] = "failure" /\ q[2] \in Verified(q[1])
      BY <1>3, <3>1 DEF FalsePairs
    <3>4. q \in FalsePairs <=> status[q[1]] = "failure" /\ q[2] \in Verified(q[1])
      BY DEF FalsePairs
    <3> QED
      BY <1>1, <1>4, <1>7, <3>1, <3>2, <3>3, <3>4
  <2>2. FalsePairs' \subseteq Pairs /\ FalsePairs \subseteq Pairs /\ Paired(x, V) \subseteq Pairs
    BY <1>6 DEF FalsePairs, Paired, Pairs
  <2> QED
    BY <2>1, <2>2
<1>9. Cardinality(FalsePairs') = Cardinality(FalsePairs) + Cardinality(V)
  <2>1. \A b \in V : <<x, b>> \notin FalsePairs
    BY <1>1 DEF FalsePairs
  <2> QED
    BY <1>5, <1>8, <2>1, FalseAreVerified, PairsAdded
<1>10. /\ stats' \in [hits : Nat, misses : Nat, bypasses : Nat, verifications : Nat, falseHits : Nat]
       /\ stats'.verifications = stats.verifications /\ stats'.misses = stats.misses
       /\ stats'.falseHits = stats.falseHits + Cardinality(V)
  <2>1. /\ stats.hits \in Nat /\ stats.misses \in Nat /\ stats.bypasses \in Nat
        /\ stats.verifications \in Nat /\ stats.falseHits \in Nat
    BY <1>2
  <2>2. stats' = [hits |-> stats.hits, misses |-> stats.misses, bypasses |-> stats.bypasses,
                  verifications |-> stats.verifications, falseHits |-> stats.falseHits + Cardinality(V)]
    BY <1>1, <1>2
  <2> QED
    BY <1>5, <2>1, <2>2
<1>11. Plan!RecordsAreProven'
  <2>1. \A n : status[n] = "success" => status'[n] = "success"
    BY <1>1, <1>2
  <2>2. \A n : Plan!RunTargets(n)' = Plan!RunTargets(n)
    BY <1>1 DEF Plan!RunTargets, Plan!SlicesWith
  <2> QED
    BY <1>1, <1>2, <1>3, <2>1, <2>2 DEF Plan!RecordsAreProven
<1>12. \A r \in recorded' : r[1] \in Plan!Nodes
  BY <1>1 DEF PlanInv
<1> QED
  BY <1>1, <1>2, <1>4, <1>9, <1>10, <1>11, <1>12, ExecutingStep DEF Ran

LEMMA PlanEndsStep ==
  ASSUME PlanInv, Plan!PlanEnds
  PROVE  PlanInv'
<1>1. /\ stage = "run" /\ stage' = "settle" /\ status' = Plan!Results
      /\ \A n \in Plan!Nodes : status[n] # "running"
      /\ Plan!Aborted \/ \A n \in Plan!Nodes \ Plan!SkipNodes : status[n] = "pending" =>
           \E d \in adjusted[n] : status[d] # "success"
      /\ UNCHANGED <<needs, mode, place, found, sliced, adjusted, recorded, stats>>
  BY DEF Plan!PlanEnds
<1>2. /\ status \in [Plan!Nodes -> {"pending", "running", "success", "failure", "skipped"}]
      /\ adjusted \in [Plan!Nodes -> SUBSET Plan!Nodes]
      /\ stats.verifications = Cardinality(VerifiedPairs)
      /\ stats.falseHits = Cardinality(FalsePairs) /\ Plan!RecordsAreProven
      /\ \A n \in Plan!Nodes : status[n] # "skipped" /\ (n \in Plan!SkipNodes => status[n] = "pending")
      /\ \A n \in Plan!Nodes \ Plan!SkipNodes :
           status[n] \in Ran => \A d \in adjusted[n] : status[d] = "success"
  BY <1>1 DEF PlanInv, Plan!TypeOK, Executing
<1>3. /\ Plan!SkipNodes' = Plan!SkipNodes /\ adjusted' = Plan!FilterPlanNodes(Plan!SkipNodes)'
      /\ \A n \in Plan!Nodes : Verified(n)' = Verified(n)
      /\ VerifiedPairs' = VerifiedPairs
      /\ \A n \in Plan!Nodes : Batches[n] # {} => sliced[n] \in [Batches[n] -> Answers]
      /\ \A n \in Plan!Nodes : Batches[n] = {} => found[n] \in Answers
  BY <1>1, PlanStands DEF Executing
<1>4. status' = [n \in Plan!Nodes |-> IF n \in Plan!SkipNodes THEN "success"
                                     ELSE IF status[n] = "pending" THEN "skipped" ELSE status[n]]
  BY <1>1 DEF Plan!Results
<1>5. \A n \in Plan!Nodes : adjusted[n] \cap Plan!SkipNodes = {}
  BY <1>1, AdjustedNeeds DEF Executing
<1>6. ASSUME NEW n \in Plan!Nodes
      PROVE  \/ n \in Plan!SkipNodes /\ status'[n] = "success"
             \/ n \notin Plan!SkipNodes /\ status'[n] = status[n] /\ status[n] \in {"success", "failure"}
             \/ /\ n \notin Plan!SkipNodes /\ status'[n] = "skipped"
                /\ Plan!Aborted' \/ \E d \in adjusted[n] : status'[d] \in {"skipped", "failure"}
  <2>1. CASE n \in Plan!SkipNodes
    BY <1>4, <2>1
  <2>2. CASE n \notin Plan!SkipNodes /\ status[n] # "pending"
    BY <1>1, <1>2, <1>4, <2>2
  <2>3. CASE n \notin Plan!SkipNodes /\ status[n] = "pending" /\ Plan!Aborted
    <3>1. PICK m \in Plan!Nodes : status[m] = "failure"
      BY <2>3 DEF Plan!Aborted
    <3>2. status'[m] = "failure"
      BY <1>2, <1>4, <3>1
    <3> QED
      BY <1>1, <1>4, <2>3, <3>2 DEF Plan!Aborted
  <2>4. CASE n \notin Plan!SkipNodes /\ status[n] = "pending" /\ ~Plan!Aborted
    <3>1. PICK d \in adjusted[n] : status[d] # "success"
      BY <1>1, <2>4
    <3>2. d \in Plan!Nodes /\ d \notin Plan!SkipNodes
      BY <1>2, <1>5, <3>1
    <3>3. status'[d] \in {"skipped", "failure"}
      BY <1>1, <1>2, <1>4, <3>1, <3>2
    <3> QED
      BY <1>4, <2>4, <3>1, <3>3
  <2> QED
    BY <2>1, <2>2, <2>3, <2>4
<1>7. \A n \in Plan!Nodes : status[n] = "success" => status'[n] = "success"
  BY <1>4
<1>8. FalsePairs' = FalsePairs
  <2>1. \A n \in Plan!Nodes : status'[n] = "failure" <=> status[n] = "failure"
    BY <1>2, <1>4
  <2> QED
    BY <1>3, <2>1 DEF FalsePairs, Pairs
<1>9. Plan!RecordsAreProven'
  <2>1. \A n : Plan!RunTargets(n)' = Plan!RunTargets(n)
    BY <1>1 DEF Plan!RunTargets, Plan!SlicesWith
  <2>2. ASSUME NEW r \in recorded PROVE status'[r[1]] = "success"
    <3>1. status[r[1]] = "success" /\ r[1] \notin Plan!SkipNodes
      BY <1>2 DEF Plan!RecordsAreProven
    <3>2. r[1] \in Plan!Nodes
      BY DEF PlanInv
    <3> QED
      BY <1>7, <3>1, <3>2
  <2> QED
    BY <1>1, <1>2, <1>3, <2>1, <2>2 DEF Plan!RecordsAreProven
<1>10. Plan!TypeOK'
  <2>1. status' \in [Plan!Nodes -> {"pending", "running", "success", "failure", "skipped"}]
    BY <1>2, <1>4
  <2> QED
    BY <1>1, <2>1 DEF PlanInv, Plan!TypeOK
<1>11. ASSUME NEW n \in Plan!Nodes \ Plan!SkipNodes, status'[n] \in Ran, NEW d \in adjusted[n]
       PROVE  status'[d] = "success"
  <2>1. status[n] \in Ran /\ d \in Plan!Nodes
    BY <1>2, <1>4, <1>11 DEF Ran
  <2> QED
    BY <1>2, <1>7, <2>1
<1>12. \A n \in Plan!Nodes : Batches[n] = {} => found'[n] # "none"
  BY <1>1, <1>3 DEF Answers
<1> QED
  BY <1>1, <1>2, <1>3, <1>6, <1>8, <1>9, <1>10, <1>11, <1>12 DEF PlanInv, Looking, Executing

LEMMA PlanStutters ==
  ASSUME PlanInv, UNCHANGED <<needs, mode, stage, place, found, sliced, adjusted, status, recorded, stats>>
  PROVE  PlanInv'
<1>1. Plan!SkipNodes' = Plan!SkipNodes
  BY DEF Plan!SkipNodes, Plan!Cached, Plan!SlicesWith
<1>2. Plan!FilterPlanNodes(Plan!SkipNodes)' = Plan!FilterPlanNodes(Plan!SkipNodes)
  <2>1. PICK S : S = Plan!SkipNodes
    OBVIOUS
  <2>2. Plan!FilterPlanNodes(S)' = Plan!FilterPlanNodes(S)
    BY DEF Plan!FilterPlanNodes, Plan!ResolveNeeds, Plan!NeedsThrough
  <2> QED
    BY <1>1, <2>1, <2>2
<1>3. \A n \in Plan!Nodes :
        Verified(n)' = Verified(n) /\ Scanned(n)' = Scanned(n) /\ Awaited(n)' = Awaited(n)
  BY DEF Verified, Plan!Verifying, Plan!SlicesWith, Scanned, Awaited
<1>4. VerifiedPairs' = VerifiedPairs /\ FalsePairs' = FalsePairs
  BY <1>3 DEF VerifiedPairs, FalsePairs, Pairs
<1>5. Plan!TypeOK'
  BY DEF PlanInv, Plan!TypeOK
<1>6. Plan!RecordsAreProven'
  BY <1>1 DEF PlanInv, Plan!RecordsAreProven, Plan!RunTargets, Plan!SlicesWith
<1>7. Plan!Aborted' = Plan!Aborted
  BY DEF Plan!Aborted
<1> QED
  BY <1>1, <1>2, <1>3, <1>4, <1>5, <1>6, <1>7 DEF PlanInv

LEMMA ReturnStep ==
  ASSUME PlanInv, Plan!Return
  PROVE  PlanInv'
<1>1. /\ stage = "settle" /\ stage' = "returned"
      /\ UNCHANGED <<needs, mode, place, found, sliced, adjusted, status, recorded, stats>>
  BY DEF Plan!Return
<1>2. /\ Plan!SkipNodes' = Plan!SkipNodes /\ VerifiedPairs' = VerifiedPairs
      /\ adjusted' = Plan!FilterPlanNodes(Plan!SkipNodes)'
      /\ \A n \in Plan!Nodes : Verified(n)' = Verified(n)
      /\ \A n \in Plan!Nodes : Batches[n] # {} => sliced[n] \in [Batches[n] -> Answers]
      /\ \A n \in Plan!Nodes : Batches[n] = {} => found[n] \in Answers
  BY <1>1, PlanStands DEF Executing
<1>3. FalsePairs' = FalsePairs
  BY <1>1, <1>2 DEF FalsePairs, Pairs
<1>4. Plan!TypeOK' /\ Plan!RecordsAreProven'
  BY <1>1, <1>2 DEF PlanInv, Plan!TypeOK, Plan!RecordsAreProven, Plan!RunTargets, Plan!SlicesWith
<1>5. Plan!Aborted' = Plan!Aborted
  BY <1>1 DEF Plan!Aborted
<1> QED
  BY <1>1, <1>2, <1>3, <1>4, <1>5 DEF PlanInv, Looking, Executing

LEMMA PlanStep == PlanInv /\ Plan!Next => PlanInv'
<1> SUFFICES ASSUME PlanInv, Plan!Next PROVE PlanInv'
  OBVIOUS
<1>1. CASE Plan!WriteSettles
  BY <1>1, PlanStutters DEF Plan!WriteSettles
<1> QED
  BY <1>1, SlicesStep, StartLookupStep, AwaitStep, PlanEndsStep, ReturnStep, LookupSettles,
     StartNodeStep, SucceedStep, FailStep DEF Plan!Next, Plan!Loop, Plan!NodeMoves

-----------------------------------------------------------------------------
(* The theorems. *)

\* Each component keeps its own invariant; no step leads from one to another.
CacheInv ==
  /\ part \in {"step", "plan", "file", "object", "env", "race"}
  /\ part = "step" => StepInv
  /\ part = "plan" => PlanInv
  /\ part = "file" => FileInv
  /\ part = "object" => ObjectInv

\* Every component of the suite keeps its invariant (cache/).
THEOREM CacheAlways == Spec => []CacheInv
<1>1. Init => CacheInv
  BY StepInit, PlanInit, FileInit, ObjectInit DEF Init, CacheInv
<1>2. CacheInv /\ [Next]_vars => CacheInv'
  <2> SUFFICES ASSUME CacheInv, [Next]_vars PROVE CacheInv'
    OBVIOUS
  <2>1. part' = part
    BY DEF Next, vars
  <2>2. CASE Next
    BY <2>1, <2>2, StepStep, PlanStep, FileStep, ObjectStep DEF Next, CacheInv
  <2>3. CASE UNCHANGED vars
    <3>1. UNCHANGED <<v1, v2, v3, v4, v5, v6, v7, v8, v9, v10, v11>>
      BY <2>3 DEF vars
    <3>2. ASSUME part = "step" PROVE StepInv'
      BY <3>1, <3>2 DEF CacheInv, StepInv, Steps!TypeOK, RunIsSound, KeyFits, Between, EntryIsSound,
         Spent, Keyed, Verifies, InFlight
    <3>3. ASSUME part = "plan" PROVE PlanInv'
      BY <3>1, <3>3, PlanStutters DEF CacheInv
    <3>4. ASSUME part = "file" PROVE FileInv'
      <4>1. FileInv
        BY <3>4 DEF CacheInv
      <4>2. Files!TypeOK'
        BY <3>1, <4>1 DEF FileInv, Files!TypeOK
      <4>3. Files!TempsHaveOwners'
        BY <3>1, <4>1 DEF FileInv, Files!TempsHaveOwners
      <4> QED
        BY <3>1, <4>1, <4>2, <4>3 DEF FileInv, Files!MyTemp
    <3>5. ASSUME part = "object" PROVE ObjectInv'
      BY <3>1, <3>5 DEF CacheInv, ObjectInv, Objects!TypeOK
    <3> QED
      BY <2>1, <3>2, <3>3, <3>4, <3>5 DEF CacheInv
  <2> QED
    BY <2>2, <2>3
<1> QED
  BY <1>1, <1>2, PTL DEF Spec

\* Of every project, any number of processes and any edits: an entry says that
\* the steps with its key pass on the content the key describes, and they do
\* (packages/nopo/src/cache/index.ts, cache-key.ts).
THEOREM EntriesStayHonest == Spec => []EntriesAreHonest
<1>1. CacheInv => EntriesAreHonest
  BY DEF CacheInv, EntriesAreHonest, StepInv, EntryIsSound, Steps!HonestEntries
<1> QED
  BY <1>1, CacheAlways, PTL

\* What is skipped would have passed, on the word of somebody who may give it, in
\* time; and what proves false is gone (cache/index.ts, store.ts).
THEOREM HitsAreAlwaysEarned == Spec => HitsAreEarned
<1>1. CacheInv /\ [Next]_vars =>
        [part = "step" => Steps!SkippedWouldPass /\ Steps!HitsAreTrusted /\ Steps!FalseHitDropped]_vars
  BY StepHits DEF CacheInv, Next
<1> QED
  BY <1>1, CacheAlways, PTL DEF Spec, HitsAreEarned

\* Of every acyclic plan, in either failure mode: what runs keeps the order of the
\* plan across what hit, a pass is recorded of what ran and passed only, and every
\* node has its result, none skipped but after a failure (cache/plan-cache.ts).
THEOREM PlansKeepTheirOrder == Spec => []CachingKeepsThePlan
<1>1. PlanInv => Plan!TypeOK /\ Plan!RecordsAreProven
  BY DEF PlanInv
<1>2. CacheInv => CachingKeepsThePlan
  BY <1>1, OrderIsKept, PlanIsCovered DEF CacheInv, CachingKeepsThePlan
<1> QED
  BY <1>2, CacheAlways, PTL

\* The directory keeps the promise of a store, whatever system calls its users
\* are between and wherever they die (cache/store.ts).
THEOREM DirectoryIsAStore == Spec => ImplementsResultStore
<1> DEFINE content == IF part = "file" THEN v2 ELSE NoFile
<1>1. Init => Store!Init
  BY DEF Init, Store!Init, NoFile, Files!Init
<1>2. CacheInv /\ [Next]_vars => [Store!Next]_content
  <2> SUFFICES ASSUME CacheInv, [Next]_vars PROVE [Store!Next]_content
    OBVIOUS
  <2>1. part' = part
    BY DEF Next, vars
  <2>2. CASE part # "file"
    BY <2>1, <2>2 DEF NoFile
  <2>3. CASE part = "file" /\ UNCHANGED vars
    BY <2>1, <2>3 DEF vars
  <2>4. CASE part = "file" /\ Next
    <3>1. content = file /\ content' = file'
      BY <2>1, <2>4
    <3>2. \/ \E x \in Files!Entries : file' = [file EXCEPT ![x.key] = x]
          \/ \E k \in Keys : file' = [file EXCEPT ![k] = Files!Nothing]
          \/ UNCHANGED file
      BY <2>4, FilePuts DEF Next, CacheInv
    <3> QED
      BY <3>1, <3>2 DEF Store!Next, Store!Put, Store!Drop
  <2> QED
    BY <2>2, <2>3, <2>4
<1> QED
  BY <1>1, <1>2, CacheAlways, PTL DEF Spec, ImplementsResultStore, Store!Spec

\* Both stores: nothing expired is given out, what was acknowledged is stored, and
\* no temporary file outlives its writer's process (cache/store.ts).
THEOREM StoresAlwaysKeepTheirWord == Spec => StoresKeepTheirWord
<1>1. FileInv => Files!TypeOK /\ Files!TempsHaveOwners
  BY DEF FileInv
<1>2. ObjectInv => Objects!TypeOK
  BY DEF ObjectInv
<1>3. CacheInv /\ CacheInv' /\ [Next]_vars =>
        [/\ part = "file" =>
              Files!TypeOK' /\ Files!TempsHaveOwners' /\ Files!NothingExpiredIsRead
         /\ part = "object" =>
              Objects!TypeOK' /\ Objects!NothingExpiredIsReturned /\ Objects!AcknowledgedWasStored]_vars
  <2> SUFFICES ASSUME CacheInv, CacheInv', Next
               PROVE  /\ part = "file" =>
                           Files!TypeOK' /\ Files!TempsHaveOwners' /\ Files!NothingExpiredIsRead
                      /\ part = "object" =>
                           Objects!TypeOK' /\ Objects!NothingExpiredIsReturned /\ Objects!AcknowledgedWasStored
    OBVIOUS
  <2>1. part' = part
    BY DEF Next
  <2> QED
    BY <1>1, <1>2, <2>1, FileReads, ObjectReturns DEF Next, CacheInv, FileInv, ObjectInv
<1> QED
  BY <1>3, CacheAlways, PTL DEF Spec, StoresKeepTheirWord
-----------------------------------------------------------------------------
(* The processes that share .env, of any settings, at once or not. *)

EnvOf(S, C, K) == INSTANCE EnvFile WITH
  file <- v1, procs <- v2, runs <- v3, images <- v4,
  Procs <- EnvProcs, Services <- EnvServices, Settings <- S, Originals <- EnvFiles,
  MaxRuns <- MaxStarts, Concurrent <- C, Crashes <- K

\* A sequence with something in it.
LEMMA NotEmpty == ASSUME NEW S, NEW u \in Seq(S), Len(u) > 0 PROVE u # <<>>
  OBVIOUS

\* One with something in it and no more than that.
LEMMA OneOrMore == ASSUME NEW S, NEW u \in Seq(S), u # <<>>, ~(Len(u) > 1) PROVE Len(u) = 1
<1> DEFINE n == Len(u)
<1>1. n \in Nat /\ n # 0 /\ ~(n > 1)
  OBVIOUS
<1> HIDE DEF n
<1>2. n = 1
  BY <1>1
<1> QED
  BY <1>2 DEF n

\* Sequences that start otherwise are others.
LEMMA OnlyFirst == ASSUME NEW u, NEW x, u[1] # x PROVE u # <<x>>
  OBVIOUS

\* A sequence is what it ends with after the rest of it.
LEMMA SeqEnds ==
  ASSUME NEW T, NEW s \in Seq(T), s # <<>>
  PROVE  /\ Ordered!Front(s) \in Seq(T) /\ Ordered!Last(s) \in T
         /\ Len(s) \in Nat \ {0} /\ Len(Ordered!Front(s)) = Len(s) - 1
         /\ Ordered!Front(s) \o <<Ordered!Last(s)>> = s
         /\ \A i \in 1 .. Len(s) - 1 : Ordered!Front(s)[i] = s[i]
<1> DEFINE n == Len(s) - 1
           f == Ordered!Front(s)
           x == Ordered!Last(s)
<1>1. Len(s) \in Nat \ {0}
  OBVIOUS
<1>2. /\ f \in Seq(T) /\ Len(f) = Len(s) - 1
      /\ \A i \in 1 .. Len(s) - 1 : f[i] = s[i]
  <2>1. \A i \in 1 .. n : s[i] \in T
    BY <1>1
  <2>2. n \in Nat
    BY <1>1
  <2> HIDE DEF n
  <2>3. /\ SubSeq(s, 1, n) \in Seq(T) /\ Len(SubSeq(s, 1, n)) = IF 1 <= n THEN n - 1 + 1 ELSE 0
        /\ \A i \in 1 .. n - 1 + 1 : SubSeq(s, 1, n)[i] = s[1 + i - 1]
    BY <2>1, <2>2, SubSeqProperties
  <2>4. /\ Len(SubSeq(s, 1, n)) = n
        /\ \A i \in 1 .. n : SubSeq(s, 1, n)[i] = s[i]
    BY <2>2, <2>3
  <2> QED
    BY <2>3, <2>4 DEF n, Ordered!Front
<1>3. x \in T /\ x = s[Len(s)]
  BY <1>1 DEF Ordered!Last
<1> HIDE DEF f, x
<1>4. f \o <<x>> \in Seq(T) /\ Len(f \o <<x>>) = Len(s)
  BY <1>1, <1>2, <1>3
<1>5. \A i \in 1 .. Len(s) : (f \o <<x>>)[i] = s[i]
  BY <1>1, <1>2, <1>3
<1>6. f \o <<x>> = s
  BY <1>4, <1>5, SeqEqual
<1> QED
  BY <1>1, <1>2, <1>3, <1>6 DEF f, x

\* And what is put behind a sequence ends it.
LEMMA EndsOfAppend ==
  ASSUME NEW T, NEW s \in Seq(T), NEW x \in T
  PROVE  /\ s \o <<x>> \in Seq(T) /\ s \o <<x>> # <<>>
         /\ Ordered!Front(s \o <<x>>) = s /\ Ordered!Last(s \o <<x>>) = x
<1> DEFINE t == s \o <<x>>
<1>1. t \in Seq(T) /\ Len(t) = Len(s) + 1 /\ Len(s) \in Nat
      /\ \A i \in 1 .. Len(s) : t[i] = s[i]
  OBVIOUS
<1>2. t[Len(t)] = x
  OBVIOUS
<1> HIDE DEF t
<1>3. t # <<>>
  BY <1>1
<1>4. Ordered!Front(t) = s
  <2>1. /\ Ordered!Front(t) \in Seq(T) /\ Len(Ordered!Front(t)) = Len(s)
        /\ \A i \in 1 .. Len(s) : Ordered!Front(t)[i] = t[i]
    <3>1. Len(t) - 1 = Len(s)
      BY <1>1
    <3> QED
      BY <1>1, <1>3, <3>1, SeqEnds
  <2> QED
    BY <1>1, <2>1, SeqEqual
<1> QED
  BY <1>1, <1>2, <1>3, <1>4 DEF t, Ordered!Last

\* Words; the provers do not know that a literal is a string.
Letters == STRING \cup {"local"}
Segments == Seq(Letters) \ {<<>>}
Words == Seq(Segments)
Tags == [text : Words, digest : Words]
Parsed == [registry : Words, image : Words, version : Words, digest : Words]
NoName == [text |-> <<>>, digest |-> <<>>]

\* A word with a version is a word.
LEMMA JoinIsWord ==
  ASSUME NEW t \in Words, t # <<>>, NEW v \in Words, v # <<>>
  PROVE  Ordered!Join(t, v) \in Words /\ Ordered!Join(t, v) # <<>>
<1> DEFINE mid == Ordered!Last(t) \o Head(v)
<1>1. Ordered!Front(t) \in Words /\ Ordered!Last(t) \in Segments
  BY SeqEnds DEF Words
<1>2. Head(v) \in Segments /\ Tail(v) \in Words
  BY HeadTailProperties DEF Words
<1>3. mid \in Segments
  <2>1. Ordered!Last(t) \in Seq(Letters) /\ Head(v) \in Seq(Letters) /\ Head(v) # <<>>
    BY <1>1, <1>2 DEF Segments
  <2> QED
    BY <2>1, ConcatProperties, ConcatEqualIffEmpty DEF Segments
<1> HIDE DEF mid
<1>4. /\ Ordered!Front(t) \o <<mid>> \in Seq(Segments)
      /\ Ordered!Front(t) \o <<mid>> # <<>>
  BY <1>1, <1>3, EndsOfAppend DEF Words
<1>5. Ordered!Join(t, v) = (Ordered!Front(t) \o <<mid>>) \o Tail(v)
  BY DEF Ordered!Join, mid
<1> QED
  BY <1>2, <1>4, <1>5, ConcatProperties, ConcatEqualIffEmpty DEF Words

\* The registry and the image of a word make it again.
LEMMA NameComesBack ==
  ASSUME NEW t \in Words
  PROVE  LET name == Ordered!Named(t)
         IN  /\ name.registry \in Words /\ name.image \in Words
             /\ name.registry \o name.image = t
             /\ t # <<>> => name.image # <<>>
<1> DEFINE name == Ordered!Named(t)
<1>1. CASE Ordered!Hosted(t)
  <2>1. t \in Seq(Segments) /\ Len(t) \in Nat /\ Len(t) > 1 /\ t # <<>>
    BY <1>1 DEF Ordered!Hosted, Words
  <2>2. t[1] \in Segments /\ Head(t) = t[1] /\ <<t[1]>> \in Seq(Segments)
    BY <2>1
  <2>3. Tail(t) \in Seq(Segments) /\ Len(Tail(t)) = Len(t) - 1
    BY <2>1, HeadTailProperties
  <2>4. <<t[1]>> \o Tail(t) = t
    BY <2>1, <2>2, <2>3
  <2>5. name.registry = <<t[1]>> /\ name.image = Tail(t)
    BY <1>1 DEF Ordered!Named
  <2>6. Tail(t) # <<>>
    <3>1. Len(Tail(t)) > 0
      BY <2>1, <2>3
    <3> QED
      BY <2>3, <3>1, NotEmpty
  <2> QED
    BY <2>2, <2>3, <2>4, <2>5, <2>6 DEF Words
<1>2. CASE ~Ordered!Hosted(t)
  <2>1. name.registry = <<>> /\ name.image = t
    BY <1>2 DEF Ordered!Named, Ordered!None
  <2>2. <<>> \in Words /\ <<>> \o t = t
    BY DEF Words
  <2> QED
    BY <2>1, <2>2
<1> QED
  BY <1>1, <1>2

\* The parts of a tag make it again.
LEMMA TagComesBack ==
  ASSUME NEW t \in Tags
  PROVE  LET got == Ordered!parse(t)
         IN  /\ got \in Parsed /\ Ordered!stringify(got) = t
             /\ t.text # <<>> => got.image # <<>>
<1> DEFINE w == t.text
           end == Ordered!Last(w)
           rest == Ordered!Front(w) \o <<Ordered!Front(end)>>
           version == <<<<Ordered!Last(end)>>>>
           got == Ordered!parse(t)
<1>1. w \in Words /\ t.digest \in Words /\ <<>> \in Words /\ t = [text |-> w, digest |-> t.digest]
  BY DEF Tags, Words
<1>2. CASE w # <<>> /\ Len(end) > 1
  <2>1. /\ Ordered!Front(w) \in Seq(Segments) /\ end \in Segments
        /\ Ordered!Front(w) \o <<end>> = w
    BY <1>1, <1>2, SeqEnds DEF Words
  <2>2. end \in Seq(Letters) /\ end # <<>>
    BY <2>1 DEF Segments
  <2>3. /\ Ordered!Front(end) \in Seq(Letters) /\ Ordered!Last(end) \in Letters
        /\ Len(Ordered!Front(end)) = Len(end) - 1
        /\ Ordered!Front(end) \o <<Ordered!Last(end)>> = end
    BY <2>2, SeqEnds
  <2> HIDE DEF end
  <2>4. Ordered!Front(end) \in Segments
    <3>1. Len(Ordered!Front(end)) # 0
      BY <1>2, <2>2, <2>3
    <3>2. Ordered!Front(end) # <<>>
      BY <3>1
    <3> QED
      BY <2>3, <3>2 DEF Segments
  <2>5. /\ rest \in Words /\ rest # <<>> /\ Ordered!Front(rest) = Ordered!Front(w)
        /\ Ordered!Last(rest) = Ordered!Front(end)
    BY <2>1, <2>4, EndsOfAppend DEF Words
  <2>6. version \in Words /\ version # <<>> /\ Head(version) = <<Ordered!Last(end)>>
        /\ Tail(version) = <<>>
    <3>1. <<Ordered!Last(end)>> \in Segments
      BY <2>3 DEF Segments
    <3> QED
      BY <3>1 DEF Words
  <2> HIDE DEF rest, version
  <2>7. got = [registry |-> Ordered!Named(rest).registry, image |-> Ordered!Named(rest).image,
               version |-> version, digest |-> t.digest]
    BY <1>2 DEF Ordered!parse, Ordered!None, end, rest, version
  <2>8. Ordered!Join(rest, version) = w
    <3>1. Ordered!Join(rest, version) =
            (Ordered!Front(w) \o <<Ordered!Front(end) \o <<Ordered!Last(end)>>>>) \o <<>>
      BY <2>5, <2>6 DEF Ordered!Join
    <3> QED
      BY <1>1, <2>1, <2>3, <3>1, ConcatEmptySeq DEF Words
  <2>9. /\ Ordered!Named(rest).registry \in Words /\ Ordered!Named(rest).image \in Words
        /\ Ordered!Named(rest).registry \o Ordered!Named(rest).image = rest
        /\ Ordered!Named(rest).image # <<>>
    BY <2>5, NameComesBack
  <2>10. got \in Parsed /\ got.image # <<>>
    BY <1>1, <2>6, <2>7, <2>9 DEF Parsed
  <2>11. Ordered!stringify(got) = t
    <3>1. /\ got.registry \o got.image = rest /\ got.version = version
          /\ got.digest = t.digest
      <4> HIDE DEF got
      <4> QED
        BY <2>7, <2>9
    <3> HIDE DEF got
    <3>2. Ordered!stringify(got) = [text |-> Ordered!Join(rest, version), digest |-> t.digest]
      BY <2>6, <3>1 DEF Ordered!stringify, Ordered!None
    <3> QED
      BY <1>1, <2>8, <3>2
  <2> QED
    BY <2>10, <2>11
<1>3. CASE ~(w # <<>> /\ Len(end) > 1)
  <2>1. got = [registry |-> Ordered!Named(w).registry, image |-> Ordered!Named(w).image,
               version |-> <<>>, digest |-> t.digest]
    BY <1>3 DEF Ordered!parse, Ordered!None
  <2>2. /\ Ordered!Named(w).registry \in Words /\ Ordered!Named(w).image \in Words
        /\ Ordered!Named(w).registry \o Ordered!Named(w).image = w
        /\ w # <<>> => Ordered!Named(w).image # <<>>
    BY <1>1, NameComesBack
  <2>3. got \in Parsed /\ (w # <<>> => got.image # <<>>)
    BY <1>1, <2>1, <2>2 DEF Parsed
  <2>4. Ordered!stringify(got) = t
    <3>1. got.registry \o got.image = w /\ got.version = <<>> /\ got.digest = t.digest
      <4> HIDE DEF got
      <4> QED
        BY <2>1, <2>2
    <3> HIDE DEF got
    <3>2. Ordered!stringify(got) = [text |-> w, digest |-> t.digest]
      BY <3>1 DEF Ordered!stringify, Ordered!None
    <3> QED
      BY <1>1, <3>2
  <2> QED
    BY <2>3, <2>4
<1> QED
  BY <1>2, <1>3

\* A registry of one segment and an image without colons are read as they are, or
\* as an image without colons.
LEMMA PathIsRead ==
  ASSUME NEW r \in Seq(Segments), NEW m \in Seq(Segments), m # <<>>, Len(r) < 2,
         \A i \in 1 .. Len(r \o m) : (r \o m)[i] # <<"sha256">>,
         \A i \in 1 .. Len(m) : Len(m[i]) = 1
  PROVE  LET name == Ordered!Named(r \o m)
         IN  /\ name.image \in Seq(Segments) /\ name.image # <<>> /\ name.image # <<<<"sha256">>>>
             /\ \A i \in 1 .. Len(name.image) : Len(name.image[i]) = 1
             /\ Ordered!Hosted(r \o m) => name.registry # <<>>
             /\ Len(Ordered!Last(r \o m)) = 1
<1> DEFINE path == r \o m
           name == Ordered!Named(path)
           n == Len(r)
           k == Len(m)
<1>1. n \in Nat /\ k \in Nat /\ k > 0 /\ n < 2
  OBVIOUS
<1>2. path \in Seq(Segments) /\ Len(path) = n + k
  BY ConcatProperties
<1>3. \A i \in 1 .. n + k : path[i] = IF i <= n THEN r[i] ELSE m[i - n]
  BY ConcatProperties
<1>4. \A i \in 1 .. n + k : path[i] # <<"sha256">>
  BY <1>2
<1> HIDE DEF path, n, k
<1>5. \A i \in 1 .. k : Len(m[i]) = 1
  BY DEF k
<1>6. \A i \in 1 .. n + k : i > n => Len(path[i]) = 1
  <2>1. ASSUME NEW i \in 1 .. n + k, i > n PROVE Len(path[i]) = 1
    <3>1. i - n \in 1 .. k /\ path[i] = m[i - n]
      BY <1>1, <1>3, <2>1
    <3> QED
      BY <1>5, <3>1
  <2> QED
    BY <2>1
<1>7. Len(Ordered!Last(path)) = 1
  <2>1. n + k \in 1 .. n + k /\ n + k > n
    BY <1>1
  <2>2. Ordered!Last(path) = path[n + k]
    BY <1>2 DEF Ordered!Last
  <2> QED
    BY <1>6, <2>1, <2>2
<1>8. path # <<>>
  <2>1. Len(path) > 0
    BY <1>1, <1>2
  <2> QED
    BY <1>2, <2>1, NotEmpty
<1>9. CASE Ordered!Hosted(path)
  <2>1. name.registry = <<path[1]>> /\ name.image = Tail(path) /\ n + k > 1
    BY <1>2, <1>9 DEF Ordered!Named, Ordered!Hosted
  <2>2. /\ Tail(path) \in Seq(Segments) /\ Len(Tail(path)) = n + k - 1
        /\ \A i \in 1 .. n + k - 1 : Tail(path)[i] = path[i + 1]
    <3>1. /\ Tail(path) \in Seq(Segments) /\ Len(Tail(path)) = Len(path) - 1
          /\ \A i \in 1 .. Len(Tail(path)) : Tail(path)[i] = path[i + 1]
      BY <1>2, <1>8, HeadTailProperties
    <3>2. Len(Tail(path)) = n + k - 1
      BY <1>1, <1>2, <3>1
    <3> QED
      BY <3>1, <3>2
  <2>3. \A i \in 1 .. n + k - 1 : Len(Tail(path)[i]) = 1
    <3>1. ASSUME NEW i \in 1 .. n + k - 1 PROVE Len(Tail(path)[i]) = 1
      <4>1. i + 1 \in 1 .. n + k /\ i + 1 > n
        BY <1>1, <3>1
      <4> QED
        BY <1>6, <2>2, <4>1
    <3> QED
      BY <3>1
  <2>4. Tail(path) # <<>>
    <3>1. Len(Tail(path)) > 0
      BY <1>1, <2>1, <2>2
    <3> QED
      BY <2>2, <3>1, NotEmpty
  <2>5. Tail(path)[1] # <<"sha256">>
    <3>1. 1 \in 1 .. n + k - 1 /\ 2 \in 1 .. n + k
      BY <1>1, <2>1
    <3>2. Tail(path)[1] = path[2]
      BY <2>2, <3>1
    <3> QED
      BY <1>4, <3>1, <3>2
  <2>6. Tail(path) # <<<<"sha256">>>>
    BY <2>5, OnlyFirst
  <2>7. name.registry # <<>>
    BY <2>1
  <2> HIDE DEF name
  <2>8. name.image \in Seq(Segments) /\ Len(name.image) = n + k - 1
        /\ \A i \in 1 .. n + k - 1 : Len(name.image[i]) = 1
    BY <2>1, <2>2, <2>3
  <2> QED
    BY <1>7, <2>1, <2>4, <2>6, <2>7, <2>8 DEF name, path
<1>10. CASE ~Ordered!Hosted(path)
  <2>1. name.image = path
    BY <1>10 DEF Ordered!Named
  <2>2. \A i \in 1 .. n + k : Len(path[i]) = 1
    <3>1. ASSUME NEW i \in 1 .. n + k, ~(i > n) PROVE Len(path[i]) = 1
      <4>1. i = 1 /\ n + k > 1
        BY <1>1, <3>1
      <4>2. ~(Len(path[1]) > 1)
        BY <1>2, <1>10, <4>1 DEF Ordered!Hosted
      <4>3. path[1] \in Seq(Letters) /\ path[1] # <<>>
        BY <1>2, <4>1 DEF Segments
      <4>4. Len(path[1]) = 1
        BY <4>2, <4>3, OneOrMore
      <4> QED
        BY <4>1, <4>4
    <3> QED
      BY <1>6, <3>1
  <2>3. path # <<<<"sha256">>>>
    <3>1. 1 \in 1 .. n + k
      BY <1>1
    <3>2. path[1] # <<"sha256">>
      BY <1>4, <3>1
    <3> QED
      BY <3>2, OnlyFirst
  <2> QED
    BY <1>2, <1>7, <1>8, <1>10, <2>1, <2>2, <2>3 DEF path
<1> QED
  BY <1>9, <1>10

\* What can be read back is read back: the version, and a registry where there is one
\* in nopo.yml.
LEMMA PartsAreRead ==
  ASSUME NEW e, NEW base, e.registry \in Words, e.image \in Words, e.version \in Words,
         e.image # <<>>,
         e.tag = Ordered!stringify(Ordered!Whole(e.registry, e.image, e.version, e.digest)),
         Ordered!ReadsBack(e, base)
  PROVE  /\ Ordered!Valid(e.tag) /\ Ordered!parse(e.tag).version # <<>>
         /\ base.registry = <<>> \/ Ordered!parse(e.tag).registry # <<>>
<1> DEFINE path == e.registry \o e.image
           name == Ordered!Named(path)
           v == e.version[1][1]
           end == Ordered!Last(path) \o <<v>>
           t == e.tag
           got == Ordered!parse(t)
<1>1. path \in Seq(Segments) /\ path # <<>>
  BY ConcatProperties, ConcatEqualIffEmpty DEF Words
<1>2. /\ Len(e.version) = 1 /\ Len(e.version[1]) = 1 /\ Len(e.registry) < 2
      /\ \A i \in DOMAIN path : path[i] # <<"sha256">>
      /\ \A i \in DOMAIN e.image : Len(e.image[i]) = 1
      /\ base.registry = <<>> \/ Ordered!Hosted(path)
  BY DEF Ordered!ReadsBack, Ordered!None
<1>3. /\ name.image \in Seq(Segments) /\ name.image # <<>> /\ name.image # <<<<"sha256">>>>
      /\ \A i \in DOMAIN name.image : Len(name.image[i]) = 1
      /\ Ordered!Hosted(path) => name.registry # <<>>
      /\ Len(Ordered!Last(path)) = 1
  <2>1. DOMAIN path = 1 .. Len(path) /\ DOMAIN e.image = 1 .. Len(e.image)
        /\ e.registry \in Seq(Segments) /\ e.image \in Seq(Segments)
    BY <1>1 DEF Words
  <2>2. /\ name.image \in Seq(Segments) /\ name.image # <<>> /\ name.image # <<<<"sha256">>>>
        /\ \A i \in 1 .. Len(name.image) : Len(name.image[i]) = 1
        /\ Ordered!Hosted(path) => name.registry # <<>>
        /\ Len(Ordered!Last(path)) = 1
    <3>1. /\ \A i \in 1 .. Len(path) : path[i] # <<"sha256">>
          /\ \A i \in 1 .. Len(e.image) : Len(e.image[i]) = 1
          /\ Len(e.registry) < 2
      BY <1>2, <2>1
    <3> QED
      BY <2>1, <3>1, PathIsRead
  <2> HIDE DEF name
  <2>3. DOMAIN name.image = 1 .. Len(name.image)
    BY <2>2
  <2> QED
    BY <2>2, <2>3
<1>4. e.version = <<<<v>>>> /\ v \in Letters
  <2>1. e.version[1] \in Seq(Letters)
    BY <1>2 DEF Words, Segments
  <2>2. e.version[1] = <<v>> /\ v \in Letters
    BY <1>2, <2>1
  <2> QED
    BY <1>2, <2>2 DEF Words
<1> HIDE DEF v, path
<1>5. t = [text |-> Ordered!Join(path, e.version), digest |-> e.digest]
  <2> DEFINE whole == Ordered!Whole(e.registry, e.image, e.version, e.digest)
  <2>1. /\ whole.registry = e.registry /\ whole.image = e.image /\ whole.version = e.version
        /\ whole.digest = e.digest
    BY DEF Ordered!Whole
  <2> HIDE DEF whole
  <2>2. whole.version # <<>>
    BY <1>4, <2>1
  <2>3. t = Ordered!stringify(whole)
    BY DEF whole
  <2> QED
    BY <2>1, <2>2, <2>3 DEF Ordered!stringify, Ordered!None, path
<1>6. /\ Ordered!Front(path) \in Seq(Segments) /\ Ordered!Last(path) \in Segments
      /\ Ordered!Front(path) \o <<Ordered!Last(path)>> = path
  BY <1>1, SeqEnds
<1>7. /\ end \in Segments /\ Len(end) > 1 /\ Ordered!Front(end) = Ordered!Last(path)
      /\ Ordered!Last(end) = v
  <2> DEFINE x == Ordered!Last(path)
  <2>1. x \in Seq(Letters) /\ Len(x) = 1
    BY <1>3, <1>6 DEF Segments
  <2> HIDE DEF x
  <2>2. /\ x \o <<v>> \in Seq(Letters) /\ x \o <<v>> # <<>> /\ Ordered!Front(x \o <<v>>) = x
        /\ Ordered!Last(x \o <<v>>) = v
    BY <1>4, <2>1, EndsOfAppend
  <2>3. Len(x \o <<v>>) = 2
    <3>1. <<v>> \in Seq(Letters) /\ Len(<<v>>) = 1
      BY <1>4
    <3>2. Len(x \o <<v>>) = Len(x) + Len(<<v>>)
      BY <2>1, <3>1, ConcatProperties
    <3> QED
      BY <2>1, <3>1, <3>2
  <2> QED
    BY <2>2, <2>3 DEF Segments, x
<1> HIDE DEF end
<1>8. t.text = Ordered!Front(path) \o <<end>>
  <2>1. Head(e.version) = <<v>> /\ Tail(e.version) = <<>>
    BY <1>4
  <2>2. Ordered!Join(path, e.version) = (Ordered!Front(path) \o <<end>>) \o <<>>
    BY <2>1 DEF Ordered!Join, end
  <2>3. Ordered!Front(path) \o <<end>> \in Seq(Segments)
    BY <1>6, <1>7, EndsOfAppend
  <2> QED
    BY <1>5, <2>2, <2>3, ConcatEmptySeq
<1> HIDE DEF t
<1>9. /\ t.text # <<>> /\ Ordered!Front(t.text) = Ordered!Front(path)
      /\ Ordered!Last(t.text) = end
  BY <1>6, <1>7, <1>8, EndsOfAppend
<1>10. got.version = <<<<v>>>> /\ got.registry = name.registry /\ got.image = name.image
  <2>1. Ordered!Front(t.text) \o <<Ordered!Front(Ordered!Last(t.text))>> = path
    BY <1>6, <1>7, <1>9
  <2>2. t.text # <<>> /\ Len(Ordered!Last(t.text)) > 1 /\ Ordered!Last(Ordered!Last(t.text)) = v
    BY <1>7, <1>9
  <2> QED
    BY <2>1, <2>2 DEF Ordered!parse, Ordered!None
<1> HIDE DEF got, name
<1>11. Ordered!Valid(t)
  BY <1>3, <1>10 DEF Ordered!Valid, Ordered!None, got
<1>12. got.version # <<>>
  BY <1>10
<1>13. base.registry = <<>> \/ got.registry # <<>>
  BY <1>2, <1>3, <1>10
<1> QED
  BY <1>11, <1>12, <1>13 DEF got, t

\* What stands before a name stands before its version.
LEMMA JoinBehind ==
  ASSUME NEW b \in Words, NEW m \in Words, m # <<>>, NEW v \in Words, v # <<>>
  PROVE  Ordered!Join(b \o m, v) = b \o Ordered!Join(m, v)
<1> DEFINE f == Ordered!Front(m)
           x == Ordered!Last(m)
           y == x \o Head(v)
           rest == Tail(v)
<1>1. /\ f \in Seq(Segments) /\ x \in Segments /\ m = f \o <<x>>
      /\ b \in Seq(Segments) /\ rest \in Seq(Segments) /\ Head(v) \in Segments
  BY SeqEnds, HeadTailProperties DEF Words
<1>2. y \in Segments
  <2>1. x \in Seq(Letters) /\ Head(v) \in Seq(Letters) /\ Head(v) # <<>>
    BY <1>1 DEF Segments
  <2> QED
    BY <2>1, ConcatProperties, ConcatEqualIffEmpty DEF Segments
<1> HIDE DEF f, x, y, rest
<1>3. <<x>> \in Seq(Segments) /\ <<y>> \in Seq(Segments) /\ b \o f \in Seq(Segments)
  BY <1>1, <1>2, ConcatProperties
<1>4. b \o m = (b \o f) \o <<x>>
  BY <1>1, <1>3, ConcatAssociative
<1>5. Ordered!Front(b \o m) = b \o f /\ Ordered!Last(b \o m) = x
  <2> DEFINE bf == b \o f
  <2>1. bf \in Seq(Segments)
    BY <1>3
  <2> HIDE DEF bf
  <2>2. Ordered!Front(bf \o <<x>>) = bf /\ Ordered!Last(bf \o <<x>>) = x
    BY <1>1, <2>1, EndsOfAppend
  <2> QED
    BY <1>4, <2>2 DEF bf
<1>6. Ordered!Join(b \o m, v) = ((b \o f) \o <<y>>) \o rest
  BY <1>5 DEF Ordered!Join, y, rest
<1>7. Ordered!Join(m, v) = (f \o <<y>>) \o rest
  BY DEF Ordered!Join, f, x, y, rest
<1>8. (b \o f) \o <<y>> = b \o (f \o <<y>>) /\ f \o <<y>> \in Seq(Segments)
  BY <1>1, <1>3, ConcatAssociative, ConcatProperties
<1>9. (b \o (f \o <<y>>)) \o rest = b \o ((f \o <<y>>) \o rest)
  BY <1>1, <1>8, ConcatAssociative
<1> QED
  BY <1>6, <1>7, <1>8, <1>9

Envs ==
  [tag : Tags, registry : Words, image : Words, version : Words, digest : Words,
   target : Ordered!DockerTargets \cup {""}, node : Ordered!NodeEnvs \cup {""},
   extra : [EnvServices -> Tags]]
\* Nothing is set.
NoEnv ==
  [tag |-> NoName, registry |-> <<>>, image |-> <<>>, version |-> <<>>, digest |-> <<>>,
   target |-> "", node |-> "", extra |-> [s \in EnvServices |-> NoName]]
IsOwn(own) ==
  /\ own.tag \in Tags /\ own.registry \in Words /\ own.image \in Words /\ own.version \in Words
  /\ own.digest \in Words /\ own.base.registry \in Words /\ own.base.image \in Words
  /\ own.base.image # <<>> /\ own.extra \in [EnvServices -> Tags]
\* What nopo did not write has a tag or parts of one.
IsFile(f) == f \in Envs /\ (f.tag = NoName \/ f.version = <<>>)

\* What a process makes of what it sets and what it finds.
Made(e) ==
  /\ e \in Envs /\ e.image # <<>> /\ e.version # <<>>
  /\ e.tag = Ordered!stringify(Ordered!Whole(e.registry, e.image, e.version, e.digest))
  /\ e.version = Ordered!Local \/ (e.target = "production" /\ e.node = "production")
FileIsSound(f) == Made(f) \/ (IsFile(f) /\ f \in EnvFiles \cup {NoEnv})

\* What a process sets wins.
Wins(own, e, built) ==
  /\ IF own.tag # NoName
     THEN Ordered!parse(own.tag).version # <<>> => e.tag =
            IF Ordered!parse(own.tag).registry # <<>> THEN own.tag
            ELSE [text |-> own.base.registry \o own.tag.text, digest |-> own.tag.digest]
     ELSE /\ own.version # <<>> => e.version = own.version
          /\ own.image # <<>> => e.image = own.image
          /\ own.registry # <<>> => e.registry = own.registry
          /\ own.digest # <<>> => e.digest = own.digest
  /\ e.version = Ordered!Local => /\ own.target # "" => e.target = own.target
                                  /\ own.node # "" => e.node = own.node
  /\ \A s \in EnvServices \ built : own.extra[s] # NoName => e.extra[s] = own.extra[s]
Silent(own) ==
  /\ own.tag = NoName /\ own.registry = <<>> /\ own.image = <<>> /\ own.version = <<>>
  /\ own.digest = <<>>
KeepsTag(own, f) == Silent(own) /\ f.tag # NoName /\ Ordered!ReadsBack(f, own.base)

\* What can be read back was made by a process.
LEMMA ReadableIsMade ==
  ASSUME NEW own, NEW prev, FileIsSound(prev), KeepsTag(own, prev)
  PROVE  /\ prev \in Envs /\ Ordered!Valid(prev.tag) /\ Ordered!parse(prev.tag).version # <<>>
         /\ own.base.registry = <<>> \/ Ordered!parse(prev.tag).registry # <<>>
<1>1. prev.version # <<>>
  <2>1. Len(prev.version) = 1
    BY DEF KeepsTag, Ordered!ReadsBack
  <2> QED
    BY <2>1
<1>2. Made(prev)
  BY <1>1 DEF FileIsSound, IsFile, KeepsTag
<1>3. prev.registry \in Words /\ prev.image \in Words /\ prev.version \in Words
  BY <1>2 DEF Made, Envs
<1> QED
  BY <1>2, <1>3, PartsAreRead DEF Made, KeepsTag

\* What a process takes for its image.
LEMMA TagIsResolved ==
  ASSUME NEW own, IsOwn(own), NEW prev, FileIsSound(prev), ~Ordered!Throws(own, prev)
  PROVE  LET r == Ordered!resolveDockerTag(own, prev)
         IN  /\ r \in Parsed /\ r.image # <<>>
             /\ own.tag # NoName => r = Ordered!parse(own.tag)
             /\ own.tag = NoName =>
                  /\ own.version # <<>> => r.version = own.version
                  /\ own.image # <<>> => r.image = own.image
                  /\ own.registry # <<>> => r.registry = own.registry
                  /\ own.digest # <<>> => r.digest = own.digest
                  /\ ~Silent(own) => r.version # <<>>
             /\ Silent(own) /\ prev.tag # NoName => r = Ordered!parse(prev.tag)
<1> DEFINE r == Ordered!resolveDockerTag(own, prev)
           c == Ordered!parse(prev.tag)
<1>1. prev \in Envs
  BY DEF FileIsSound, Made, IsFile
<1>2. /\ own.tag \in Tags /\ prev.tag \in Tags /\ prev.registry \in Words
      /\ prev.image \in Words /\ prev.version \in Words /\ prev.digest \in Words
      /\ own.registry \in Words /\ own.image \in Words /\ own.version \in Words
      /\ own.digest \in Words /\ own.base.registry \in Words /\ own.base.image \in Words
      /\ own.base.image # <<>>
  BY <1>1 DEF IsOwn, Envs
<1>3. c \in Parsed /\ Ordered!parse(own.tag) \in Parsed
  BY <1>2, TagComesBack
<1>4. /\ <<>> \in Words /\ Ordered!Local \in Words /\ Ordered!Local # <<>>
  <2>1. "local" \in Letters
    BY DEF Letters
  <2>2. <<"local">> \in Segments
    BY <2>1 DEF Segments
  <2> QED
    BY <2>2 DEF Words, Ordered!Local
<1>5. /\ own.tag # NoName => Ordered!Valid(own.tag)
      /\ own.tag = NoName /\ prev.tag # NoName => Ordered!Valid(prev.tag)
  BY DEF Ordered!Throws, Ordered!NoTag, Ordered!None, NoName
<1>6. CASE own.tag # NoName
  <2>1. r = Ordered!parse(own.tag)
    BY <1>6 DEF Ordered!resolveDockerTag, Ordered!NoTag, Ordered!None, NoName
  <2>2. r.image # <<>>
    BY <1>5, <1>6, <2>1 DEF Ordered!Valid, Ordered!None
  <2> QED
    BY <1>3, <1>6, <2>1, <2>2 DEF Silent
<1>7. CASE own.tag = NoName /\ ~Silent(own)
  <2>1. Ordered!hasExplicitOverride(own)
    BY <1>7 DEF Silent, Ordered!hasExplicitOverride, Ordered!None
  <2>2. r = [registry |-> IF own.registry = <<>> THEN IF prev.registry = <<>> THEN c.registry
                          ELSE prev.registry ELSE own.registry,
             image |-> IF own.image = <<>> THEN IF prev.image = <<>> THEN
                          IF c.image = <<>> THEN own.base.image ELSE c.image
                       ELSE prev.image ELSE own.image,
             version |-> IF own.version = <<>> THEN IF prev.version = <<>> THEN
                            IF c.version = <<>> THEN Ordered!Local ELSE c.version
                         ELSE prev.version ELSE own.version,
             digest |-> IF own.digest = <<>> THEN IF prev.digest = <<>> THEN c.digest
                        ELSE prev.digest ELSE own.digest]
    BY <1>7, <2>1 DEF Ordered!resolveDockerTag, Ordered!NoTag, Ordered!None, NoName, Ordered!Or,
       Ordered!Whole
  <2>3. /\ c.registry \in Words /\ c.image \in Words /\ c.version \in Words
        /\ c.digest \in Words
    BY <1>3 DEF Parsed
  <2> HIDE DEF r, c
  <2>4. /\ r.registry \in Words /\ r.image \in Words /\ r.version \in Words /\ r.digest \in Words
        /\ r.image # <<>> /\ r.version # <<>>
        /\ own.version # <<>> => r.version = own.version
        /\ own.image # <<>> => r.image = own.image
        /\ own.registry # <<>> => r.registry = own.registry
        /\ own.digest # <<>> => r.digest = own.digest
    BY <1>2, <1>4, <2>2, <2>3
  <2>5. r \in Parsed
    BY <1>2, <1>4, <2>2, <2>3 DEF Parsed
  <2> QED
    BY <1>7, <2>4, <2>5 DEF r
<1>8. CASE Silent(own) /\ prev.tag # NoName
  <2>1. r = c
    BY <1>8 DEF Silent, Ordered!resolveDockerTag, Ordered!hasExplicitOverride, Ordered!NoTag,
       Ordered!None, NoName
  <2>2. r.image # <<>>
    BY <1>5, <1>8, <2>1 DEF Ordered!Valid, Ordered!None, Silent
  <2> QED
    BY <1>3, <1>8, <2>1, <2>2 DEF Silent
<1>9. CASE Silent(own) /\ prev.tag = NoName
  <2>1. r = IF prev.image # <<>> /\ prev.version # <<>>
            THEN [registry |-> prev.registry, image |-> prev.image, version |-> prev.version,
                  digest |-> prev.digest]
            ELSE [registry |-> own.base.registry, image |-> own.base.image,
                  version |-> Ordered!Local, digest |-> <<>>]
    BY <1>9 DEF Silent, Ordered!resolveDockerTag, Ordered!hasExplicitOverride, Ordered!NoTag,
       Ordered!None, NoName, Ordered!Whole
  <2> HIDE DEF r
  <2>2. r \in Parsed /\ r.image # <<>>
    BY <1>2, <1>4, <2>1 DEF Parsed
  <2> QED
    BY <1>9, <2>2 DEF Silent, r
<1> QED
  BY <1>6, <1>7, <1>8, <1>9 DEF Silent

\* Whatever a process sets and finds, the image that it goes on with is whole.
LEMMA EnvIsMade ==
  ASSUME NEW own, IsOwn(own), NEW prev, FileIsSound(prev), ~Ordered!Throws(own, prev)
  PROVE  LET e == Ordered!getCurrEnv(own, prev)
         IN  /\ Made(e) /\ Wins(own, e, {})
             /\ \A s \in EnvServices : own.extra[s] = NoName => e.extra[s] = prev.extra[s]
             /\ KeepsTag(own, prev) => e.tag = prev.tag
<1> DEFINE r == Ordered!resolveDockerTag(own, prev)
           got == Ordered!Completed(r, own.base)
           e == Ordered!getCurrEnv(own, prev)
           target == Ordered!Target(got.version, own.target, prev.target)
           node == Ordered!Target(got.version, own.node, prev.node)
           extra == [s \in EnvServices |->
                       IF own.extra[s] # NoName THEN own.extra[s] ELSE prev.extra[s]]
<1>1. prev \in Envs /\ own.base.registry \in Words /\ own.base.image \in Words
      /\ own.base.image # <<>> /\ own.tag \in Tags
  BY DEF FileIsSound, Made, IsFile, IsOwn
<1>2. /\ r \in Parsed /\ r.image # <<>>
      /\ own.tag # NoName => r = Ordered!parse(own.tag)
      /\ own.tag = NoName =>
           /\ own.version # <<>> => r.version = own.version
           /\ own.image # <<>> => r.image = own.image
           /\ own.registry # <<>> => r.registry = own.registry
           /\ own.digest # <<>> => r.digest = own.digest
           /\ ~Silent(own) => r.version # <<>>
      /\ Silent(own) /\ prev.tag # NoName => r = Ordered!parse(prev.tag)
  BY TagIsResolved
<1>3. e = [tag |-> Ordered!stringify(got), registry |-> got.registry, image |-> got.image,
           version |-> got.version, digest |-> got.digest, target |-> target, node |-> node,
           extra |-> extra]
  BY DEF Ordered!getCurrEnv, Ordered!Environment, Ordered!NoTag, Ordered!None, NoName
<1>4. target \in Ordered!DockerTargets /\ node \in Ordered!NodeEnvs
  <2>1. e.target \in Ordered!DockerTargets /\ e.node \in Ordered!NodeEnvs
    BY DEF Ordered!Throws
  <2> HIDE DEF e, target, node, extra, got
  <2> QED
    BY <1>3, <2>1
<1> HIDE DEF r, e
<1>5. got = [registry |-> IF r.registry = <<>> THEN own.base.registry ELSE r.registry,
             image |-> IF r.version = <<>> THEN own.base.image ELSE r.image,
             version |-> IF r.version = <<>> THEN r.image ELSE r.version,
             digest |-> r.digest]
  BY DEF Ordered!Completed, Ordered!Whole, Ordered!Or, Ordered!None
<1>6. /\ target = IF got.version # Ordered!Local THEN "production"
                  ELSE IF own.target # "" THEN own.target
                  ELSE IF prev.target = "" THEN "development" ELSE prev.target
      /\ node = IF got.version # Ordered!Local THEN "production"
                ELSE IF own.node # "" THEN own.node
                ELSE IF prev.node = "" THEN "development" ELSE prev.node
  BY DEF Ordered!Target
<1> HIDE DEF got, target, node
<1>7. /\ got.registry \in Words /\ got.image \in Words /\ got.version \in Words
      /\ got.digest \in Words /\ got.image # <<>> /\ got.version # <<>>
      /\ got = Ordered!Whole(got.registry, got.image, got.version, got.digest)
  <2>1. r.registry \in Words /\ r.image \in Words /\ r.version \in Words /\ r.digest \in Words
    BY <1>2 DEF Parsed
  <2> QED
    BY <1>1, <1>2, <1>5, <2>1 DEF Ordered!Whole
<1>8. Ordered!stringify(got) \in Tags
  <2>1. got.registry \o got.image \in Words /\ got.registry \o got.image # <<>>
    BY <1>7, ConcatProperties, ConcatEqualIffEmpty DEF Words
  <2>2. Ordered!Join(got.registry \o got.image, got.version) \in Words
    BY <1>7, <2>1, JoinIsWord
  <2>3. Ordered!stringify(got) =
          [text |-> Ordered!Join(got.registry \o got.image, got.version), digest |-> got.digest]
    BY <1>7 DEF Ordered!stringify, Ordered!None
  <2> QED
    BY <1>7, <2>2, <2>3 DEF Tags
<1>9. extra \in [EnvServices -> Tags]
  <2>1. own.extra \in [EnvServices -> Tags] /\ prev.extra \in [EnvServices -> Tags]
    BY <1>1 DEF IsOwn, Envs
  <2> QED
    BY <2>1
<1>10. \A s \in EnvServices :
         extra[s] = IF own.extra[s] # NoName THEN own.extra[s] ELSE prev.extra[s]
  OBVIOUS
<1> HIDE DEF extra
<1>11. /\ e.tag = Ordered!stringify(got) /\ e.registry = got.registry /\ e.image = got.image
       /\ e.version = got.version /\ e.digest = got.digest /\ e.target = target
       /\ e.node = node /\ e.extra = extra
  BY <1>3
<1>12. Made(e)
  <2>1. e \in Envs
    BY <1>3, <1>4, <1>7, <1>8, <1>9 DEF Envs
  <2>2. e.version = Ordered!Local \/ (e.target = "production" /\ e.node = "production")
    BY <1>6, <1>11
  <2> QED
    BY <1>7, <1>11, <2>1, <2>2 DEF Made
<1>13. ASSUME own.tag # NoName, Ordered!parse(own.tag).version # <<>>
       PROVE  e.tag = IF Ordered!parse(own.tag).registry # <<>> THEN own.tag
                      ELSE [text |-> own.base.registry \o own.tag.text, digest |-> own.tag.digest]
  <2>1. Ordered!stringify(r) = own.tag /\ r.version # <<>> /\ r = Ordered!parse(own.tag)
    BY <1>1, <1>2, <1>13, TagComesBack
  <2>2. r = [registry |-> r.registry, image |-> r.image, version |-> r.version,
             digest |-> r.digest]
        /\ r.image \in Words /\ r.version \in Words
    BY <1>2 DEF Parsed
  <2>3. CASE r.registry # <<>>
    <3>1. got = r
      BY <1>5, <2>1, <2>2, <2>3
    <3> QED
      BY <1>11, <2>1, <2>3, <3>1
  <2>4. CASE r.registry = <<>>
    <3>1. /\ got.registry = own.base.registry /\ got.image = r.image
          /\ got.version = r.version /\ got.digest = r.digest
      BY <1>5, <2>1, <2>4
    <3>2. Ordered!stringify(got) =
            [text |-> Ordered!Join(own.base.registry \o r.image, r.version),
             digest |-> r.digest]
      BY <2>1, <3>1 DEF Ordered!stringify, Ordered!None
    <3>3. own.tag = [text |-> Ordered!Join(r.image, r.version), digest |-> r.digest]
      <4>1. <<>> \o r.image = r.image
        BY <2>2, ConcatEmptySeq DEF Words
      <4>2. Ordered!stringify(r) =
              [text |-> Ordered!Join(<<>> \o r.image, r.version), digest |-> r.digest]
        BY <2>1, <2>4 DEF Ordered!stringify, Ordered!None
      <4> QED
        BY <2>1, <4>1, <4>2
    <3>4. Ordered!Join(own.base.registry \o r.image, r.version) =
            own.base.registry \o Ordered!Join(r.image, r.version)
      BY <1>1, <1>2, <2>1, <2>2, JoinBehind
    <3>5. own.tag.text = Ordered!Join(r.image, r.version) /\ own.tag.digest = r.digest
      BY <3>3
    <3> QED
      BY <1>11, <2>1, <2>4, <3>2, <3>4, <3>5
  <2> QED
    BY <2>3, <2>4
<1>14. Wins(own, e, {})
  <2>1. own.tag = NoName =>
          /\ own.version # <<>> => e.version = own.version
          /\ own.image # <<>> => e.image = own.image
          /\ own.registry # <<>> => e.registry = own.registry
          /\ own.digest # <<>> => e.digest = own.digest
    BY <1>2, <1>5, <1>11 DEF Silent
  <2>2. e.version = Ordered!Local => /\ own.target # "" => e.target = own.target
                                     /\ own.node # "" => e.node = own.node
    BY <1>6, <1>11
  <2>3. \A s \in EnvServices \ {} : own.extra[s] # NoName => e.extra[s] = own.extra[s]
    BY <1>10, <1>11
  <2> QED
    BY <1>13, <2>1, <2>2, <2>3 DEF Wins
<1>15. ASSUME KeepsTag(own, prev) PROVE e.tag = prev.tag
  <2>1. /\ r = Ordered!parse(prev.tag) /\ r.version # <<>>
        /\ own.base.registry = <<>> \/ r.registry # <<>>
    BY <1>2, <1>15, ReadableIsMade DEF KeepsTag
  <2>2. r = [registry |-> r.registry, image |-> r.image, version |-> r.version,
             digest |-> r.digest]
    BY <1>2 DEF Parsed
  <2>3. got = r
    BY <1>5, <2>1, <2>2
  <2>4. prev.tag \in Tags
    BY <1>1 DEF Envs
  <2> QED
    BY <1>11, <2>1, <2>3, <2>4, TagComesBack
<1>16. \A s \in EnvServices : own.extra[s] = NoName => e.extra[s] = prev.extra[s]
  BY <1>10, <1>11
<1> QED
  BY <1>12, <1>14, <1>15, <1>16 DEF e

\* A process that sets nothing is refused for a target alone.
Misfit(own) ==
  \/ own.target \notin Ordered!DockerTargets \cup {""} \/ own.node \notin Ordered!NodeEnvs \cup {""}
LEMMA NotRefused ==
  ASSUME NEW own, NEW prev, FileIsSound(prev), KeepsTag(own, prev), Ordered!Throws(own, prev)
  PROVE  Misfit(own)
<1> DEFINE e == Ordered!getCurrEnv(own, prev)
<1>1. Ordered!Valid(prev.tag) /\ prev \in Envs /\ own.tag = NoName
  BY ReadableIsMade DEF KeepsTag, Silent
<1>2. e.target \notin Ordered!DockerTargets \/ e.node \notin Ordered!NodeEnvs
  BY <1>1 DEF Ordered!Throws, Ordered!NoTag, Ordered!None, NoName
<1>3. \E v : /\ e.target = Ordered!Target(v, own.target, prev.target)
             /\ e.node = Ordered!Target(v, own.node, prev.node)
  BY DEF Ordered!getCurrEnv, Ordered!Environment
<1> HIDE DEF e
<1>4. PICK v : /\ e.target = Ordered!Target(v, own.target, prev.target)
               /\ e.node = Ordered!Target(v, own.node, prev.node)
  BY <1>3
<1>5. prev.target \in Ordered!DockerTargets \cup {""} /\ prev.node \in Ordered!NodeEnvs \cup {""}
  BY <1>1 DEF Envs
<1>6. own.target \in Ordered!DockerTargets \cup {""} => e.target \in Ordered!DockerTargets
  BY <1>4, <1>5 DEF Ordered!Target, Ordered!DockerTargets
<1>7. own.node \in Ordered!NodeEnvs \cup {""} => e.node \in Ordered!NodeEnvs
  BY <1>4, <1>5 DEF Ordered!Target, Ordered!NodeEnvs
<1> QED
  BY <1>2, <1>6, <1>7 DEF Misfit

\* What a process makes of what it reads does not depend on who else runs.
LEMMA PureIsOne ==
  ASSUME NEW S, NEW C, NEW K
  PROVE  /\ \A own, prev : EnvOf(S, C, K)!Throws(own, prev) <=> Ordered!Throws(own, prev)
         /\ \A own, prev : EnvOf(S, C, K)!getCurrEnv(own, prev) = Ordered!getCurrEnv(own, prev)
         /\ \A t : EnvOf(S, C, K)!parse(t) = Ordered!parse(t)
         /\ \A w : EnvOf(S, C, K)!stringify(w) = Ordered!stringify(w)
         /\ \A e, base : EnvOf(S, C, K)!ReadsBack(e, base) <=> Ordered!ReadsBack(e, base)
<1>1. ASSUME NEW t, NEW v PROVE EnvOf(S, C, K)!Join(t, v) = Ordered!Join(t, v)
  BY DEF EnvOf!Join, EnvOf!Front, EnvOf!Last, Ordered!Join, Ordered!Front, Ordered!Last
<1>2. ASSUME NEW w PROVE EnvOf(S, C, K)!stringify(w) = Ordered!stringify(w)
  BY <1>1 DEF EnvOf!stringify, EnvOf!None, Ordered!stringify, Ordered!None
<1>3. ASSUME NEW t PROVE EnvOf(S, C, K)!parse(t) = Ordered!parse(t)
  BY Zenon DEF EnvOf!parse, EnvOf!Named, EnvOf!Hosted, EnvOf!Front, EnvOf!Last, EnvOf!None,
     Ordered!parse, Ordered!Named, Ordered!Hosted, Ordered!Front, Ordered!Last, Ordered!None
<1>4. ASSUME NEW t PROVE EnvOf(S, C, K)!Valid(t) <=> Ordered!Valid(t)
  BY <1>3, Zenon DEF EnvOf!Valid, EnvOf!None, Ordered!Valid, Ordered!None
<1>5. ASSUME NEW own, NEW prev
      PROVE  EnvOf(S, C, K)!resolveDockerTag(own, prev) = Ordered!resolveDockerTag(own, prev)
  <2>1. /\ EnvOf(S, C, K)!parse(own.tag) = Ordered!parse(own.tag)
        /\ EnvOf(S, C, K)!parse(prev.tag) = Ordered!parse(prev.tag)
    BY <1>3
  <2> QED
    BY <2>1 DEF EnvOf!resolveDockerTag, EnvOf!hasExplicitOverride, EnvOf!Whole, EnvOf!Or,
       EnvOf!None, EnvOf!NoTag, EnvOf!Local, Ordered!resolveDockerTag,
       Ordered!hasExplicitOverride, Ordered!Whole, Ordered!Or, Ordered!None, Ordered!NoTag,
       Ordered!Local
<1>6. ASSUME NEW w, NEW base PROVE EnvOf(S, C, K)!Completed(w, base) = Ordered!Completed(w, base)
  BY Zenon DEF EnvOf!Completed, EnvOf!Whole, EnvOf!Or, EnvOf!None, Ordered!Completed,
     Ordered!Whole, Ordered!Or, Ordered!None
<1>7. ASSUME NEW t, NEW own, NEW prev
      PROVE  EnvOf(S, C, K)!Environment(t, t, own, prev) = Ordered!Environment(t, t, own, prev)
  BY <1>2, Zenon DEF EnvOf!Environment, EnvOf!Target, EnvOf!Local, EnvOf!NoTag, EnvOf!None,
     Ordered!Environment, Ordered!Target, Ordered!Local, Ordered!NoTag, Ordered!None
<1>8. ASSUME NEW own, NEW prev
      PROVE  EnvOf(S, C, K)!getCurrEnv(own, prev) = Ordered!getCurrEnv(own, prev)
  BY <1>5, <1>6, <1>7, Zenon DEF EnvOf!getCurrEnv, Ordered!getCurrEnv
<1>9. ASSUME NEW own, NEW prev PROVE EnvOf(S, C, K)!Throws(own, prev) <=> Ordered!Throws(own, prev)
  BY <1>4, <1>8, Zenon DEF EnvOf!Throws, EnvOf!NoTag, EnvOf!None, EnvOf!DockerTargets,
     EnvOf!NodeEnvs, Ordered!Throws, Ordered!NoTag, Ordered!None, Ordered!DockerTargets,
     Ordered!NodeEnvs
<1>10. ASSUME NEW e, NEW base PROVE EnvOf(S, C, K)!ReadsBack(e, base) <=> Ordered!ReadsBack(e, base)
  BY Zenon DEF EnvOf!ReadsBack, EnvOf!Hosted, EnvOf!None, Ordered!ReadsBack, Ordered!Hosted,
     Ordered!None
<1> QED
  BY <1>2, <1>3, <1>8, <1>9, <1>10
\* Nor on whether they race.
LEMMA RacingReads ==
         /\ \A own, prev : Racing!Throws(own, prev) <=> Ordered!Throws(own, prev)
         /\ \A own, prev : Racing!getCurrEnv(own, prev) = Ordered!getCurrEnv(own, prev)
         /\ \A t : Racing!parse(t) = Ordered!parse(t)
         /\ \A w : Racing!stringify(w) = Ordered!stringify(w)
         /\ \A e, base : Racing!ReadsBack(e, base) <=> Ordered!ReadsBack(e, base)
<1>1. ASSUME NEW t, NEW v PROVE Racing!Join(t, v) = Ordered!Join(t, v)
  BY DEF Racing!Join, Racing!Front, Racing!Last, Ordered!Join, Ordered!Front, Ordered!Last
<1>2. ASSUME NEW w PROVE Racing!stringify(w) = Ordered!stringify(w)
  BY <1>1 DEF Racing!stringify, Racing!None, Ordered!stringify, Ordered!None
<1>3. ASSUME NEW t PROVE Racing!parse(t) = Ordered!parse(t)
  BY Zenon DEF Racing!parse, Racing!Named, Racing!Hosted, Racing!Front, Racing!Last,
     Racing!None, Ordered!parse, Ordered!Named, Ordered!Hosted, Ordered!Front, Ordered!Last,
     Ordered!None
<1>4. ASSUME NEW t PROVE Racing!Valid(t) <=> Ordered!Valid(t)
  BY <1>3, Zenon DEF Racing!Valid, Racing!None, Ordered!Valid, Ordered!None
<1>5. ASSUME NEW own, NEW prev
      PROVE  Racing!resolveDockerTag(own, prev) = Ordered!resolveDockerTag(own, prev)
  <2>1. /\ Racing!parse(own.tag) = Ordered!parse(own.tag)
        /\ Racing!parse(prev.tag) = Ordered!parse(prev.tag)
    BY <1>3
  <2> QED
    BY <2>1 DEF Racing!resolveDockerTag, Racing!hasExplicitOverride, Racing!Whole, Racing!Or,
       Racing!None, Racing!NoTag, Racing!Local, Ordered!resolveDockerTag,
       Ordered!hasExplicitOverride, Ordered!Whole, Ordered!Or, Ordered!None, Ordered!NoTag,
       Ordered!Local
<1>6. ASSUME NEW w, NEW base PROVE Racing!Completed(w, base) = Ordered!Completed(w, base)
  BY Zenon DEF Racing!Completed, Racing!Whole, Racing!Or, Racing!None, Ordered!Completed,
     Ordered!Whole, Ordered!Or, Ordered!None
<1>7. ASSUME NEW t, NEW own, NEW prev
      PROVE  Racing!Environment(t, t, own, prev) = Ordered!Environment(t, t, own, prev)
  BY <1>2, Zenon DEF Racing!Environment, Racing!Target, Racing!Local, Racing!NoTag, Racing!None,
     Ordered!Environment, Ordered!Target, Ordered!Local, Ordered!NoTag, Ordered!None
<1>8. ASSUME NEW own, NEW prev PROVE Racing!getCurrEnv(own, prev) = Ordered!getCurrEnv(own, prev)
  BY <1>5, <1>6, <1>7, Zenon DEF Racing!getCurrEnv, Ordered!getCurrEnv
<1>9. ASSUME NEW own, NEW prev PROVE Racing!Throws(own, prev) <=> Ordered!Throws(own, prev)
  BY <1>4, <1>8, Zenon DEF Racing!Throws, Racing!NoTag, Racing!None, Racing!DockerTargets,
     Racing!NodeEnvs, Ordered!Throws, Ordered!NoTag, Ordered!None, Ordered!DockerTargets,
     Ordered!NodeEnvs
<1>10. ASSUME NEW e, NEW base PROVE Racing!ReadsBack(e, base) <=> Ordered!ReadsBack(e, base)
  BY Zenon DEF Racing!ReadsBack, Racing!Hosted, Racing!None, Ordered!ReadsBack, Ordered!Hosted,
     Ordered!None
<1> QED
  BY <1>2, <1>3, <1>8, <1>9, <1>10

dotenv == v1
shell == v2
lastBuilt == v4
Going == {"loaded", "saving", "saved", "built"}
Shells(S) ==
  [pc : {"off", "loaded", "saving", "saved", "built", "error"}, env : Envs,
   own : S \cup {NoEnv}, built : SUBSET EnvServices]
NoShell == [pc |-> "off", env |-> NoEnv, own |-> NoEnv, built |-> {}]
\* A process that has read .env goes on with a whole image, in which what it sets wins.
ShellSound(S, x) ==
  /\ x.pc # "off" => x.own \in S
  /\ x.pc \in Going => Made(x.env) /\ Wins(x.own, x.env, x.built)
EnvTypes(S) ==
  /\ FileIsSound(dotenv) /\ lastBuilt \in [EnvServices -> Tags]
  /\ shell \in [EnvProcs -> Shells(S)]
  /\ \A q \in EnvProcs : ShellSound(S, shell[q])
\* Where one process runs at a time.
Saves(x) == x.built \cup {s \in EnvServices : x.own.extra[s] # NoName}
ShellFits(x, f, images) ==
  /\ x.pc \in Going => \A s \in EnvServices \ Saves(x) : x.env.extra[s] = images[s]
  /\ x.pc = "loaded" /\ KeepsTag(x.own, f) => x.env.tag = f.tag
  /\ x.pc = "error" /\ KeepsTag(x.own, f) => Misfit(x.own)
OneAtATime ==
  /\ \A q, t \in EnvProcs : shell[q].pc # "off" /\ shell[t].pc # "off" => q = t
  /\ (\A q \in EnvProcs : shell[q].pc # "saving") => dotenv.extra = lastBuilt
  /\ \A q \in EnvProcs : ShellFits(shell[q], dotenv, lastBuilt)
EnvInv(S, C) == EnvTypes(S) /\ (~C => OneAtATime)
FilesAreSound == \A f \in EnvFiles : IsFile(f)

\* Nothing is an environment.
LEMMA NothingIsSound == IsFile(NoEnv)
<1>1. <<>> \in Words
  BY DEF Words
<1>2. NoName \in Tags
  BY <1>1 DEF NoName, Tags
<1>3. [s \in EnvServices |-> NoName] \in [EnvServices -> Tags]
  BY <1>2
<1> QED
  BY <1>1, <1>2, <1>3 DEF NoEnv, Envs, IsFile

\* At first nopo has written nothing and nobody runs.
LEMMA EnvStart ==
  ASSUME NEW S, NEW C, NEW K, FilesAreSound, EnvOf(S, C, K)!Init PROVE EnvInv(S, C)
<1>1. /\ dotenv \in EnvFiles /\ lastBuilt = dotenv.extra
      /\ shell = [q \in EnvProcs |-> NoShell]
  BY DEF EnvOf!Init, EnvOf!Empty, EnvOf!Off, EnvOf!NoTag, EnvOf!None, NoEnv, NoName, NoShell,
     dotenv, shell, lastBuilt
<1>2. FileIsSound(dotenv) /\ lastBuilt \in [EnvServices -> Tags]
  BY <1>1 DEF FilesAreSound, FileIsSound, IsFile, Envs
<1>3. NoShell \in Shells(S)
  BY NothingIsSound DEF NoShell, Shells, IsFile
<1>4. NoShell.pc = "off"
  BY DEF NoShell
<1>5. \A q \in EnvProcs : shell[q] = NoShell
  BY <1>1
<1>6. shell \in [EnvProcs -> Shells(S)]
  BY <1>1, <1>3
<1>7. EnvTypes(S)
  BY <1>2, <1>4, <1>5, <1>6 DEF EnvTypes, ShellSound, Going
<1>8. OneAtATime
  BY <1>1, <1>4, <1>5 DEF OneAtATime, ShellFits, Going
<1> QED
  BY <1>7, <1>8 DEF EnvInv

\* One process moves; where they take turns the others are off.
LEMMA ShellMoves ==
  ASSUME NEW S, NEW C, EnvInv(S, C), NEW q \in EnvProcs, NEW x \in Shells(S), ShellSound(S, x),
         shell' = [shell EXCEPT ![q] = x], FileIsSound(dotenv'),
         lastBuilt' \in [EnvServices -> Tags],
         ~C => /\ \A t \in EnvProcs \ {q} : shell[t].pc = "off"
               /\ x.pc # "saving" => dotenv'.extra = lastBuilt'
               /\ ShellFits(x, dotenv', lastBuilt')
  PROVE  EnvInv(S, C)'
<1>1. shell \in [EnvProcs -> Shells(S)] /\ \A t \in EnvProcs : ShellSound(S, shell[t])
  BY DEF EnvInv, EnvTypes
<1>2. /\ shell' \in [EnvProcs -> Shells(S)] /\ shell'[q] = x
      /\ \A t \in EnvProcs \ {q} : shell'[t] = shell[t]
  BY <1>1
<1>3. \A t \in EnvProcs : ShellSound(S, shell'[t])
  BY <1>1, <1>2
<1>4. EnvTypes(S)'
  BY <1>2, <1>3
  DEF EnvTypes, FileIsSound, Made, IsFile, Envs, ShellSound, Wins, Shells
<1>5. ASSUME ~C PROVE OneAtATime'
  <2>1. \A t \in EnvProcs \ {q} : shell'[t].pc = "off"
    BY <1>2, <1>5
  <2>2. \A t \in EnvProcs : ShellFits(shell'[t], dotenv', lastBuilt')
    BY <1>2, <1>5, <2>1 DEF ShellFits, Going
  <2>3. (\A t \in EnvProcs : shell'[t].pc # "saving") => dotenv'.extra = lastBuilt'
    BY <1>2, <1>5
  <2>4. \A t, u \in EnvProcs : shell'[t].pc # "off" /\ shell'[u].pc # "off" => t = u
    BY <2>1
  <2> QED
    BY <2>2, <2>3, <2>4 DEF OneAtATime, ShellFits, KeepsTag
<1> QED
  BY <1>4, <1>5 DEF EnvInv

\* A process that starts: what it makes of .env is whole, or it is refused.
LEMMA LoadsAreSound ==
  ASSUME NEW S, \A own \in S : IsOwn(own), NEW C, NEW K, EnvInv(S, C),
         NEW q \in EnvProcs, NEW own \in S, EnvOf(S, C, K)!Load(q, own)
  PROVE  EnvInv(S, C)'
<1> DEFINE e == Ordered!getCurrEnv(own, dotenv)
           refused == [pc |-> "error", env |-> NoEnv, own |-> own, built |-> {}]
           on == [pc |-> "loaded", env |-> e, own |-> own, built |-> {}]
<1>1. /\ dotenv' = dotenv /\ lastBuilt' = lastBuilt
      /\ ~C => \A t \in EnvProcs : shell[t].pc = "off"
      /\ shell' = [shell EXCEPT ![q] = IF Ordered!Throws(own, dotenv) THEN refused ELSE on]
  <2>1. /\ EnvOf(S, C, K)!Throws(own, v1) <=> Ordered!Throws(own, v1)
        /\ EnvOf(S, C, K)!getCurrEnv(own, v1) = Ordered!getCurrEnv(own, v1)
    BY PureIsOne
  <2> QED
    BY <2>1 DEF EnvOf!Load, EnvOf!Alone, EnvOf!Empty, EnvOf!NoTag, EnvOf!None, NoEnv, NoName,
       dotenv, shell, lastBuilt
<1>2. /\ FileIsSound(dotenv) /\ IsOwn(own) /\ lastBuilt \in [EnvServices -> Tags]
      /\ FileIsSound(dotenv') /\ lastBuilt' \in [EnvServices -> Tags]
  BY <1>1 DEF EnvInv, EnvTypes
<1>3. ~C => /\ \A t \in EnvProcs \ {q} : shell[t].pc = "off"
            /\ dotenv.extra = lastBuilt
  BY <1>1 DEF EnvInv, OneAtATime
<1>4. CASE Ordered!Throws(own, dotenv)
  <2>1. refused \in Shells(S) /\ ShellSound(S, refused)
    BY NothingIsSound DEF Shells, IsFile, ShellSound, Going
  <2>2. KeepsTag(own, dotenv) => Misfit(own)
    BY <1>2, <1>4, NotRefused
  <2>3. refused.pc = "error" /\ refused.own = own
    OBVIOUS
  <2> HIDE DEF refused
  <2>4. ShellFits(refused, dotenv', lastBuilt')
    BY <1>1, <2>2, <2>3 DEF ShellFits, Going
  <2>5. shell' = [shell EXCEPT ![q] = refused]
    BY <1>1, <1>4
  <2> QED
    BY <1>1, <1>2, <1>3, <2>1, <2>4, <2>5, ShellMoves
<1>5. CASE ~Ordered!Throws(own, dotenv)
  <2>1. /\ Made(e) /\ Wins(own, e, {})
        /\ \A s \in EnvServices : own.extra[s] = NoName => e.extra[s] = dotenv.extra[s]
        /\ KeepsTag(own, dotenv) => e.tag = dotenv.tag
    BY <1>2, <1>5, EnvIsMade
  <2> HIDE DEF e
  <2>2. on.pc = "loaded" /\ on.own = own /\ on.env = e /\ on.built = {}
    OBVIOUS
  <2>3. on \in Shells(S)
    BY <2>1 DEF Shells, Made
  <2>4. shell' = [shell EXCEPT ![q] = on]
    BY <1>1, <1>5 DEF e
  <2> HIDE DEF on
  <2>5. ShellSound(S, on)
    BY <2>1, <2>2 DEF ShellSound
  <2>6. ~C => ShellFits(on, dotenv', lastBuilt')
    <3>1. ~C => \A s \in EnvServices \ Saves(on) : on.env.extra[s] = lastBuilt'[s]
      BY <1>1, <1>3, <2>1, <2>2 DEF Saves
    <3> QED
      BY <1>1, <2>1, <2>2, <3>1 DEF ShellFits
  <2> QED
    BY <1>1, <1>2, <1>3, <2>2, <2>3, <2>4, <2>5, <2>6, ShellMoves
<1> QED
  BY <1>4, <1>5

\* A process that truncates the file.
LEMMA TruncatesAreSound ==
  ASSUME NEW S, NEW C, NEW K, EnvInv(S, C), NEW q \in EnvProcs, EnvOf(S, C, K)!Truncate(q)
  PROVE  EnvInv(S, C)'
<1> DEFINE x == [pc |-> "saving", env |-> shell[q].env, own |-> shell[q].own,
                 built |-> shell[q].built]
<1>1. /\ shell[q].pc \in {"loaded", "built"} /\ shell' = [shell EXCEPT ![q].pc = "saving"]
      /\ dotenv' = NoEnv /\ lastBuilt' = lastBuilt
  BY DEF EnvOf!Truncate, EnvOf!Set, EnvOf!Empty, EnvOf!NoTag, EnvOf!None, NoEnv, NoName,
     dotenv, shell, lastBuilt
<1>2. /\ shell \in [EnvProcs -> Shells(S)] /\ lastBuilt' \in [EnvServices -> Tags]
      /\ ShellSound(S, shell[q]) /\ shell[q].pc \in Going
  BY <1>1 DEF EnvInv, EnvTypes, Going
<1>3. shell[q] \in Shells(S)
  BY <1>2
<1>4. x \in Shells(S) /\ [shell[q] EXCEPT !.pc = "saving"] = x
  BY <1>3 DEF Shells
<1>5. /\ x.pc = "saving" /\ x.env = shell[q].env /\ x.own = shell[q].own
      /\ x.built = shell[q].built
  OBVIOUS
<1> HIDE DEF x
<1>6. shell' = [shell EXCEPT ![q] = x]
  BY <1>1, <1>2, <1>4
<1>7. ShellSound(S, x)
  BY <1>2, <1>5 DEF ShellSound, Going
<1>8. FileIsSound(dotenv')
  BY <1>1, NothingIsSound DEF FileIsSound
<1>9. ASSUME ~C
      PROVE  /\ \A t \in EnvProcs \ {q} : shell[t].pc = "off"
             /\ ShellFits(x, dotenv', lastBuilt')
  <2>1. ShellFits(shell[q], dotenv, lastBuilt)
    BY <1>9 DEF EnvInv, OneAtATime
  <2>2. ShellFits(x, dotenv', lastBuilt')
    BY <1>1, <1>2, <1>5, <2>1 DEF ShellFits, Saves
  <2>3. \A t \in EnvProcs \ {q} : shell[t].pc = "off"
    BY <1>1, <1>9 DEF EnvInv, OneAtATime
  <2> QED
    BY <2>2, <2>3
<1> QED
  BY <1>2, <1>4, <1>5, <1>6, <1>7, <1>8, <1>9, ShellMoves

\* A process that has written the file.
LEMMA WritesAreSound ==
  ASSUME NEW S, NEW C, NEW K, EnvInv(S, C), NEW q \in EnvProcs, EnvOf(S, C, K)!Write(q)
  PROVE  EnvInv(S, C)'
<1> DEFINE x == [pc |-> "saved", env |-> shell[q].env, own |-> shell[q].own,
                 built |-> shell[q].built]
<1>1. /\ shell[q].pc = "saving" /\ shell' = [shell EXCEPT ![q].pc = "saved"]
      /\ dotenv' = shell[q].env
      /\ lastBuilt' = [s \in EnvServices |-> IF s \in Saves(shell[q]) THEN shell[q].env.extra[s]
                                             ELSE lastBuilt[s]]
  BY DEF EnvOf!Write, EnvOf!Set, EnvOf!Sets, EnvOf!NoTag, EnvOf!None, NoName, Saves,
     dotenv, shell, lastBuilt
<1>2. /\ shell \in [EnvProcs -> Shells(S)] /\ lastBuilt \in [EnvServices -> Tags]
      /\ ShellSound(S, shell[q]) /\ shell[q].pc \in Going
  BY <1>1 DEF EnvInv, EnvTypes, Going
<1>3. shell[q] \in Shells(S) /\ Made(shell[q].env)
  BY <1>2 DEF ShellSound
<1>4. x \in Shells(S) /\ [shell[q] EXCEPT !.pc = "saved"] = x
  BY <1>3 DEF Shells
<1>5. /\ x.pc = "saved" /\ x.env = shell[q].env /\ x.own = shell[q].own
      /\ x.built = shell[q].built
  OBVIOUS
<1> HIDE DEF x
<1>6. shell' = [shell EXCEPT ![q] = x]
  BY <1>1, <1>2, <1>4
<1>7. ShellSound(S, x)
  BY <1>2, <1>5 DEF ShellSound, Going
<1>8. FileIsSound(dotenv')
  BY <1>1, <1>3 DEF FileIsSound
<1>9. shell[q].env.extra \in [EnvServices -> Tags]
  BY <1>3 DEF Made, Envs
<1>10. lastBuilt' \in [EnvServices -> Tags]
  BY <1>1, <1>2, <1>9
<1>11. ASSUME ~C
       PROVE  /\ \A t \in EnvProcs \ {q} : shell[t].pc = "off"
              /\ dotenv'.extra = lastBuilt' /\ ShellFits(x, dotenv', lastBuilt')
  <2>1. \A s \in EnvServices \ Saves(shell[q]) : shell[q].env.extra[s] = lastBuilt[s]
    BY <1>2, <1>11 DEF EnvInv, OneAtATime, ShellFits
  <2>2. \A s \in EnvServices : lastBuilt'[s] = shell[q].env.extra[s]
    BY <1>1, <2>1
  <2>3. lastBuilt' = shell[q].env.extra
    BY <1>9, <1>10, <2>2
  <2>4. ShellFits(x, dotenv', lastBuilt')
    BY <1>5, <2>3 DEF ShellFits
  <2>5. \A t \in EnvProcs \ {q} : shell[t].pc = "off"
    BY <1>1, <1>11 DEF EnvInv, OneAtATime
  <2> QED
    BY <1>1, <2>3, <2>4, <2>5
<1> QED
  BY <1>4, <1>6, <1>7, <1>8, <1>10, <1>11, ShellMoves

\* A process that has built a service.
LEMMA BuildsAreSound ==
  ASSUME NEW S, NEW C, NEW K, EnvInv(S, C), NEW q \in EnvProcs, NEW s \in EnvServices,
         EnvOf(S, C, K)!setExtraEnv(q, s), EnvServices \subseteq Letters
  PROVE  EnvInv(S, C)'
<1> DEFINE env == shell[q].env
           whole == Ordered!Whole(env.registry, env.image \o <<<<s>>>>, env.version, <<>>)
           tag == Ordered!stringify(whole)
           e == [env EXCEPT !.extra = [@ EXCEPT ![s] = tag]]
           x == [pc |-> "built", env |-> e, own |-> shell[q].own, built |-> {s}]
<1>1. /\ shell[q].pc = "saved" /\ shell[q].built = {} /\ dotenv' = dotenv
      /\ lastBuilt' = lastBuilt
      /\ shell' = [shell EXCEPT ![q].pc = "built", ![q].built = {s}, ![q].env.extra[s] = tag]
  <2>1. EnvOf(S, C, K)!BuildTag(q, s) = tag
    BY PureIsOne DEF EnvOf!BuildTag, EnvOf!Whole, EnvOf!None, Ordered!Whole, shell
  <2> HIDE DEF tag
  <2> QED
    BY <2>1, ZenonT(60) DEF EnvOf!setExtraEnv, dotenv, shell, lastBuilt
<1>2. /\ shell \in [EnvProcs -> Shells(S)] /\ lastBuilt \in [EnvServices -> Tags]
      /\ ShellSound(S, shell[q]) /\ shell[q].pc \in Going /\ FileIsSound(dotenv)
  BY <1>1 DEF EnvInv, EnvTypes, Going
<1>3. shell[q] \in Shells(S) /\ Made(env) /\ Wins(shell[q].own, env, {}) /\ shell[q].own \in S
  BY <1>1, <1>2 DEF ShellSound
<1>4. tag \in Tags
  <2>1. /\ env.registry \in Words /\ env.image \in Words /\ env.version \in Words
        /\ env.version # <<>> /\ <<<<s>>>> \in Words /\ <<<<s>>>> # <<>>
    <3>1. s \in Letters
      OBVIOUS
    <3>2. <<s>> \in Segments
      BY <3>1 DEF Segments
    <3>3. <<<<s>>>> \in Words /\ <<<<s>>>> # <<>>
      BY <3>2 DEF Words
    <3>4. /\ env.registry \in Words /\ env.image \in Words /\ env.version \in Words
          /\ env.version # <<>>
      BY <1>3 DEF Made, Envs
    <3> QED
      BY <3>3, <3>4
  <2> DEFINE path == env.registry \o (env.image \o <<<<s>>>>)
  <2>2. path \in Words /\ path # <<>>
    BY <2>1, ConcatProperties, ConcatEqualIffEmpty DEF Words
  <2>3. Ordered!Join(path, env.version) \in Words /\ <<>> \in Words
    <3> HIDE DEF path
    <3>1. Ordered!Join(path, env.version) \in Words
      BY <2>1, <2>2, JoinIsWord
    <3> QED
      BY <3>1 DEF Words
  <2>4. tag = [text |-> Ordered!Join(path, env.version), digest |-> <<>>]
    BY <2>1 DEF Ordered!stringify, Ordered!Whole, Ordered!None
  <2> QED
    BY <2>3, <2>4 DEF Tags
<1> HIDE DEF tag
<1>5. /\ e \in Envs /\ e.tag = env.tag /\ e.registry = env.registry /\ e.image = env.image
      /\ e.version = env.version /\ e.digest = env.digest /\ e.target = env.target
      /\ e.node = env.node /\ \A t \in EnvServices \ {s} : e.extra[t] = env.extra[t]
  <2>1. env \in Envs
    BY <1>3 DEF Made
  <2> QED
    BY <1>4, <2>1 DEF Envs
<1>6. [[[shell[q] EXCEPT !.pc = "built"] EXCEPT !.built = {s}] EXCEPT !.env.extra[s] = tag] = x
  <2> DEFINE w == [[shell[q] EXCEPT !.pc = "built"] EXCEPT !.built = {s}]
  <2>1. w = [pc |-> "built", env |-> env, own |-> shell[q].own, built |-> {s}]
    <3>1. w \in Shells(S) /\ w.pc = "built" /\ w.env = env /\ w.own = shell[q].own /\ w.built = {s}
      BY <1>3 DEF Shells
    <3> HIDE DEF w
    <3>2. w = [pc |-> w.pc, env |-> w.env, own |-> w.own, built |-> w.built]
      BY <3>1 DEF Shells
    <3> QED
      BY <3>1, <3>2
  <2> HIDE DEF w, e
  <2>2. w.env = env /\ [w EXCEPT !.env = e] = x
    BY <2>1
  <2>3. [w.env EXCEPT !.extra = [w.env.extra EXCEPT ![s] = tag]] = e
    BY <2>2 DEF e
  <2>4. [w EXCEPT !.env.extra[s] = tag] = x
    BY <2>2, <2>3
  <2> QED
    BY <2>4 DEF w
<1> HIDE DEF e
<1>7. x \in Shells(S)
  BY <1>3, <1>5 DEF Shells
<1>8. x.pc = "built" /\ x.env = e /\ x.own = shell[q].own /\ x.built = {s}
  OBVIOUS
<1> HIDE DEF x
<1>9. shell' = [shell EXCEPT ![q] = x]
  BY <1>1, <1>2, <1>6
<1>10. Made(e) /\ Wins(x.own, e, {s})
  <2>1. Made(e)
    BY <1>3, <1>5 DEF Made
  <2>2. Wins(shell[q].own, e, {s})
    BY <1>3, <1>5 DEF Wins
  <2> QED
    BY <1>8, <2>1, <2>2
<1>11. ShellSound(S, x)
  BY <1>3, <1>8, <1>10 DEF ShellSound
<1>12. ASSUME ~C
       PROVE  /\ \A t \in EnvProcs \ {q} : shell[t].pc = "off"
              /\ dotenv'.extra = lastBuilt' /\ ShellFits(x, dotenv', lastBuilt')
  <2>1. \A t \in EnvProcs \ {q} : shell[t].pc = "off"
    BY <1>1, <1>12 DEF EnvInv, OneAtATime
  <2>2. dotenv.extra = lastBuilt
    BY <1>1, <1>12, <2>1 DEF EnvInv, OneAtATime
  <2>3. \A t \in EnvServices \ Saves(shell[q]) : env.extra[t] = lastBuilt[t]
    BY <1>2, <1>12 DEF EnvInv, OneAtATime, ShellFits
  <2>4. \A t \in EnvServices \ Saves(x) : x.env.extra[t] = lastBuilt'[t]
    BY <1>1, <1>5, <1>8, <2>3 DEF Saves
  <2>5. ShellFits(x, dotenv', lastBuilt')
    BY <1>8, <2>4 DEF ShellFits
  <2> QED
    BY <1>1, <2>1, <2>2, <2>5
<1> QED
  BY <1>1, <1>2, <1>7, <1>9, <1>11, <1>12, ShellMoves

\* A process that ends or is killed.
LEMMA EndsAreSound ==
  ASSUME NEW S, NEW C, NEW K, EnvInv(S, C), NEW q \in EnvProcs,
         EnvOf(S, C, K)!End(q) \/ EnvOf(S, C, K)!Kill(q), C \/ ~K
  PROVE  EnvInv(S, C)'
<1>1. /\ shell' = [shell EXCEPT ![q] = NoShell] /\ dotenv' = dotenv /\ lastBuilt' = lastBuilt
      /\ ~C => shell[q].pc \in {"saved", "error"}
  BY DEF EnvOf!End, EnvOf!Kill, EnvOf!Off, EnvOf!Empty, EnvOf!NoTag, EnvOf!None, NoShell, NoEnv,
     NoName, dotenv, shell, lastBuilt
<1>2. FileIsSound(dotenv') /\ lastBuilt' \in [EnvServices -> Tags]
  BY <1>1 DEF EnvInv, EnvTypes
<1>3. NoShell \in Shells(S) /\ NoShell.pc = "off"
  BY NothingIsSound DEF NoShell, Shells, IsFile
<1>4. ShellSound(S, NoShell) /\ ShellFits(NoShell, dotenv', lastBuilt')
  BY <1>3 DEF ShellSound, ShellFits, Going
<1>5. ASSUME ~C
      PROVE  /\ \A t \in EnvProcs \ {q} : shell[t].pc = "off"
             /\ dotenv'.extra = lastBuilt'
  <2>1. \A t \in EnvProcs \ {q} : shell[t].pc = "off"
    BY <1>1, <1>5 DEF EnvInv, OneAtATime
  <2> QED
    BY <1>1, <1>5, <2>1 DEF EnvInv, OneAtATime
<1> QED
  BY <1>1, <1>2, <1>3, <1>4, <1>5, ShellMoves

\* A step of a process keeps what is known of them all.
LEMMA EnvSteps ==
  ASSUME NEW S, \A own \in S : IsOwn(own), NEW C, NEW K, C \/ ~K, EnvServices \subseteq Letters,
         EnvInv(S, C), EnvOf(S, C, K)!Next
  PROVE  EnvInv(S, C)'
<1>1. PICK q \in EnvProcs :
        \/ \E own \in S : EnvOf(S, C, K)!Load(q, own)
        \/ EnvOf(S, C, K)!Truncate(q) \/ EnvOf(S, C, K)!Write(q)
        \/ \E s \in EnvServices : EnvOf(S, C, K)!setExtraEnv(q, s)
        \/ EnvOf(S, C, K)!End(q) \/ EnvOf(S, C, K)!Kill(q)
  BY DEF EnvOf!Next
<1>2. CASE \E own \in S : EnvOf(S, C, K)!Load(q, own)
  BY <1>2, LoadsAreSound
<1>3. CASE EnvOf(S, C, K)!Truncate(q)
  BY <1>3, TruncatesAreSound
<1>4. CASE EnvOf(S, C, K)!Write(q)
  BY <1>4, WritesAreSound
<1>5. CASE \E s \in EnvServices : EnvOf(S, C, K)!setExtraEnv(q, s)
  BY <1>5, BuildsAreSound
<1>6. CASE EnvOf(S, C, K)!End(q) \/ EnvOf(S, C, K)!Kill(q)
  BY <1>6, EndsAreSound
<1> QED
  BY <1>1, <1>2, <1>3, <1>4, <1>5, <1>6

\* Nor does a step of another part change it.
LEMMA EnvStays ==
  ASSUME NEW S, NEW C, EnvInv(S, C), dotenv' = dotenv, shell' = shell, lastBuilt' = lastBuilt
  PROVE  EnvInv(S, C)'
<1>1. EnvTypes(S)'
  <2>1. /\ FileIsSound(dotenv') /\ lastBuilt' \in [EnvServices -> Tags]
        /\ shell' \in [EnvProcs -> Shells(S)]
        /\ \A q \in EnvProcs : ShellSound(S, shell'[q])
    BY DEF EnvInv, EnvTypes
  <2> QED
    BY <2>1 DEF EnvTypes, FileIsSound, Made, IsFile, Envs, ShellSound, Wins, Shells
<1>2. ASSUME ~C PROVE OneAtATime'
  BY <1>2 DEF EnvInv, OneAtATime, ShellFits, KeepsTag
<1> QED
  BY <1>1, <1>2 DEF EnvInv

\* What is known of the processes is what is claimed of .env.
LEMMA EnvReports ==
  ASSUME NEW S, NEW C, EnvInv(S, C)
  PROVE  /\ Ordered!TypeOK /\ Ordered!PartsMakeTheTag /\ Ordered!OverridesWin
         /\ Ordered!OnlyLocalIsDevelopment
         /\ ~C => Ordered!TagIsKept /\ Ordered!ImagesPreserved
<1>1. FileIsSound(dotenv) /\ dotenv \in Envs
  BY NothingIsSound DEF EnvInv, EnvTypes, FileIsSound, Made, IsFile
<1>2. \A q \in EnvProcs : shell[q] \in Shells(S) /\ ShellSound(S, shell[q])
  BY DEF EnvInv, EnvTypes
<1>3. Ordered!TypeOK
  <2>1. \A q \in EnvProcs : shell[q].pc \in {"off", "loaded", "saving", "saved", "built", "error"}
    BY <1>2 DEF Shells
  <2>2. /\ DOMAIN dotenv.extra = EnvServices
        /\ dotenv.target \in Ordered!DockerTargets \cup {""}
        /\ dotenv.node \in Ordered!NodeEnvs \cup {""}
    BY <1>1 DEF Envs
  <2> QED
    BY <2>1, <2>2 DEF Ordered!TypeOK, dotenv, shell
<1>4. ASSUME Made(dotenv) PROVE Ordered!PartsMakeTheTag /\ Ordered!OnlyLocalIsDevelopment
  BY <1>4 DEF Made, Ordered!PartsMakeTheTag, Ordered!OnlyLocalIsDevelopment, dotenv
<1>5. ASSUME dotenv \in EnvFiles \cup {NoEnv}
      PROVE  Ordered!PartsMakeTheTag /\ Ordered!OnlyLocalIsDevelopment
  <2>1. /\ NoEnv.tag = NoName /\ NoEnv.target = "" /\ NoEnv.node = ""
    BY DEF NoEnv
  <2> QED
    BY <1>5, <2>1 DEF Ordered!PartsMakeTheTag, Ordered!OnlyLocalIsDevelopment, Ordered!NoTag,
       Ordered!None, NoName, dotenv
<1>6. Ordered!PartsMakeTheTag /\ Ordered!OnlyLocalIsDevelopment
  <2>1. Made(dotenv) \/ dotenv \in EnvFiles \cup {NoEnv}
    BY <1>1 DEF FileIsSound
  <2> QED
    BY <1>4, <1>5, <2>1
<1>7. Ordered!OverridesWin
  <2>1. \A q \in EnvProcs : shell[q].pc \in {"loaded", "saved"} =>
          Wins(shell[q].own, shell[q].env, shell[q].built)
    BY <1>2 DEF ShellSound, Going
  <2>2. ASSUME NEW q \in EnvProcs, shell[q].pc \in {"loaded", "saved"}
        PROVE  LET own == shell[q].own
                   env == shell[q].env
                   asked == Ordered!parse(own.tag)
               IN  /\ IF own.tag # NoName
                      THEN asked.version # <<>> => env.tag =
                             IF asked.registry # <<>> THEN own.tag
                             ELSE [text |-> own.base.registry \o own.tag.text,
                                   digest |-> own.tag.digest]
                      ELSE /\ own.version # <<>> => env.version = own.version
                           /\ own.image # <<>> => env.image = own.image
                           /\ own.registry # <<>> => env.registry = own.registry
                           /\ own.digest # <<>> => env.digest = own.digest
                   /\ env.version = Ordered!Local =>
                        /\ own.target # "" => env.target = own.target
                        /\ own.node # "" => env.node = own.node
                   /\ \A s \in EnvServices \ shell[q].built :
                        own.extra[s] # NoName => env.extra[s] = own.extra[s]
    <3>1. Wins(shell[q].own, shell[q].env, shell[q].built)
      BY <2>1, <2>2
    <3> QED
      BY <3>1 DEF Wins
  <2> QED
    BY <2>2, Zenon DEF Ordered!OverridesWin, Ordered!NoTag, Ordered!None, NoName, shell
<1>8. ASSUME ~C PROVE Ordered!TagIsKept /\ Ordered!ImagesPreserved
  <2>1. ASSUME NEW q \in EnvProcs, KeepsTag(shell[q].own, dotenv)
        PROVE  /\ shell[q].pc = "loaded" => shell[q].env.tag = dotenv.tag
               /\ shell[q].pc = "error" => Misfit(shell[q].own)
    BY <1>8, <2>1 DEF EnvInv, OneAtATime, ShellFits
  <2>2. Ordered!TagIsKept
    BY <2>1 DEF KeepsTag, Silent, Misfit, Ordered!TagIsKept, Ordered!hasExplicitOverride,
       Ordered!NoTag, Ordered!None, NoName, dotenv, shell
  <2>3. Ordered!ImagesPreserved
    BY <1>8 DEF EnvInv, OneAtATime, Ordered!ImagesPreserved, Ordered!Saving, dotenv, shell,
       lastBuilt
  <2> QED
    BY <2>2, <2>3
<1> QED
  BY <1>3, <1>6, <1>7, <1>8

\* The same of those that race.
LEMMA RacingReports ==
  ASSUME NEW S, NEW C, EnvInv(S, C)
  PROVE  /\ Racing!TypeOK /\ Racing!PartsMakeTheTag /\ Racing!OverridesWin
         /\ Racing!OnlyLocalIsDevelopment
<1>1. Racing!TypeOK
  BY EnvReports DEF Ordered!TypeOK, Ordered!DockerTargets, Ordered!NodeEnvs, Racing!TypeOK,
     Racing!DockerTargets, Racing!NodeEnvs
<1>2. Racing!PartsMakeTheTag
  <2>1. \A w : Racing!stringify(w) = Ordered!stringify(w)
    BY RacingReads
  <2> QED
    BY <2>1, EnvReports DEF Ordered!PartsMakeTheTag, Ordered!Whole, Ordered!NoTag, Ordered!None,
       Racing!PartsMakeTheTag, Racing!Whole, Racing!NoTag, Racing!None
<1>3. Racing!OverridesWin
  <2>1. \A t : Racing!parse(t) = Ordered!parse(t)
    BY RacingReads
  <2> QED
    BY <2>1, EnvReports DEF Ordered!OverridesWin, Ordered!NoTag, Ordered!None, Ordered!Local,
       Racing!OverridesWin, Racing!NoTag, Racing!None, Racing!Local
<1>4. Racing!OnlyLocalIsDevelopment
  BY EnvReports DEF Ordered!OnlyLocalIsDevelopment, Ordered!Local, Racing!OnlyLocalIsDevelopment,
     Racing!Local
<1> QED
  BY <1>1, <1>2, <1>3, <1>4

\* The processes one after the other are such processes.
LEMMA OrderedIsOne ==
  /\ Ordered!Init => EnvOf(EnvSettings, FALSE, FALSE)!Init
  /\ Ordered!Next => EnvOf(EnvSettings, FALSE, FALSE)!Next
<1>1. Ordered!Init => EnvOf(EnvSettings, FALSE, FALSE)!Init
  BY DEF Ordered!Init, Ordered!Empty, Ordered!Off, Ordered!None, Ordered!NoTag, EnvOf!Init,
     EnvOf!Empty, EnvOf!Off, EnvOf!None, EnvOf!NoTag
<1>2. ASSUME NEW q, NEW own, Ordered!Load(q, own)
      PROVE  EnvOf(EnvSettings, FALSE, FALSE)!Load(q, own)
  <2>1. /\ Ordered!Throws(own, v1) <=> EnvOf(EnvSettings, FALSE, FALSE)!Throws(own, v1)
        /\ Ordered!getCurrEnv(own, v1) = EnvOf(EnvSettings, FALSE, FALSE)!getCurrEnv(own, v1)
    <3> DEFINE S == EnvSettings
               C == FALSE
    <3>1. /\ EnvOf(S, C, C)!Throws(own, v1) <=> Ordered!Throws(own, v1)
          /\ EnvOf(S, C, C)!getCurrEnv(own, v1) = Ordered!getCurrEnv(own, v1)
      <4> HIDE DEF S, C
      <4> QED
        BY PureIsOne
    <3> QED
      BY <3>1
  <2> QED
    BY <1>2, <2>1, Zenon DEF Ordered!Load, Ordered!Alone, Ordered!Empty, Ordered!None,
       Ordered!NoTag, EnvOf!Load, EnvOf!Alone, EnvOf!Empty, EnvOf!None, EnvOf!NoTag
<1>3. ASSUME NEW q, NEW s, Ordered!setExtraEnv(q, s)
      PROVE  EnvOf(EnvSettings, FALSE, FALSE)!setExtraEnv(q, s)
  <2>1. Ordered!BuildTag(q, s) = EnvOf(EnvSettings, FALSE, FALSE)!BuildTag(q, s)
    <3>1. ASSUME NEW w PROVE Ordered!stringify(w) = EnvOf(EnvSettings, FALSE, FALSE)!stringify(w)
      BY PureIsOne
    <3> QED
      BY <3>1 DEF Ordered!BuildTag, Ordered!Whole, Ordered!None, EnvOf!BuildTag,
         EnvOf!Whole, EnvOf!None
  <2> QED
    BY <1>3, <2>1, Zenon DEF Ordered!setExtraEnv, EnvOf!setExtraEnv
<1>4. ASSUME NEW q, Ordered!Truncate(q) PROVE EnvOf(EnvSettings, FALSE, FALSE)!Truncate(q)
  BY <1>4, Zenon DEF Ordered!Truncate, Ordered!Set, Ordered!Empty, Ordered!None,
     Ordered!NoTag, EnvOf!Truncate, EnvOf!Set, EnvOf!Empty, EnvOf!None, EnvOf!NoTag
<1>5. ASSUME NEW q, Ordered!Write(q) PROVE EnvOf(EnvSettings, FALSE, FALSE)!Write(q)
  BY <1>5, Zenon DEF Ordered!Write, Ordered!Set, Ordered!Sets, Ordered!None, Ordered!NoTag,
     EnvOf!Write, EnvOf!Set, EnvOf!Sets, EnvOf!None, EnvOf!NoTag
<1>6. ASSUME NEW q, Ordered!End(q) \/ Ordered!Kill(q)
      PROVE  EnvOf(EnvSettings, FALSE, FALSE)!End(q) \/ EnvOf(EnvSettings, FALSE, FALSE)!Kill(q)
  BY <1>6, Zenon DEF Ordered!End, Ordered!Kill, Ordered!Off, Ordered!Empty, Ordered!None,
     Ordered!NoTag, EnvOf!End, EnvOf!Kill, EnvOf!Off, EnvOf!Empty, EnvOf!None, EnvOf!NoTag
<1>7. Ordered!Next => EnvOf(EnvSettings, FALSE, FALSE)!Next
  BY <1>2, <1>3, <1>4, <1>5, <1>6 DEF Ordered!Next, EnvOf!Next
<1> QED
  BY <1>1, <1>7

\* So are those that race.
LEMMA RacingIsOne ==
  /\ Racing!Init => EnvOf(RacingSettings, TRUE, TRUE)!Init
  /\ Racing!Next => EnvOf(RacingSettings, TRUE, TRUE)!Next
<1>1. Racing!Init => EnvOf(RacingSettings, TRUE, TRUE)!Init
  BY DEF Racing!Init, Racing!Empty, Racing!Off, Racing!None, Racing!NoTag, EnvOf!Init,
     EnvOf!Empty, EnvOf!Off, EnvOf!None, EnvOf!NoTag
<1>2. ASSUME NEW q, NEW own, Racing!Load(q, own)
      PROVE  EnvOf(RacingSettings, TRUE, TRUE)!Load(q, own)
  <2>1. /\ Racing!Throws(own, v1) <=> EnvOf(RacingSettings, TRUE, TRUE)!Throws(own, v1)
        /\ Racing!getCurrEnv(own, v1) = EnvOf(RacingSettings, TRUE, TRUE)!getCurrEnv(own, v1)
    <3> DEFINE S == RacingSettings
               C == TRUE
    <3>1. /\ EnvOf(S, C, C)!Throws(own, v1) <=> Ordered!Throws(own, v1)
          /\ EnvOf(S, C, C)!getCurrEnv(own, v1) = Ordered!getCurrEnv(own, v1)
      <4> HIDE DEF S, C
      <4> QED
        BY PureIsOne
    <3> QED
      BY <3>1, RacingReads
  <2> QED
    BY <1>2, <2>1, Zenon DEF Racing!Load, Racing!Alone, Racing!Empty, Racing!None,
       Racing!NoTag, EnvOf!Load, EnvOf!Alone, EnvOf!Empty, EnvOf!None, EnvOf!NoTag
<1>3. ASSUME NEW q, NEW s, Racing!setExtraEnv(q, s)
      PROVE  EnvOf(RacingSettings, TRUE, TRUE)!setExtraEnv(q, s)
  <2>1. Racing!BuildTag(q, s) = EnvOf(RacingSettings, TRUE, TRUE)!BuildTag(q, s)
    <3>1. ASSUME NEW w PROVE Racing!stringify(w) = EnvOf(RacingSettings, TRUE, TRUE)!stringify(w)
      BY PureIsOne, RacingReads
    <3> QED
      BY <3>1 DEF Racing!BuildTag, Racing!Whole, Racing!None, EnvOf!BuildTag, EnvOf!Whole,
         EnvOf!None
  <2> QED
    BY <1>3, <2>1, Zenon DEF Racing!setExtraEnv, EnvOf!setExtraEnv
<1>4. ASSUME NEW q, Racing!Truncate(q) PROVE EnvOf(RacingSettings, TRUE, TRUE)!Truncate(q)
  BY <1>4, Zenon DEF Racing!Truncate, Racing!Set, Racing!Empty, Racing!None, Racing!NoTag,
     EnvOf!Truncate, EnvOf!Set, EnvOf!Empty, EnvOf!None, EnvOf!NoTag
<1>5. ASSUME NEW q, Racing!Write(q) PROVE EnvOf(RacingSettings, TRUE, TRUE)!Write(q)
  BY <1>5, Zenon DEF Racing!Write, Racing!Set, Racing!Sets, Racing!None, Racing!NoTag,
     EnvOf!Write, EnvOf!Set, EnvOf!Sets, EnvOf!None, EnvOf!NoTag
<1>6. ASSUME NEW q, Racing!End(q) \/ Racing!Kill(q)
      PROVE  EnvOf(RacingSettings, TRUE, TRUE)!End(q) \/ EnvOf(RacingSettings, TRUE, TRUE)!Kill(q)
  BY <1>6, Zenon DEF Racing!End, Racing!Kill, Racing!Off, Racing!Empty, Racing!None,
     Racing!NoTag, EnvOf!End, EnvOf!Kill, EnvOf!Off, EnvOf!Empty, EnvOf!None, EnvOf!NoTag
<1>7. Racing!Next => EnvOf(RacingSettings, TRUE, TRUE)!Next
  BY <1>2, <1>3, <1>4, <1>5, <1>6 DEF Racing!Next, EnvOf!Next
<1> QED
  BY <1>1, <1>7

\* What a process may set of its own is what a process can, and the files are files.
LEMMA SettingsAreSound ==
  /\ \A own \in EnvSettings \cup RacingSettings : IsOwn(own)
  /\ FilesAreSound /\ EnvServices \subseteq Letters
<1>1. STRING \subseteq Letters
  BY DEF Letters
<1>2. Seq(Seq(STRING) \ {<<>>}) \subseteq Words
  <2>1. Seq(STRING) \subseteq Seq(Letters)
    BY <1>1, SeqMonotonic
  <2>2. Seq(STRING) \ {<<>>} \subseteq Segments
    BY <2>1 DEF Segments
  <2> QED
    BY <2>2, SeqMonotonic DEF Words
<1> DEFINE W == Seq(Seq(STRING) \ {<<>>})
           T == [text : W, digest : W]
<1>3. T \subseteq Tags
  BY <1>2 DEF Tags
<1>4. [EnvServices -> T] \subseteq [EnvServices -> Tags]
  BY <1>3
<1>5. ASSUME NEW own \in EnvSettings \cup RacingSettings PROVE IsOwn(own)
  <2>1. /\ own.tag \in T /\ own.extra \in [EnvServices -> T]
        /\ {own.registry, own.image, own.version, own.digest} \subseteq W
        /\ {own.base.registry, own.base.image} \subseteq W /\ own.base.image # <<>>
    BY CacheAssumptions DEF Ordered!EnvAssumption, Racing!EnvAssumption, Ordered!Tag, Racing!Tag,
       Ordered!Word, Racing!Word, Ordered!None, Racing!None
  <2> HIDE DEF W, T
  <2> QED
    BY <1>2, <1>3, <1>4, <2>1 DEF IsOwn, W
<1>6. ASSUME NEW f \in EnvFiles PROVE IsFile(f)
  <2>1. f \in [tag : T, registry : W, image : W, version : W, digest : W,
               target : Ordered!DockerTargets \cup {""}, node : Ordered!NodeEnvs \cup {""},
               extra : [EnvServices -> T]]
        /\ (f.tag = NoName \/ f.version = <<>>)
    BY CacheAssumptions DEF Ordered!EnvAssumption, Ordered!Tag, Ordered!Word, Ordered!None,
       Ordered!NoTag, NoName
  <2> HIDE DEF W, T
  <2> QED
    BY <1>2, <1>3, <1>4, <2>1 DEF IsFile, Envs, W
<1>7. EnvServices \subseteq Letters
  BY <1>1, CacheAssumptions DEF Ordered!EnvAssumption
<1> QED
  BY <1>5, <1>6, <1>7 DEF FilesAreSound

\* While .env is written, what is known of its processes holds.
LEMMA EnvAlways ==
  Spec => [](/\ part = "env" => EnvInv(EnvSettings, FALSE)
             /\ part = "race" => EnvInv(RacingSettings, TRUE))
<1> DEFINE Inv == /\ part = "env" => EnvInv(EnvSettings, FALSE)
                  /\ part = "race" => EnvInv(RacingSettings, TRUE)
<1>1. Init => Inv
  BY SettingsAreSound, EnvStart, OrderedIsOne, RacingIsOne DEF Init
<1>2. Inv /\ [Next]_vars => Inv'
  <2>1. CASE UNCHANGED vars
    BY <2>1, EnvStays DEF vars, dotenv, shell, lastBuilt
  <2>2. ASSUME Inv, Next, part = "env" PROVE EnvInv(EnvSettings, FALSE)'
    <3>1. EnvOf(EnvSettings, FALSE, FALSE)!Next
      BY <2>2, OrderedIsOne DEF Next
    <3> QED
      BY <2>2, <3>1, SettingsAreSound, EnvSteps
  <2>3. ASSUME Inv, Next, part = "race" PROVE EnvInv(RacingSettings, TRUE)'
    <3>1. EnvOf(RacingSettings, TRUE, TRUE)!Next
      BY <2>3, RacingIsOne DEF Next
    <3> QED
      BY <2>3, <3>1, SettingsAreSound, EnvSteps
  <2>4. Next => part' = part
    BY DEF Next
  <2> QED
    BY <2>1, <2>2, <2>3, <2>4
<1> QED
  BY <1>1, <1>2, PTL DEF Spec

\* Of every process' own settings, project and first file, one after the other or at once
\* and killed anywhere: what nopo leaves in .env is never half of one tag, what a process
\* sets wins, and where processes do not overlap what they do not set stays, if it can be
\* read back (packages/nopo/src/parse-env.ts, docker-tag.ts).
THEOREM EnvStaysKept == Spec => []EnvIsKept
<1>1. /\ part = "env" => EnvInv(EnvSettings, FALSE)
      /\ part = "race" => EnvInv(RacingSettings, TRUE)
      => EnvIsKept
  <2>1. EnvInv(EnvSettings, FALSE) =>
          /\ Ordered!TypeOK /\ Ordered!PartsMakeTheTag /\ Ordered!TagIsKept
          /\ Ordered!OverridesWin /\ Ordered!OnlyLocalIsDevelopment /\ Ordered!ImagesPreserved
    BY EnvReports
  <2>2. EnvInv(RacingSettings, TRUE) =>
          /\ Racing!TypeOK /\ Racing!PartsMakeTheTag /\ Racing!OverridesWin
          /\ Racing!OnlyLocalIsDevelopment
    BY RacingReports
  <2> QED
    BY <2>1, <2>2 DEF EnvIsKept
<1> QED
  BY <1>1, EnvAlways, PTL
=============================================================================
