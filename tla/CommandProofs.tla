---------------------------- MODULE CommandProofs ----------------------------
(***************************************************************************)
(* Proofs about MCCommand: of every crowd of commands and its queue, every *)
(* decision client and every Vitest coordinator, whatever their sizes and  *)
(* limits.  Each component has an inductive invariant of its own, about    *)
(* the variables of MCCommand that stand for its own.                      *)
(***************************************************************************)
EXTENDS MCCommand, WellFoundedInduction, FiniteSetTheorems, SequenceTheorems, TLAPS

-----------------------------------------------------------------------------
(* Induction over the natural numbers in a form that first-order provers   *)
(* can use: the induction predicate is a SET of numbers.                   *)

\* Every nonempty set of naturals has a least element.
LEMMA LeastElement ==
  ASSUME NEW T, T \subseteq Nat, T # {}
  PROVE  \E x \in T : \A y \in T : x <= y
<1>1. IsWellFoundedOn(OpToRel(<, Nat), Nat)
  BY NatLessThanWellFounded
<1>2. PICK x \in T : \A y \in T : <<y, x>> \notin OpToRel(<, Nat)
  BY <1>1, WFMin
<1>3. \A y \in T : ~(y < x)
  BY <1>2 DEF OpToRel
<1> QED
  BY <1>3

\* A set that holds 0 and is closed under successor holds every natural.
LEMMA SetInduction ==
  ASSUME NEW S, 0 \in S, \A k \in Nat : k \in S => k + 1 \in S
  PROVE  Nat \subseteq S
<1> DEFINE T == Nat \ S
<1> SUFFICES ASSUME T # {} PROVE FALSE
  OBVIOUS
<1>1. PICK x \in T : \A y \in T : x <= y
  BY LeastElement
<1>2. x # 0 /\ x - 1 \in Nat /\ x - 1 \notin T
  BY <1>1
<1> QED
  BY <1>1, <1>2

\* Induction up to a bound: the form the loop lemmas use.
LEMMA BoundedInduction ==
  ASSUME NEW m \in Nat, NEW S, 0 \in S,
         \A k \in 0 .. (m - 1) : k \in S => k + 1 \in S
  PROVE  0 .. m \subseteq S
<1> DEFINE T == {k \in Nat : k <= m => k \in S}
<1>1. 0 \in T
  OBVIOUS
<1>2. \A k \in Nat : k \in T => k + 1 \in T
  OBVIOUS
<1>3. Nat \subseteq T
  BY <1>1, <1>2, SetInduction
<1> QED
  BY <1>3

-----------------------------------------------------------------------------
(* The decision client. *)

requests == v2
places   == v3
call     == v4

USE DEF requests, places, call

Refusals == {"disabled", "request", "budget", "busy"}
Results  == Decisions!Unavailable \cup {"ok", "none"}
CallType ==
  [request : Asked \cup {bad}, work : {"none", "secret", "fetch", "body", "over"},
   race : Results, result : Results, aborted : BOOLEAN, sent : BOOLEAN,
   body : Bodies \cup {<< >>}]

\* What one call's record says: its work goes on after the race only when the
\* timer won it, which aborts the request; and an answer that won fits.
CallIsSound(d) ==
  /\ d.result \in {d.race, "none"}
  /\ d.work = "none" => d.race = "none" /\ ~d.sent
  /\ d.work = "over" => d.race # "none"
  /\ d.work \notin {"none", "over"} /\ d.race # "none" => d.aborted
  /\ d.aborted => d.race # "none"
  /\ d.race \in Refusals => d.work = "over" /\ ~d.sent /\ d.result = d.race
  /\ d.race = "ok" => Decisions!validateAnswers(d.request, d.body)

\* The calls that count against the budget, and those that hold a place.
Admitted == {c \in Calls : call[c].work # "none" /\ call[c].race \notin Refusals}
Waiting  == {c \in Calls : call[c].work # "none" /\ call[c].result = "none"}

DecisionInv ==
  /\ call \in [Calls -> CallType]
  /\ \A c \in Calls : CallIsSound(call[c])
  /\ requests = Cardinality(Admitted) /\ requests <= RequestBudget
  /\ places = Cardinality(Waiting) /\ places <= Places

LEMMA DecisionInit == Decisions!Init => DecisionInv
<1> SUFFICES ASSUME Decisions!Init PROVE DecisionInv
  OBVIOUS
<1>1. call = [c \in Calls |-> Decisions!Idle] /\ requests = 0 /\ places = 0
  BY DEF Decisions!Init
<1>2. Decisions!Idle \in CallType /\ CallIsSound(Decisions!Idle)
  BY DEF Decisions!Idle, CallType, CallIsSound, Results, Decisions!None, Decisions!Unavailable, Refusals
<1>3. Admitted = {} /\ Waiting = {}
  BY <1>1 DEF Admitted, Waiting, Decisions!Idle
<1>4. Cardinality({}) = 0
  BY FS_EmptySet
<1> QED
  BY <1>1, <1>2, <1>3, <1>4, DecisionAssumption DEF DecisionInv

\* The counters are natural numbers.
LEMMA CountsAreFinite ==
  /\ IsFiniteSet(Admitted) /\ Cardinality(Admitted) \in Nat
  /\ IsFiniteSet(Waiting) /\ Cardinality(Waiting) \in Nat
<1>1. Admitted \in SUBSET Calls /\ Waiting \in SUBSET Calls
  BY DEF Admitted, Waiting
<1> QED
  BY <1>1, DecisionAssumption, FS_Subset, FS_CardinalityType

\* A step that gives one call a sound record which counts as the old one did.
LEMMA CountsKept ==
  ASSUME DecisionInv, NEW c \in Calls, NEW d \in CallType, CallIsSound(d),
         call' = [call EXCEPT ![c] = d], requests' = requests, places' = places,
         call[c].work # "none", d.work # "none", d.result = call[c].result,
         d.race \in Refusals <=> call[c].race \in Refusals
  PROVE  DecisionInv'
<1>1. call' \in [Calls -> CallType] /\ \A x \in Calls : CallIsSound(call'[x])
  BY DEF DecisionInv
<1>2. Admitted' = Admitted /\ Waiting' = Waiting
  BY DEF Admitted, Waiting, DecisionInv
<1>3. Cardinality(Admitted)' = Cardinality(Admitted)
      /\ Cardinality(Waiting)' = Cardinality(Waiting)
  BY <1>2
<1> QED
  BY <1>1, <1>3 DEF DecisionInv

\* One side of the race ends.
LEMMA ResolveStep ==
  ASSUME DecisionInv, NEW c \in Calls, call[c].work \in {"secret", "fetch", "body"},
         NEW result \in Results \ (Refusals \cup {"none"}),
         NEW body \in Bodies \cup {<< >>},
         result = "ok" => Decisions!validateAnswers(call[c].request, body),
         Decisions!Resolve(c, result, "over", body),
         requests' = requests, places' = places
  PROVE  DecisionInv'
<1>1. call[c] \in CallType /\ CallIsSound(call[c]) /\ call \in [Calls -> CallType]
  BY DEF DecisionInv
<1>2. CASE call[c].race = "none"
  <2> DEFINE d == [call[c] EXCEPT !.race = result, !.work = "over", !.body = body]
  <2>1. call' = [call EXCEPT ![c] = d]
    BY <1>1, <1>2 DEF Decisions!Resolve, Decisions!None, CallType
  <2>2. d \in CallType /\ CallIsSound(d)
    BY <1>1, <1>2 DEF CallType, CallIsSound, Results, Refusals
  <2> QED
    BY <1>1, <1>2, <2>1, <2>2, CountsKept DEF CallType, Refusals
<1>3. CASE call[c].race # "none"
  <2> DEFINE d == [call[c] EXCEPT !.work = "over"]
  <2>1. call' = [call EXCEPT ![c] = d]
    BY <1>1, <1>3 DEF Decisions!Resolve, Decisions!None, CallType
  <2>2. d \in CallType /\ CallIsSound(d)
    BY <1>1, <1>3 DEF CallType, CallIsSound, Results, Refusals
  <2> QED
    BY <1>1, <1>3, <2>1, <2>2, CountsKept DEF CallType
<1> QED
  BY <1>2, <1>3

\* A call is refused, or admitted with a record that its work leaves behind.
LEMMA RefuseStep ==
  ASSUME DecisionInv, NEW c \in Calls, call[c].work = "none",
         NEW r \in Asked \cup {bad}, NEW reason \in Refusals,
         Decisions!Refuse(c, r, reason)
  PROVE  DecisionInv'
<1> DEFINE d == [call[c] EXCEPT !.request = r, !.work = "over", !.race = reason,
                                !.result = reason]
<1>1. call[c] \in CallType /\ CallIsSound(call[c]) /\ call \in [Calls -> CallType]
  BY DEF DecisionInv
<1>2. call' = [call EXCEPT ![c] = d] /\ requests' = requests /\ places' = places
  BY <1>1 DEF Decisions!Refuse, CallType
<1>3. d \in CallType /\ CallIsSound(d)
  BY <1>1 DEF CallType, CallIsSound, Results, Refusals, Decisions!Unavailable
<1>4. call' \in [Calls -> CallType] /\ \A x \in Calls : CallIsSound(call'[x])
  BY <1>2, <1>3 DEF DecisionInv
<1>5. Admitted' = Admitted /\ Waiting' = Waiting
  BY <1>1, <1>2, <1>3 DEF Admitted, Waiting, CallType, CallIsSound, Refusals
<1>6. Cardinality(Admitted)' = Cardinality(Admitted)
      /\ Cardinality(Waiting)' = Cardinality(Waiting)
  BY <1>5
<1> QED
  BY <1>2, <1>4, <1>6 DEF DecisionInv

LEMMA StartedType ==
  ASSUME NEW r \in Asked, NEW d \in Decisions!Started(r)
  PROVE  /\ d \in CallType /\ CallIsSound(d) /\ d.work # "none"
         /\ d.race \notin Refusals /\ d.result = "none"
<1> DEFINE W(work) == Decisions!Work(r, work)
           Good(x) == /\ x \in CallType /\ CallIsSound(x) /\ x.work # "none"
                      /\ x.race \notin Refusals /\ x.result = "none"
<1>1. Decisions!Idle \in CallType /\ Decisions!Idle.race = "none"
      /\ Decisions!Idle.result = "none" /\ Decisions!Idle.aborted = FALSE
  BY DEF Decisions!Idle, CallType, Results, Decisions!None
<1>2. ASSUME NEW work \in {"secret", "fetch", "over"}, NEW sent \in BOOLEAN,
             (work = "fetch") = sent
      PROVE  /\ W(work) \in CallType /\ W(work).request = r /\ W(work).work = work
             /\ W(work).race = "none" /\ W(work).result = "none"
             /\ W(work).aborted = FALSE /\ W(work).sent = sent
  <2>1. W(work) = [Decisions!Idle EXCEPT !.request = r, !.work = work, !.sent = sent]
    BY <1>2 DEF Decisions!Work
  <2> HIDE DEF W
  <2> QED
    BY <1>1, <2>1 DEF CallType
<1>3. Good(W("fetch")) /\ Good(W("secret"))
  <2>1. ("fetch" = "fetch") = TRUE /\ ("secret" = "fetch") = FALSE
    OBVIOUS
  <2> HIDE DEF W
  <2> QED
    BY <1>2, <2>1 DEF CallIsSound, Refusals
<1>4. ASSUME NEW result \in {"mock-miss", "credentials", "ok", "response"},
             NEW body \in Bodies \cup {<< >>},
             result = "ok" => Decisions!validateAnswers(r, body)
      PROVE  Good(Decisions!Ended(r, result, body))
  <2>1. Decisions!Ended(r, result, body) = [W("over") EXCEPT !.race = result, !.body = body]
    BY DEF Decisions!Ended
  <2>2. ("over" = "fetch") = FALSE
    OBVIOUS
  <2> HIDE DEF W
  <2>3. /\ W("over") \in CallType /\ W("over").request = r /\ W("over").work = "over"
        /\ W("over").race = "none" /\ W("over").result = "none"
        /\ W("over").aborted = FALSE /\ W("over").sent = FALSE
    BY <1>2, <2>2
  <2> QED
    BY <1>4, <2>1, <2>3 DEF CallType, CallIsSound, Results, Refusals, Decisions!Unavailable
<1> HIDE DEF W, Good
<1>5. \/ d \in {Decisions!Ended(r, "mock-miss", << >>)}
      \/ d \in {Decisions!Ended(r, IF Decisions!validateAnswers(r, body) THEN "ok" ELSE "response",
                                body) : body \in Bodies}
      \/ d \in {W("fetch")} \/ d \in {W("secret")}
      \/ d \in {Decisions!Ended(r, "credentials", << >>)}
  BY Zenon DEF Decisions!Started, W
<1> QED
  BY <1>3, <1>4, <1>5 DEF Good

LEMMA AdmitStep ==
  ASSUME DecisionInv, NEW c \in Calls, call[c].work = "none", NEW r \in Asked,
         requests < RequestBudget, places < Places, Decisions!Admit(c, r)
  PROVE  DecisionInv'
<1>1. PICK d \in Decisions!Started(r) : call' = [call EXCEPT ![c] = d]
  BY DEF Decisions!Admit
<1>2. requests' = requests + 1 /\ places' = places + 1
  BY DEF Decisions!Admit
<1>3. /\ d \in CallType /\ CallIsSound(d) /\ d.work # "none"
      /\ d.race \notin Refusals /\ d.result = "none"
  BY StartedType
<1>4. call' \in [Calls -> CallType] /\ \A x \in Calls : CallIsSound(call'[x])
  BY <1>1, <1>3 DEF DecisionInv
<1>5. Admitted' = Admitted \cup {c} /\ Waiting' = Waiting \cup {c}
  BY <1>1, <1>3 DEF Admitted, Waiting, DecisionInv
<1>6. c \notin Admitted /\ c \notin Waiting
  BY DEF Admitted, Waiting
<1>7. /\ Cardinality(Admitted') = Cardinality(Admitted) + 1
      /\ Cardinality(Waiting') = Cardinality(Waiting) + 1
  BY <1>5, <1>6, CountsAreFinite, FS_AddElement
<1>8. /\ requests' = Cardinality(Admitted)' /\ requests' <= RequestBudget
      /\ places' = Cardinality(Waiting)' /\ places' <= Places
  <2>1. requests = Cardinality(Admitted) /\ places = Cardinality(Waiting)
    BY DEF DecisionInv
  <2> QED
    BY <1>2, <1>7, <2>1, CountsAreFinite, DecisionAssumption
<1> QED
  BY <1>4, <1>8 DEF DecisionInv

LEMMA EvaluateStep ==
  ASSUME DecisionInv, NEW c \in Calls, NEW r \in Asked \cup {bad}, Decisions!evaluate(c, r)
  PROVE  DecisionInv'
<1>1. call[c].work = "none"
  BY DEF Decisions!evaluate
<1>2. CASE \E reason \in Refusals : Decisions!Refuse(c, r, reason)
  BY <1>1, <1>2, RefuseStep
<1>3. CASE r # bad /\ ~(requests >= RequestBudget) /\ ~(places >= Places)
           /\ Decisions!Admit(c, r)
  <2>1. requests < RequestBudget /\ places < Places
    BY <1>3, CountsAreFinite, DecisionAssumption DEF DecisionInv
  <2> QED
    BY <1>1, <1>3, <2>1, AdmitStep
<1> QED
  BY <1>2, <1>3 DEF Decisions!evaluate, Refusals

\* The caller has its result and gives its place back.
LEMMA ReturnsStep ==
  ASSUME DecisionInv, NEW c \in Calls, Decisions!returns(c)
  PROVE  DecisionInv'
<1> DEFINE d == [call[c] EXCEPT !.result = call[c].race]
<1>1. call[c] \in CallType /\ CallIsSound(call[c]) /\ call \in [Calls -> CallType]
  BY DEF DecisionInv
<1>2. /\ call' = [call EXCEPT ![c] = d] /\ requests' = requests /\ places' = places - 1
      /\ call[c].race # "none" /\ call[c].result = "none"
  BY <1>1 DEF Decisions!returns, Decisions!None, CallType
<1>3. d \in CallType /\ CallIsSound(d) /\ d.result # "none"
  BY <1>1, <1>2 DEF CallType, CallIsSound, Refusals
<1>4. call' \in [Calls -> CallType] /\ \A x \in Calls : CallIsSound(call'[x])
  BY <1>2, <1>3 DEF DecisionInv
<1>5. c \in Waiting
  BY <1>1, <1>2 DEF Waiting, CallIsSound
<1>6. Admitted' = Admitted /\ Waiting' = Waiting \ {c}
  BY <1>1, <1>2, <1>3 DEF Admitted, Waiting, CallType
<1>7. /\ Cardinality(Admitted') = Cardinality(Admitted)
      /\ Cardinality(Waiting') = Cardinality(Waiting) - 1
  BY <1>5, <1>6, CountsAreFinite, FS_RemoveElement
<1>8. /\ requests' = Cardinality(Admitted)' /\ requests' <= RequestBudget
      /\ places' = Cardinality(Waiting)' /\ places' <= Places
  <2>1. /\ requests = Cardinality(Admitted) /\ places = Cardinality(Waiting)
        /\ requests <= RequestBudget /\ places <= Places
    BY DEF DecisionInv
  <2> QED
    BY <1>2, <1>7, <2>1, CountsAreFinite, DecisionAssumption
<1> QED
  BY <1>4, <1>8 DEF DecisionInv

LEMMA DecisionNext == DecisionInv /\ Decisions!Next => DecisionInv'
<1> SUFFICES ASSUME DecisionInv, Decisions!Next PROVE DecisionInv'
  OBVIOUS
<1> USE DEF Decisions!None
<1>1. PICK c \in Calls :
        \/ \E r \in Asked \cup {bad} : Decisions!evaluate(c, r)
        \/ \E found \in BOOLEAN : Decisions!secret(c, found)
        \/ Decisions!fetchFails(c)
        \/ Decisions!fetched(c)
        \/ \E body \in Bodies \cup {<< >>} : Decisions!boundedResponse(c, body)
        \/ Decisions!timeout(c)
        \/ Decisions!returns(c)
  BY DEF Decisions!Next
<1>2. call[c] \in CallType /\ CallIsSound(call[c]) /\ call \in [Calls -> CallType]
  BY DEF DecisionInv
<1>3. {"credentials", "timeout", "network", "response", "ok"} \subseteq Results \ (Refusals \cup {"none"})
  BY DEF Results, Refusals, Decisions!Unavailable
<1>4. ASSUME NEW r \in Asked \cup {bad}, Decisions!evaluate(c, r)
      PROVE  DecisionInv'
  BY <1>4, EvaluateStep
<1>5. ASSUME NEW found \in BOOLEAN, Decisions!secret(c, found)
      PROVE  DecisionInv'
  <2>1. call[c].work = "secret" /\ requests' = requests /\ places' = places
    BY <1>5 DEF Decisions!secret
  <2>2. CASE \E result \in {"credentials", "timeout"} : Decisions!Over(c, result)
    BY <1>3, <2>1, <2>2, ResolveStep DEF Decisions!Over
  <2>3. CASE ~call[c].aborted /\ call' = [call EXCEPT ![c].work = "fetch", ![c].sent = TRUE]
    <3> DEFINE d == [call[c] EXCEPT !.work = "fetch", !.sent = TRUE]
    <3>1. call' = [call EXCEPT ![c] = d]
      BY <1>2, <2>3 DEF CallType
    <3>2. d \in CallType /\ CallIsSound(d)
      BY <1>2, <2>1, <2>3 DEF CallType, CallIsSound, Refusals
    <3> QED
      BY <1>2, <2>1, <3>1, <3>2, CountsKept DEF CallType
  <2> QED
    BY <1>5, <2>2, <2>3 DEF Decisions!secret
<1>6. CASE Decisions!fetchFails(c)
  <2>1. call[c].work = "fetch" /\ requests' = requests /\ places' = places
    BY <1>6 DEF Decisions!fetchFails
  <2>2. \E result \in {"timeout", "network"} : Decisions!Over(c, result)
    BY <1>6 DEF Decisions!fetchFails
  <2> QED
    BY <1>3, <2>1, <2>2, ResolveStep DEF Decisions!Over
<1>7. CASE Decisions!fetched(c)
  <2> DEFINE d == [call[c] EXCEPT !.work = "body"]
  <2>1. call' = [call EXCEPT ![c] = d] /\ call[c].work = "fetch" /\ ~call[c].aborted
        /\ requests' = requests /\ places' = places
    BY <1>2, <1>7 DEF Decisions!fetched, CallType
  <2>2. d \in CallType /\ CallIsSound(d)
    BY <1>2, <2>1 DEF CallType, CallIsSound, Refusals
  <2> QED
    BY <1>2, <2>1, <2>2, CountsKept DEF CallType
<1>8. ASSUME NEW body \in Bodies \cup {<< >>}, Decisions!boundedResponse(c, body)
      PROVE  DecisionInv'
  <2>1. call[c].work = "body" /\ requests' = requests /\ places' = places
    BY <1>8 DEF Decisions!boundedResponse
  <2>2. CASE Decisions!validateAnswers(call[c].request, body)
             /\ Decisions!Resolve(c, "ok", "over", body)
    BY <1>3, <2>1, <2>2, ResolveStep
  <2>3. CASE Decisions!Over(c, "response")
    BY <1>3, <2>1, <2>3, ResolveStep DEF Decisions!Over
  <2> QED
    BY <1>8, <2>2, <2>3 DEF Decisions!boundedResponse
<1>9. CASE Decisions!timeout(c)
  <2> DEFINE d == [call[c] EXCEPT !.race = "timeout", !.aborted = TRUE]
  <2>1. call' = [call EXCEPT ![c] = d] /\ call[c].work \notin {"none", "over"}
        /\ call[c].race = "none" /\ requests' = requests /\ places' = places
    BY <1>2, <1>9 DEF Decisions!timeout, CallType
  <2>2. d \in CallType /\ CallIsSound(d)
    BY <1>2, <1>3, <2>1 DEF CallType, CallIsSound, Refusals
  <2> QED
    BY <1>2, <2>1, <2>2, CountsKept DEF CallType, Refusals
<1>10. CASE Decisions!returns(c)
  BY <1>10, ReturnsStep
<1> QED
  BY <1>1, <1>4, <1>5, <1>6, <1>7, <1>8, <1>9, <1>10

\* The properties of the component are read from its invariant.
LEMMA DecisionInvGives ==
  ASSUME DecisionInv
  PROVE  /\ Decisions!TypeOK /\ Decisions!PlacesArePending
         /\ Decisions!RequestsAreBounded /\ Decisions!BudgetIsSpent /\ Decisions!AnswersFit
<1> USE DEF Decisions!None
<1>1. \A S : Decisions!Cardinality(S) = Cardinality(S)
  BY DEF Decisions!Cardinality, Cardinality
<1>2. \A c \in Calls : call[c] \in CallType /\ CallIsSound(call[c])
  BY DEF DecisionInv
<1>3. /\ requests = Cardinality(Admitted) /\ requests <= RequestBudget /\ requests \in Nat
      /\ places = Cardinality(Waiting) /\ places <= Places /\ places \in Nat
  BY CountsAreFinite DEF DecisionInv
<1>4. Decisions!TypeOK
  <2>1. requests \in 0 .. RequestBudget /\ places \in 0 .. Places
    BY <1>3, DecisionAssumption
  <2> QED
    BY <1>2, <2>1 DEF Decisions!TypeOK, CallType, CallIsSound, Results
<1>5. Decisions!PlacesArePending
  <2>1. {c \in Calls : Decisions!Pending(c)} = Waiting
    BY DEF Decisions!Pending, Waiting
  <2> QED
    BY <1>1, <1>3, <2>1 DEF Decisions!PlacesArePending
<1>6. Decisions!RequestsAreBounded
  <2> DEFINE Open == {c \in Calls : call[c].work \in {"fetch", "body"} /\ ~call[c].aborted}
  <2>1. Open \subseteq Waiting
    BY <1>2 DEF Waiting, CallType, CallIsSound
  <2>2. Cardinality(Open) \in Nat /\ Cardinality(Open) <= Cardinality(Waiting)
    BY <2>1, CountsAreFinite, FS_Subset, FS_CardinalityType
  <2> HIDE DEF Open
  <2>3. Cardinality(Open) <= Places
    BY <1>3, <2>2, DecisionAssumption
  <2> QED
    BY <1>1, <2>3 DEF Decisions!RequestsAreBounded, Open
<1>7. Decisions!BudgetIsSpent
  <2> DEFINE Sent == {c \in Calls : call[c].sent}
  <2>1. Sent \subseteq Admitted
    BY <1>2 DEF Admitted, CallType, CallIsSound
  <2>2. Cardinality(Sent) \in Nat /\ Cardinality(Sent) <= Cardinality(Admitted)
    BY <2>1, CountsAreFinite, FS_Subset, FS_CardinalityType
  <2> HIDE DEF Sent
  <2>3. Cardinality(Sent) <= RequestBudget
    BY <1>3, <2>2, DecisionAssumption
  <2> QED
    BY <1>1, <2>3 DEF Decisions!BudgetIsSpent, Sent
<1>8. Decisions!AnswersFit
  <2>1. ASSUME NEW c \in Calls, call[c].result = "ok"
        PROVE  Decisions!validateAnswers(call[c].request, call[c].body)
    BY <1>2, <2>1 DEF CallIsSound
  <2>2. ASSUME NEW c \in Calls, call[c].result = "ok"
        PROVE  DOMAIN call[c].body = DOMAIN call[c].request
    BY <2>1, <2>2 DEF Decisions!validateAnswers
  <2>3. ASSUME NEW c \in Calls, call[c].result = "ok", NEW id \in DOMAIN call[c].request,
               call[c].request[id].type = "choice"
        PROVE  call[c].body[id].value \in call[c].request[id].options
    <3>1. Decisions!Valid(call[c].request[id], call[c].body[id])
      BY <2>1, <2>3 DEF Decisions!validateAnswers
    <3> QED
      BY <2>3, <3>1 DEF Decisions!Valid, Decisions!Options
  <2> QED
    BY <2>2, <2>3 DEF Decisions!AnswersFit
<1> QED
  BY <1>4, <1>5, <1>6, <1>7, <1>8

\* What one call's record may become: nothing is sent for it once its race is
\* decided, and the winner and its answer stay.
Follows(x, d) ==
  /\ d.sent /\ ~x.sent => x.race = "none"
  /\ x.race # "none" => d.race = x.race /\ d.body = x.body

LEMMA DecisionSteps ==
  ASSUME DecisionInv, Decisions!Next
  PROVE  Decisions!NothingSentLate /\ Decisions!FirstResultStands
<1> USE DEF Decisions!None
<1>1. PICK c \in Calls :
        \/ \E r \in Asked \cup {bad} : Decisions!evaluate(c, r)
        \/ \E found \in BOOLEAN : Decisions!secret(c, found)
        \/ Decisions!fetchFails(c)
        \/ Decisions!fetched(c)
        \/ \E body \in Bodies \cup {<< >>} : Decisions!boundedResponse(c, body)
        \/ Decisions!timeout(c)
        \/ Decisions!returns(c)
  BY DEF Decisions!Next
<1>2. call[c] \in CallType /\ CallIsSound(call[c]) /\ call \in [Calls -> CallType]
  BY DEF DecisionInv
<1>3. ASSUME NEW result, NEW body, Decisions!Resolve(c, result, "over", body)
      PROVE  \E d : call' = [call EXCEPT ![c] = d] /\ Follows(call[c], d)
  <2>1. CASE call[c].race = "none"
    <3> WITNESS [call[c] EXCEPT !.race = result, !.work = "over", !.body = body]
    <3> QED
      BY <1>2, <1>3, <2>1 DEF Decisions!Resolve, Follows, CallType
  <2>2. CASE call[c].race # "none"
    <3> WITNESS [call[c] EXCEPT !.work = "over"]
    <3> QED
      BY <1>2, <1>3, <2>2 DEF Decisions!Resolve, Follows, CallType
  <2> QED
    BY <2>1, <2>2
<1>4. \E d : call' = [call EXCEPT ![c] = d] /\ Follows(call[c], d)
  <2>1. ASSUME NEW r \in Asked \cup {bad}, Decisions!evaluate(c, r)
        PROVE  \E d : call' = [call EXCEPT ![c] = d] /\ call[c].race = "none"
    <3>1. call[c].race = "none"
      BY <1>2, <2>1 DEF Decisions!evaluate, CallIsSound
    <3>2. ASSUME NEW reason, Decisions!Refuse(c, r, reason)
          PROVE  \E d : call' = [call EXCEPT ![c] = d]
      BY <3>2 DEF Decisions!Refuse
    <3>3. ASSUME Decisions!Admit(c, r)
          PROVE  \E d : call' = [call EXCEPT ![c] = d]
      BY <3>3 DEF Decisions!Admit
    <3> QED
      BY <2>1, <3>1, <3>2, <3>3 DEF Decisions!evaluate
  <2>2. ASSUME NEW found \in BOOLEAN, Decisions!secret(c, found)
        PROVE  \E d : call' = [call EXCEPT ![c] = d] /\ Follows(call[c], d)
    <3>1. CASE \E result : Decisions!Over(c, result)
      BY <1>3, <3>1 DEF Decisions!Over
    <3>2. CASE ~call[c].aborted /\ call' = [call EXCEPT ![c].work = "fetch", ![c].sent = TRUE]
      <4>1. call[c].race = "none"
        BY <1>2, <2>2, <3>2 DEF Decisions!secret, CallIsSound
      <4> WITNESS [call[c] EXCEPT !.work = "fetch", !.sent = TRUE]
      <4> QED
        BY <1>2, <3>2, <4>1 DEF Follows, CallType
    <3> QED
      BY <2>2, <3>1, <3>2 DEF Decisions!secret
  <2>3. ASSUME Decisions!fetchFails(c)
        PROVE  \E d : call' = [call EXCEPT ![c] = d] /\ Follows(call[c], d)
    BY <1>3, <2>3 DEF Decisions!fetchFails, Decisions!Over
  <2>4. ASSUME Decisions!fetched(c)
        PROVE  \E d : call' = [call EXCEPT ![c] = d] /\ Follows(call[c], d)
    <3> WITNESS [call[c] EXCEPT !.work = "body"]
    <3> QED
      BY <1>2, <2>4 DEF Decisions!fetched, Follows, CallType
  <2>5. ASSUME NEW body \in Bodies \cup {<< >>}, Decisions!boundedResponse(c, body)
        PROVE  \E d : call' = [call EXCEPT ![c] = d] /\ Follows(call[c], d)
    BY <1>3, <2>5 DEF Decisions!boundedResponse, Decisions!Over
  <2>6. ASSUME Decisions!timeout(c)
        PROVE  \E d : call' = [call EXCEPT ![c] = d] /\ Follows(call[c], d)
    <3> WITNESS [call[c] EXCEPT !.race = "timeout", !.aborted = TRUE]
    <3> QED
      BY <1>2, <2>6 DEF Decisions!timeout, Follows, CallType
  <2>7. ASSUME Decisions!returns(c)
        PROVE  \E d : call' = [call EXCEPT ![c] = d] /\ Follows(call[c], d)
    <3> WITNESS [call[c] EXCEPT !.result = call[c].race]
    <3> QED
      BY <1>2, <2>7 DEF Decisions!returns, Follows, CallType
  <2> QED
    BY <1>1, <2>1, <2>2, <2>3, <2>4, <2>5, <2>6, <2>7 DEF Follows
<1>5. PICK d : call' = [call EXCEPT ![c] = d] /\ Follows(call[c], d)
  BY <1>4
<1>6. \A x \in Calls : Follows(call[x], call'[x])
  BY <1>2, <1>5 DEF Follows
<1> QED
  BY <1>6 DEF Follows, Decisions!NothingSentLate, Decisions!FirstResultStands

-----------------------------------------------------------------------------
(* The Vitest coordinator. *)

request     == v1
queue       == v2
active      == v3
sessionOver == v4
draining    == v5
worker      == v6
outbox      == v7
inbox       == v8
crashes     == v9
gone        == v10

USE DEF request, queue, active, sessionOver, draining, worker, outbox, inbox, crashes, gone

WorkerType == [alive : BOOLEAN, killed : BOOLEAN, busy : TestRuns \cup {"none"},
               closing : BOOLEAN]
SessionTypes ==
  /\ request \in [TestRuns -> {"new", "waiting", "result", "exited", "aborted", "closed"}]
  /\ queue \in Seq(TestRuns) /\ active \in TestRuns \cup {"none"}
  /\ sessionOver \in BOOLEAN /\ draining \in BOOLEAN /\ gone \in BOOLEAN
  /\ worker \in WorkerType
  /\ outbox \in Seq(TestRuns \cup {"close"}) /\ inbox \in Seq(TestRuns)
  /\ crashes \in 0 .. ProcessCrashes

\* What a queue holds, and each request of it once.
In(q)   == {q[i] : i \in 1 .. Len(q)}
Once(q) == \A i, j \in 1 .. Len(q) : q[i] = q[j] => i = j
QueueIsSound ==
  /\ \A r \in In(queue) : request[r] = "waiting"
  /\ Once(queue) /\ active \notin In(queue)
  /\ active # "none" => request[active] # "new"
  /\ \A r \in TestRuns : request[r] = "waiting" => r = active \/ r \in In(queue)

\* Where the active request is: on its way, running, or answered; or it is lost,
\* because the process it was sent to had ended or was shutting down.
Nobox  == outbox \in {<< >>, <<"close">>}
Unsent == Nobox /\ worker.busy = "none" /\ inbox = << >>
Sent   == outbox \in {<<active>>, <<active, "close">>, <<"close", active>>}
          /\ worker.busy = "none" /\ inbox = << >>
Busy   == Nobox /\ worker.busy = active /\ inbox = << >>
Told   == Nobox /\ worker.busy = "none" /\ inbox = <<active>>
OneMessage == Unsent \/ (active # "none" /\ (Sent \/ Busy \/ Told))

\* The requests that failed with a process of theirs, those that were aborted, and
\* the end that is yet to fail one: of a process that was killed for an aborted
\* request, or has crashed.
Exited  == {r \in TestRuns : request[r] = "exited"}
Aborted == {r \in TestRuns : request[r] = "aborted"}
Failing == IF ~draining /\ ~gone /\ ~sessionOver /\ (worker.killed \/ ~worker.alive)
           THEN 1 ELSE 0

SessionInv ==
  /\ SessionTypes
  /\ QueueIsSound
  /\ OneMessage
  /\ ~worker.alive => worker = Vitest!NoWorker /\ outbox = << >>
  /\ sessionOver => ~worker.alive /\ inbox = << >> /\ active = "none" /\ queue = << >>
  /\ "close" \in In(outbox) => draining
  /\ worker.closing => draining \/ gone
  /\ Cardinality(Exited) + Failing <= crashes + Cardinality(Aborted)

\* The first of a queue and the rest.
LEMMA HeadOfQueue ==
  ASSUME NEW S, NEW q \in Seq(S), q # << >>
  PROVE  /\ Head(q) \in S /\ Tail(q) \in Seq(S)
         /\ In(q) = {Head(q)} \cup In(Tail(q))
         /\ Once(q) => Once(Tail(q)) /\ Head(q) \notin In(Tail(q))
<1>1. Head(q) = q[1] /\ q[1] \in S /\ Tail(q) \in Seq(S) /\ Len(q) \in Nat /\ Len(q) >= 1
      /\ Len(Tail(q)) = Len(q) - 1 /\ \A i \in 1 .. Len(q) - 1 : Tail(q)[i] = q[i + 1]
  OBVIOUS
<1>2. ASSUME NEW i \in 1 .. Len(q)
      PROVE  q[i] \in {Head(q)} \cup In(Tail(q))
  <2>1. CASE i = 1
    BY <1>1, <2>1
  <2>2. CASE i # 1
    <3>1. i - 1 \in 1 .. Len(Tail(q)) /\ Tail(q)[i - 1] = q[(i - 1) + 1] /\ (i - 1) + 1 = i
      BY <1>1, <2>2
    <3> QED
      BY <3>1 DEF In
  <2> QED
    BY <2>1, <2>2
<1>3. ASSUME NEW i \in 1 .. Len(Tail(q))
      PROVE  i + 1 \in 1 .. Len(q) /\ Tail(q)[i] = q[i + 1] /\ i + 1 # 1
  BY <1>1
<1>4. In(q) = {Head(q)} \cup In(Tail(q))
  BY <1>1, <1>2, <1>3 DEF In
<1>5. Once(q) => Once(Tail(q)) /\ Head(q) \notin In(Tail(q))
  <2> SUFFICES ASSUME Once(q) PROVE Once(Tail(q)) /\ Head(q) \notin In(Tail(q))
    OBVIOUS
  <2>1. 1 \in 1 .. Len(q)
    BY <1>1
  <2>2. \A i, j \in 1 .. Len(Tail(q)) : q[i + 1] = q[j + 1] => i = j
    BY <1>1, <1>3 DEF Once
  <2>3. \A i \in 1 .. Len(Tail(q)) : q[i + 1] # q[1]
    BY <1>3, <2>1 DEF Once
  <2> QED
    BY <1>1, <1>3, <2>2, <2>3 DEF Once, In
<1> QED
  BY <1>1, <1>4, <1>5

LEMMA EndOfQueue ==
  ASSUME NEW S, NEW q \in Seq(S), NEW r \in S
  PROVE  /\ Append(q, r) \in Seq(S) /\ Append(q, r) # << >>
         /\ In(Append(q, r)) = In(q) \cup {r}
         /\ Once(q) /\ r \notin In(q) => Once(Append(q, r))
<1>1. /\ Append(q, r) \in Seq(S) /\ Len(q) \in Nat /\ Len(Append(q, r)) = Len(q) + 1
      /\ \A i \in 1 .. Len(q) : Append(q, r)[i] = q[i]
      /\ Append(q, r)[Len(q) + 1] = r
  OBVIOUS
<1>2. 1 .. Len(q) + 1 = (1 .. Len(q)) \cup {Len(q) + 1} /\ Append(q, r) # << >>
  BY <1>1
<1> QED
  BY <1>1, <1>2 DEF In, Once

\* What the filter leaves of a queue.
LEMMA WithoutOne ==
  ASSUME NEW S, NEW t \in Seq(S), NEW r
  PROVE  /\ Vitest!Without(t, r) \in Seq(S)
         /\ In(Vitest!Without(t, r)) = In(t) \ {r}
         /\ Once(t) => Once(Vitest!Without(t, r))
<1> DEFINE Step(s, i) == IF t[i] = r THEN s ELSE Append(s, t[i])
           Body(g, size) == [i \in 0 .. size |-> IF i = 0 THEN << >> ELSE Step(g[i - 1], i)]
           E == {size \in Nat : \E g : g = Body(g, size)}
           kept == CHOOSE g : g = Body(g, Len(t))
           Good(s, k) == /\ s \in Seq(S)
                         /\ In(s) = {t[i] : i \in 1 .. k} \ {r}
                         /\ Once(t) => Once(s)
           G == {k \in 0 .. Len(t) : Good(kept[k], k)}
<1>0. Len(t) \in Nat /\ \A i \in 1 .. Len(t) : t[i] \in S
  OBVIOUS
<1>1. kept = Body(kept, Len(t))
  <2> HIDE DEF Step
  <2>1. 0 \in E
    <3>1. Body([i \in 0 .. 0 |-> << >>], 0) = [i \in 0 .. 0 |-> << >>]
      OBVIOUS
    <3> QED
      BY <3>1
  <2>2. ASSUME NEW size \in Nat, size \in E
        PROVE  size + 1 \in E
    <3>1. PICK g : g = Body(g, size)
      BY <2>2
    <3> DEFINE h == [i \in 0 .. size + 1 |-> IF i <= size THEN g[i] ELSE Step(g[size], size + 1)]
    <3>2. h = Body(h, size + 1)
      BY <3>1
    <3> HIDE DEF h, Body
    <3> QED
      BY <3>2
  <2>3. Len(t) \in E
    <3> HIDE DEF E
    <3> QED
      BY <1>0, <2>1, <2>2, SetInduction
  <2> QED
    BY <2>3
<1>2. Vitest!Without(t, r) = kept[Len(t)]
  BY DEF Vitest!Without
<1> HIDE DEF kept
<1>3. /\ kept[0] = << >>
      /\ \A k \in 0 .. Len(t) - 1 : kept[k + 1] = Step(kept[k], k + 1)
  <2> HIDE DEF Step
  <2>1. kept[0] = << >>
    BY <1>0, <1>1
  <2>2. ASSUME NEW k \in 0 .. Len(t) - 1
        PROVE  kept[k + 1] = Step(kept[k], k + 1)
    <3>1. k + 1 \in 0 .. Len(t) /\ k + 1 # 0 /\ (k + 1) - 1 = k
      BY <1>0
    <3> QED
      BY <1>1, <3>1
  <2> QED
    BY <2>1, <2>2
<1>4. Good(kept[0], 0)
  BY <1>3 DEF In, Once
<1>5. ASSUME NEW k \in 0 .. Len(t) - 1, Good(kept[k], k)
      PROVE  Good(kept[k + 1], k + 1)
  <2> DEFINE s == kept[k]
             T(m) == {t[i] : i \in 1 .. m}
  <2>1. k \in Nat /\ k + 1 \in 1 .. Len(t) /\ t[k + 1] \in S
        /\ 1 .. k + 1 = (1 .. k) \cup {k + 1}
    BY <1>0
  <2>2. T(k + 1) = T(k) \cup {t[k + 1]}
    BY <2>1
  <2>3. CASE t[k + 1] = r
    <3>1. kept[k + 1] = s
      BY <1>3, <2>3
    <3> QED
      BY <1>5, <2>2, <2>3, <3>1
  <2>4. CASE t[k + 1] # r
    <3>1. kept[k + 1] = Append(s, t[k + 1])
      BY <1>3, <2>4
    <3>2. Once(t) => t[k + 1] \notin T(k)
      BY <1>0, <2>1 DEF Once
    <3> HIDE DEF s
    <3> QED
      BY <1>5, <2>1, <2>2, <2>4, <3>1, <3>2, EndOfQueue DEF s
  <2> QED
    BY <2>3, <2>4
<1>6. Good(kept[Len(t)], Len(t))
  <2>1. 0 \in G /\ \A k \in 0 .. Len(t) - 1 : k \in G => k + 1 \in G
    <3> HIDE DEF Good
    <3> QED
      BY <1>0, <1>4, <1>5
  <2> HIDE DEF G
  <2>2. 0 .. Len(t) \subseteq G
    BY <1>0, <2>1, BoundedInduction
  <2>3. Len(t) \in G
    BY <1>0, <2>2
  <2> QED
    BY <2>3 DEF G
<1>7. In(t) = {t[i] : i \in 1 .. Len(t)}
  BY DEF In
<1> QED
  BY <1>2, <1>6, <1>7

\* Boxes of one and of two messages.
LEMMA AppendShort ==
  ASSUME NEW x, NEW y
  PROVE  Append(<< >>, x) = <<x>> /\ Append(<<x>>, y) = <<x, y>>
<1> DEFINE S == {x, y}
<1>1. x \in S /\ y \in S
  OBVIOUS
<1> HIDE DEF S
<1>2. << >> \in Seq(S) /\ <<x>> \in Seq(S) /\ Len(<< >>) = 0 /\ Len(<<x>>) = 1
  BY <1>1
<1>3. Append(<< >>, x) = <<x>>
  <2> DEFINE box == Append(<< >>, x)
  <2>1. box \in Seq(S) /\ Len(box) = 1 /\ box[1] = x
    BY <1>1, <1>2
  <2> HIDE DEF box
  <2>2. box = [i \in 1 .. 1 |-> box[i]] /\ <<x>> = [i \in 1 .. 1 |-> <<x>>[i]]
    BY <2>1
  <2>3. \A i \in 1 .. 1 : box[i] = <<x>>[i]
    BY <2>1
  <2> QED
    BY <2>2, <2>3 DEF box
<1>4. Append(<<x>>, y) = <<x, y>>
  <2> DEFINE box == Append(<<x>>, y)
  <2>1. box \in Seq(S) /\ Len(box) = 2 /\ box[2] = y
    BY <1>1, <1>2
  <2>2. box[1] = x
    BY <1>1, <1>2
  <2> HIDE DEF box
  <2>3. box = [i \in 1 .. 2 |-> box[i]] /\ <<x, y>> = [i \in 1 .. 2 |-> <<x, y>>[i]]
    BY <2>1
  <2>4. \A i \in 1 .. 2 : box[i] = <<x, y>>[i]
    BY <2>1, <2>2
  <2> QED
    BY <2>3, <2>4 DEF box
<1> QED
  BY <1>3, <1>4

LEMMA TailShort ==
  ASSUME NEW x, NEW y
  PROVE  /\ Head(<<x>>) = x /\ Head(<<x, y>>) = x
         /\ Tail(<<x>>) = << >> /\ Tail(<<x, y>>) = <<y>>
<1> DEFINE S == {x, y}
<1>1. x \in S /\ y \in S
  OBVIOUS
<1> HIDE DEF S
<1>2. /\ <<x>> \in Seq(S) /\ <<x, y>> \in Seq(S)
      /\ Len(<<x>>) = 1 /\ Len(<<x, y>>) = 2
  BY <1>1
<1>3. Tail(<<x>>) = << >>
  <2>1. Tail(<<x>>) \in Seq(S) /\ Len(Tail(<<x>>)) = 0
    BY <1>2
  <2> QED
    BY <2>1
<1>4. Tail(<<x, y>>) = <<y>>
  <2> DEFINE box == Tail(<<x, y>>)
  <2>1. box \in Seq(S) /\ Len(box) = 1 /\ box[1] = y
    BY <1>2
  <2> HIDE DEF box
  <2>2. box = [i \in 1 .. 1 |-> box[i]] /\ <<y>> = [i \in 1 .. 1 |-> <<y>>[i]]
    BY <2>1
  <2>3. \A i \in 1 .. 1 : box[i] = <<y>>[i]
    BY <2>1
  <2> QED
    BY <2>2, <2>3 DEF box
<1>5. Head(<<x>>) = x /\ Head(<<x, y>>) = x
  OBVIOUS
<1> QED
  BY <1>3, <1>4, <1>5

LEMMA InShort ==
  /\ In(<< >>) = {}
  /\ \A x : In(<<x>>) = {x}
  /\ \A x, y : In(<<x, y>>) = {x, y}
<1>1. Len(<< >>) = 0 /\ 1 .. 0 = {} /\ 1 .. 1 = {1} /\ 1 .. 2 = {1, 2}
  OBVIOUS
<1>2. ASSUME NEW x PROVE Len(<<x>>) = 1 /\ <<x>>[1] = x
  OBVIOUS
<1>3. ASSUME NEW x, NEW y
      PROVE  Len(<<x, y>>) = 2 /\ <<x, y>>[1] = x /\ <<x, y>>[2] = y
  OBVIOUS
<1> QED
  BY <1>1, <1>2, <1>3 DEF In

LEMMA OnceShort == Once(<< >>) /\ \A x : Once(<<x>>)
<1>1. Len(<< >>) = 0 /\ 1 .. 0 = {} /\ 1 .. 1 = {1}
  OBVIOUS
<1>2. ASSUME NEW x PROVE Len(<<x>>) = 1
  OBVIOUS
<1> QED
  BY <1>1, <1>2 DEF Once

LEMMA InType ==
  ASSUME NEW S, NEW q \in Seq(S)
  PROVE  In(q) \subseteq S
BY DEF In

\* dispatch() while nothing is active: the first request of q is active then, on
\* its way, or lost when its process is gone.
LEMMA DispatchNext ==
  ASSUME NEW q \in Seq(TestRuns), Once(q), NEW w \in WorkerType,
         NEW box \in {<< >>, <<"close">>}, Vitest!dispatch(q, "none", w, box),
         worker'.busy = "none", inbox' = << >>
  PROVE  /\ queue' \in Seq(TestRuns) /\ Once(queue') /\ In(queue') \subseteq In(q)
         /\ active' \in In(q) \cup {"none"} /\ active' \notin In(queue')
         /\ In(q) = In(queue') \cup ({active'} \ {"none"})
         /\ q = << >> => queue' = << >> /\ active' = "none"
         /\ outbox' \in Seq(TestRuns \cup {"close"})
         /\ "close" \in In(outbox') => box # << >>
         /\ ~w.alive => outbox' = box
         /\ OneMessage'
<1>0. "none" \notin TestRuns /\ "close" \notin TestRuns
  BY SessionAssumption
<1>1. \A x \in In(q) : x \in TestRuns
  BY DEF In
<1>2. CASE q = << >>
  <2>1. queue' = q /\ active' = "none" /\ outbox' = box
    BY <1>2 DEF Vitest!dispatch, Vitest!None
  <2>2. box \in Seq(TestRuns \cup {"close"}) /\ ("close" \in In(box) => box # << >>)
    <3>1. "close" \in TestRuns \cup {"close"}
      OBVIOUS
    <3>2. In(<< >>) = {} /\ << >> \in Seq(TestRuns \cup {"close"})
          /\ <<"close">> \in Seq(TestRuns \cup {"close"})
      BY <3>1, InShort
    <3> QED
      BY <3>2
  <2>3. OneMessage'
    BY <2>1 DEF OneMessage, Unsent, Nobox
  <2> QED
    BY <1>0, <1>1, <1>2, <2>1, <2>2, <2>3
<1>3. CASE q # << >>
  <2> DEFINE h == Head(q)
  <2>1. /\ h \in TestRuns /\ Tail(q) \in Seq(TestRuns) /\ In(q) = {h} \cup In(Tail(q))
        /\ Once(Tail(q)) /\ h \notin In(Tail(q))
    BY <1>3, HeadOfQueue
  <2>2. queue' = Tail(q) /\ active' = h
        /\ outbox' = IF w.alive THEN Append(box, h) ELSE box
    BY <1>3 DEF Vitest!dispatch, Vitest!None, Vitest!Send
  <2> HIDE DEF h
  <2>3. Append(<< >>, h) = <<h>> /\ Append(<<"close">>, h) = <<"close", h>>
    BY AppendShort
  <2>4. outbox' \in {<< >>, <<"close">>, <<h>>, <<"close", h>>}
        /\ (box = << >> => outbox' \in {<< >>, <<h>>})
    BY <2>2, <2>3
  <2> DEFINE M == TestRuns \cup {"close"}
  <2>5. outbox' \in Seq(M) /\ ("close" \in In(outbox') => box # << >>)
    <3>1. h \in M /\ "close" \in M
      BY <2>1
    <3> HIDE DEF M
    <3>2. << >> \in Seq(M) /\ <<"close">> \in Seq(M) /\ <<h>> \in Seq(M)
          /\ <<"close", h>> \in Seq(M) /\ In(<< >>) = {} /\ In(<<h>>) = {h}
      BY <3>1, InShort
    <3> QED
      BY <1>0, <2>1, <2>4, <3>2
  <2>6. OneMessage'
    BY <1>0, <2>1, <2>2, <2>4 DEF OneMessage, Unsent, Sent, Nobox
  <2> QED
    BY <1>0, <1>1, <2>1, <2>2, <2>5, <2>6
<1> QED
  BY <1>2, <1>3

\* The numbers of requests that failed or were aborted.
LEMMA OutcomesAreFinite ==
  /\ IsFiniteSet(Exited) /\ Cardinality(Exited) \in Nat
  /\ IsFiniteSet(Aborted) /\ Cardinality(Aborted) \in Nat
<1>1. Exited \in SUBSET TestRuns /\ Aborted \in SUBSET TestRuns
  BY DEF Exited, Aborted
<1> QED
  BY <1>1, SessionAssumption, FS_Subset, FS_CardinalityType

\* A request that is neither settled before nor fails or is aborted now.
LEMMA OutcomesKept ==
  ASSUME Exited' = Exited, Aborted' = Aborted, Failing' <= Failing, crashes' = crashes,
         SessionInv
  PROVE  Cardinality(Exited)' + Failing' <= crashes' + Cardinality(Aborted)'
<1>1. Cardinality(Exited)' = Cardinality(Exited) /\ Cardinality(Aborted)' = Cardinality(Aborted)
  OBVIOUS
<1>2. crashes \in Int /\ Failing \in Int /\ Failing' \in Int
  BY SessionAssumption DEF SessionInv, SessionTypes, Failing
<1> QED
  BY <1>1, <1>2, OutcomesAreFinite DEF SessionInv

\* One more request is aborted, and its process may have been killed for it.
LEMMA OneAborted ==
  ASSUME SessionInv, NEW r \in TestRuns, request[r] \in {"new", "waiting"},
         request' = [request EXCEPT ![r] = "aborted"], crashes' = crashes
  PROVE  Cardinality(Exited)' + Failing' <= crashes' + Cardinality(Aborted)'
<1>1. Exited' = Exited /\ Aborted' = Aborted \cup {r} /\ r \notin Aborted
  BY DEF SessionInv, SessionTypes, Exited, Aborted
<1>2. Cardinality(Aborted') = Cardinality(Aborted) + 1
  BY <1>1, OutcomesAreFinite, FS_AddElement
<1>3. Cardinality(Exited)' = Cardinality(Exited)
  BY <1>1
<1>4. crashes \in Int /\ Failing \in 0 .. 1 /\ Failing' \in 0 .. 1
  BY SessionAssumption DEF SessionInv, SessionTypes, Failing
<1> QED
  BY <1>2, <1>3, <1>4, OutcomesAreFinite DEF SessionInv

LEMMA SessionInit == Vitest!Init => SessionInv
<1> SUFFICES ASSUME Vitest!Init PROVE SessionInv
  OBVIOUS
<1> USE DEF Vitest!None
<1>1. /\ request = [r \in TestRuns |-> "new"] /\ queue = << >> /\ active = "none"
      /\ sessionOver = TRUE /\ draining = FALSE /\ worker = Vitest!NoWorker
      /\ outbox = << >> /\ inbox = << >> /\ crashes = 0 /\ gone = FALSE
  BY DEF Vitest!Init
<1>2. /\ Vitest!NoWorker \in WorkerType /\ ~Vitest!NoWorker.alive
      /\ Vitest!NoWorker.busy = "none" /\ ~Vitest!NoWorker.closing
  BY DEF Vitest!NoWorker, WorkerType
<1>3. SessionTypes
  <2>1. << >> \in Seq(TestRuns) /\ << >> \in Seq(TestRuns \cup {"close"})
    OBVIOUS
  <2>2. 0 \in 0 .. ProcessCrashes
    BY SessionAssumption
  <2> QED
    BY <1>1, <1>2, <2>1, <2>2 DEF SessionTypes
<1>4. QueueIsSound
  BY <1>1, InShort, OnceShort DEF QueueIsSound
<1>5. OneMessage
  BY <1>1, <1>2 DEF OneMessage, Unsent, Nobox
<1>6. Cardinality(Exited) + Failing <= crashes + Cardinality(Aborted)
  <2>1. Exited = {} /\ Aborted = {} /\ Failing = 0
    BY <1>1 DEF Exited, Aborted, Failing
  <2> QED
    BY <1>1, <2>1, FS_EmptySet
<1> QED
  BY <1>1, <1>2, <1>3, <1>4, <1>5, <1>6, InShort DEF SessionInv

\* The started process.
LEMMA StartedWorker ==
  /\ Vitest!Started \in WorkerType /\ Vitest!Started.alive /\ ~Vitest!Started.killed
  /\ Vitest!Started.busy = "none" /\ ~Vitest!Started.closing
BY DEF Vitest!Started, Vitest!NoWorker, Vitest!None, WorkerType

\* The first call of runVitestProcess, or one after the session has ended.
LEMMA RunFirst ==
  ASSUME SessionInv, NEW r \in TestRuns, Vitest!run(r), sessionOver
  PROVE  SessionInv'
<1> USE DEF Vitest!None
<1>1. /\ request[r] = "new" /\ ~draining /\ ~gone
      /\ request' = [request EXCEPT ![r] = "waiting"]
      /\ worker' = Vitest!Started /\ inbox' = << >> /\ sessionOver' = FALSE
      /\ draining' = draining /\ crashes' = crashes /\ gone' = gone
      /\ Vitest!dispatch(<<r>>, "none", Vitest!Started, << >>)
  BY DEF Vitest!run
<1>2. SessionTypes /\ QueueIsSound /\ active = "none" /\ queue = << >> /\ ~worker.alive
  BY DEF SessionInv
<1>3. <<r>> \in Seq(TestRuns) /\ Once(<<r>>) /\ In(<<r>>) = {r} /\ <<r>> # << >>
  BY InShort DEF Once
<1>4. Head(<<r>>) = r /\ Tail(<<r>>) = << >> /\ Append(<< >>, r) = <<r>>
  BY TailShort, AppendShort
<1>5. queue' = << >> /\ active' = r /\ outbox' = <<r>>
  BY <1>1, <1>3, <1>4, StartedWorker DEF Vitest!dispatch, Vitest!Send
<1>6. SessionTypes'
  <2>1. << >> \in Seq(TestRuns) /\ outbox' \in Seq(TestRuns \cup {"close"})
    BY <1>5
  <2> QED
    BY <1>1, <1>2, <1>5, <2>1, StartedWorker DEF SessionTypes
<1>7. QueueIsSound'
  <2>1. In(queue') = {} /\ Once(queue')
    BY <1>5, InShort, OnceShort
  <2>2. \A x \in TestRuns : request[x] # "waiting"
    BY <1>2, InShort, SessionAssumption DEF QueueIsSound
  <2>3. request'[r] = "waiting" /\ \A x \in TestRuns : x # r => request'[x] = request[x]
    BY <1>1, <1>2 DEF SessionTypes
  <2> QED
    BY <1>5, <2>1, <2>2, <2>3 DEF QueueIsSound
<1>8. OneMessage'
  BY <1>1, <1>5, StartedWorker, SessionAssumption DEF OneMessage, Sent
<1>9. (Cardinality(Exited) + Failing <= crashes + Cardinality(Aborted))'
  <2>1. Exited' = Exited /\ Aborted' = Aborted
    BY <1>1, <1>2 DEF Exited, Aborted, SessionTypes
  <2>2. Failing' <= Failing
    BY <1>1, StartedWorker DEF Failing
  <2> QED
    BY <1>1, <2>1, <2>2, OutcomesKept
<1>10. "close" \notin In(outbox')
  BY <1>5, InShort, SessionAssumption
<1> QED
  BY <1>1, <1>6, <1>7, <1>8, <1>9, <1>10, StartedWorker DEF SessionInv

\* A call while the session goes on.
LEMMA RunNext ==
  ASSUME SessionInv, NEW r \in TestRuns, Vitest!run(r), ~sessionOver
  PROVE  SessionInv'
<1> USE DEF Vitest!None
<1> DEFINE q == Append(queue, r)
<1>1. /\ request[r] = "new" /\ ~draining /\ ~gone
      /\ request' = [request EXCEPT ![r] = "waiting"]
      /\ worker' = worker /\ inbox' = inbox /\ sessionOver' = FALSE
      /\ draining' = draining /\ crashes' = crashes /\ gone' = gone
      /\ Vitest!dispatch(q, active, worker, outbox)
  BY DEF Vitest!run
<1>2. SessionTypes /\ QueueIsSound /\ OneMessage
  BY DEF SessionInv
<1>3. r \notin In(queue) /\ r # active
  BY <1>1, <1>2, SessionAssumption DEF QueueIsSound
<1>4. q \in Seq(TestRuns) /\ q # << >> /\ In(q) = In(queue) \cup {r} /\ Once(q)
  BY <1>2, <1>3, EndOfQueue DEF SessionTypes, QueueIsSound
<1> HIDE DEF q
<1>5. /\ queue' \in Seq(TestRuns) /\ Once(queue') /\ active' \in TestRuns \cup {"none"}
      /\ active' \notin In(queue') /\ In(queue') \subseteq In(q)
      /\ In(q) \cup ({active} \ {"none"}) = In(queue') \cup ({active'} \ {"none"})
      /\ outbox' \in Seq(TestRuns \cup {"close"})
      /\ "close" \in In(outbox') => "close" \in In(outbox)
      /\ ~worker.alive => outbox' = outbox
      /\ active' \in In(q) \cup {active}
      /\ OneMessage'
  <2>1. CASE active = "none"
    <3>1. outbox \in {<< >>, <<"close">>} /\ worker.busy = "none" /\ inbox = << >>
      BY <1>2, <2>1 DEF OneMessage, Unsent, Nobox
    <3>2. worker \in WorkerType /\ (outbox # << >> => "close" \in In(outbox))
      BY <1>2, <3>1, InShort DEF SessionTypes
    <3>3. /\ queue' \in Seq(TestRuns) /\ Once(queue') /\ In(queue') \subseteq In(q)
          /\ active' \in In(q) \cup {"none"} /\ active' \notin In(queue')
          /\ In(q) = In(queue') \cup ({active'} \ {"none"})
          /\ outbox' \in Seq(TestRuns \cup {"close"})
          /\ "close" \in In(outbox') => outbox # << >>
          /\ ~worker.alive => outbox' = outbox
          /\ OneMessage'
      BY <1>1, <1>4, <2>1, <3>1, <3>2, DispatchNext
    <3>4. In(q) \subseteq TestRuns
      BY <1>4, InType
    <3> QED
      BY <2>1, <3>2, <3>3, <3>4
  <2>2. CASE active # "none"
    <3>1. queue' = q /\ active' = active /\ outbox' = outbox
      BY <1>1, <2>2 DEF Vitest!dispatch
    <3>2. OneMessage'
      BY <1>1, <1>2, <3>1 DEF OneMessage, Unsent, Sent, Busy, Told, Nobox
    <3>3. active \notin In(q)
      BY <1>2, <1>3, <1>4 DEF QueueIsSound
    <3> QED
      BY <1>2, <1>4, <3>1, <3>2, <3>3 DEF SessionTypes
  <2> QED
    BY <2>1, <2>2
<1>6. SessionTypes'
  BY <1>1, <1>2, <1>5 DEF SessionTypes
<1>7. QueueIsSound'
  <2>0. In(queue) \subseteq TestRuns
    BY <1>2, InType DEF SessionTypes
  <2>1. \A x \in In(queue') : request'[x] = "waiting"
    BY <1>1, <1>2, <1>4, <1>5, <2>0 DEF QueueIsSound, SessionTypes
  <2>2. \A x \in TestRuns : request'[x] = "waiting" => x = active' \/ x \in In(queue')
    BY <1>1, <1>2, <1>4, <1>5, SessionAssumption DEF QueueIsSound, SessionTypes
  <2>3. active' # "none" => request'[active'] # "new"
    BY <1>1, <1>2, <1>4, <1>5 DEF QueueIsSound, SessionTypes
  <2> QED
    BY <1>5, <2>1, <2>2, <2>3 DEF QueueIsSound
<1>8. (Cardinality(Exited) + Failing <= crashes + Cardinality(Aborted))'
  <2>1. Exited' = Exited /\ Aborted' = Aborted
    BY <1>1, <1>2 DEF Exited, Aborted, SessionTypes
  <2>2. Failing' = Failing
    BY <1>1 DEF Failing
  <2> QED
    BY <1>1, <2>1, <2>2, OutcomesKept DEF Failing
<1> QED
  BY <1>1, <1>5, <1>6, <1>7, <1>8 DEF SessionInv

\* A call whose signal has fired; it may start a session.
LEMMA RunAbortedStep ==
  ASSUME SessionInv, NEW r \in TestRuns, Vitest!runAborted(r)
  PROVE  SessionInv'
<1>1. /\ request[r] = "new" /\ request' = [request EXCEPT ![r] = "aborted"]
      /\ worker' = IF sessionOver THEN Vitest!Started ELSE worker
      /\ sessionOver' = FALSE /\ queue' = queue /\ active' = active /\ draining' = draining
      /\ outbox' = outbox /\ inbox' = inbox /\ crashes' = crashes /\ gone' = gone
  BY DEF Vitest!runAborted
<1>2. SessionTypes /\ QueueIsSound /\ OneMessage
  BY DEF SessionInv
<1>3. SessionTypes'
  BY <1>1, <1>2, StartedWorker DEF SessionTypes
<1>4. QueueIsSound'
  <2>1. In(queue) \subseteq TestRuns
    BY <1>2, InType DEF SessionTypes
  <2>2. \A x \in TestRuns : x # r => request'[x] = request[x]
    BY <1>1, <1>2 DEF SessionTypes
  <2>3. request'[r] = "aborted"
    BY <1>1, <1>2 DEF SessionTypes
  <2>4. r \notin In(queue)
    BY <1>1, <1>2 DEF QueueIsSound
  <2>5. active # "none" => active \in TestRuns
    BY <1>2 DEF SessionTypes
  <2> QED
    BY <1>1, <1>2, <2>1, <2>2, <2>3, <2>4, <2>5 DEF QueueIsSound
<1>5. OneMessage'
  <2>1. CASE sessionOver
    <3>1. active = "none"
      BY <2>1 DEF SessionInv
    <3>2. Unsent
      BY <1>2, <3>1 DEF OneMessage
    <3> QED
      BY <1>1, <2>1, <3>2, StartedWorker DEF OneMessage, Unsent, Nobox
  <2>2. CASE ~sessionOver
    BY <1>1, <1>2, <2>2 DEF OneMessage, Unsent, Sent, Busy, Told, Nobox
  <2> QED
    BY <2>1, <2>2
<1>6. (Cardinality(Exited) + Failing <= crashes + Cardinality(Aborted))'
  BY <1>1, OneAborted
<1>7. /\ ~worker'.alive => worker' = Vitest!NoWorker /\ outbox' = << >>
      /\ worker'.closing => draining' \/ gone'
  BY <1>1, StartedWorker DEF SessionInv
<1>8. "close" \in In(outbox') => draining'
  BY <1>1 DEF SessionInv
<1> QED
  BY <1>1, <1>3, <1>4, <1>5, <1>6, <1>7, <1>8 DEF SessionInv

LEMMA KilledWorker ==
  ASSUME NEW w \in WorkerType
  PROVE  /\ Vitest!Kill(w) \in WorkerType /\ Vitest!Kill(w).alive = w.alive
         /\ Vitest!Kill(w).busy = w.busy /\ Vitest!Kill(w).closing = w.closing
         /\ ~w.alive => Vitest!Kill(w) = w
BY DEF Vitest!Kill, WorkerType

\* The signal of a request fires while it waits.
LEMMA AbortStep ==
  ASSUME SessionInv, NEW r \in TestRuns, Vitest!abort(r)
  PROVE  SessionInv'
<1>1. /\ request[r] = "waiting" /\ queue' = Vitest!Without(queue, r)
      /\ request' = Vitest!Settle({r}, "aborted")
      /\ worker' = IF active = r THEN Vitest!Kill(worker) ELSE worker
      /\ sessionOver' = sessionOver /\ active' = active /\ draining' = draining
      /\ outbox' = outbox /\ inbox' = inbox /\ crashes' = crashes /\ gone' = gone
  BY DEF Vitest!abort
<1>2. SessionTypes /\ QueueIsSound /\ OneMessage
  BY DEF SessionInv
<1>3. request' = [request EXCEPT ![r] = "aborted"]
  BY <1>1, <1>2 DEF Vitest!Settle, Vitest!Settled, SessionTypes
<1>4. queue' \in Seq(TestRuns) /\ In(queue') = In(queue) \ {r} /\ Once(queue')
  BY <1>1, <1>2, WithoutOne DEF SessionTypes, QueueIsSound
<1>5. /\ worker' \in WorkerType /\ worker'.alive = worker.alive
      /\ worker'.busy = worker.busy /\ worker'.closing = worker.closing
      /\ ~worker.alive => worker' = worker
  BY <1>1, <1>2, KilledWorker DEF SessionTypes
<1>6. SessionTypes'
  BY <1>1, <1>2, <1>3, <1>4, <1>5 DEF SessionTypes
<1>7. QueueIsSound'
  <2>1. In(queue) \subseteq TestRuns
    BY <1>2, InType DEF SessionTypes
  <2>2. \A x \in TestRuns : x # r => request'[x] = request[x]
    BY <1>2, <1>3 DEF SessionTypes
  <2>3. request'[r] = "aborted"
    BY <1>2, <1>3 DEF SessionTypes
  <2>4. active # "none" => active \in TestRuns
    BY <1>2 DEF SessionTypes
  <2> QED
    BY <1>1, <1>2, <1>4, <2>1, <2>2, <2>3, <2>4 DEF QueueIsSound
<1>8. OneMessage'
  BY <1>1, <1>2, <1>5 DEF OneMessage, Unsent, Sent, Busy, Told, Nobox
<1>9. (Cardinality(Exited) + Failing <= crashes + Cardinality(Aborted))'
  BY <1>1, <1>3, OneAborted
<1>10. sessionOver' => queue' = << >>
  <2>1. SUFFICES ASSUME sessionOver PROVE FALSE
    BY <1>1
  <2>2. queue = << >> /\ active = "none"
    BY <2>1 DEF SessionInv
  <2> QED
    BY <1>1, <1>2, <2>2, InShort, SessionAssumption DEF QueueIsSound
<1> QED
  BY <1>1, <1>5, <1>6, <1>7, <1>8, <1>9, <1>10 DEF SessionInv

\* Whoever was queued when nothing is active any more: the queue after dispatch()
\* is sound when what became of the active request is not to wait on.
LEMMA QueueGoesOn ==
  ASSUME SessionTypes, QueueIsSound,
         NEW how \in {"result", "exited"},
         request' = Vitest!Settle({active} \ {"none"}, how),
         Once(queue'), active' \in In(queue) \cup {"none"}, active' \notin In(queue'),
         In(queue) = In(queue') \cup ({active'} \ {"none"})
  PROVE  /\ request' \in [TestRuns -> {"new", "waiting", "result", "exited", "aborted", "closed"}]
         /\ QueueIsSound'
         /\ \A x \in TestRuns : x # active => request'[x] = request[x]
         /\ active \in TestRuns =>
              request'[active] = IF request[active] = "aborted" THEN "aborted"
                                 ELSE IF Vitest!Settled(active) THEN request[active] ELSE how
<1>1. request' = [x \in TestRuns |-> IF x = active /\ x # "none" /\ ~Vitest!Settled(x)
                                      THEN how ELSE request[x]]
  BY DEF Vitest!Settle
<1>2. request' \in [TestRuns -> {"new", "waiting", "result", "exited", "aborted", "closed"}]
  BY <1>1 DEF SessionTypes
<1>3. \A x \in TestRuns : x # active => request'[x] = request[x]
  BY <1>1
<1>4. In(queue) \subseteq TestRuns /\ active \notin In(queue)
  BY InType DEF SessionTypes, QueueIsSound
<1>5. \A x \in In(queue) : request'[x] = "waiting"
  BY <1>3, <1>4 DEF QueueIsSound
<1>6. active \in TestRuns =>
        request'[active] = IF request[active] = "aborted" THEN "aborted"
                           ELSE IF Vitest!Settled(active) THEN request[active] ELSE how
  BY <1>1, SessionAssumption DEF Vitest!Settled
<1>7. \A x \in TestRuns : request'[x] = "waiting" => x \in In(queue)
  <2> SUFFICES ASSUME NEW x \in TestRuns, request'[x] = "waiting" PROVE x \in In(queue)
    OBVIOUS
  <2>1. x # active
    BY <1>1, SessionAssumption DEF Vitest!Settled
  <2> QED
    BY <1>3, <2>1 DEF QueueIsSound
<1> QED
  BY <1>2, <1>3, <1>4, <1>5, <1>6, <1>7, SessionAssumption DEF QueueIsSound

\* An answer arrives; it is the active request's.
LEMMA OnMessageStep ==
  ASSUME SessionInv, Vitest!onMessage
  PROVE  SessionInv'
<1> USE DEF Vitest!None
<1>1. SessionTypes /\ QueueIsSound /\ OneMessage
  BY DEF SessionInv
<1>2. /\ inbox # << >> /\ inbox' = Tail(inbox)
      /\ sessionOver' = sessionOver /\ draining' = draining /\ worker' = worker
      /\ crashes' = crashes /\ gone' = gone
  BY DEF Vitest!onMessage
<1>3. inbox = <<active>> /\ active # "none" /\ Nobox /\ worker.busy = "none"
  BY <1>1, <1>2 DEF OneMessage, Unsent, Sent, Busy, Told
<1>4. active \in TestRuns /\ Head(inbox) = active /\ inbox' = << >>
  BY <1>1, <1>2, <1>3, TailShort DEF SessionTypes
<1>5. request' = Vitest!Settle({active}, "result")
      /\ Vitest!dispatch(queue, "none", worker, outbox)
  BY <1>4 DEF Vitest!onMessage
<1>6. outbox \in {<< >>, <<"close">>} /\ worker \in WorkerType
      /\ (outbox # << >> => "close" \in In(outbox))
  BY <1>1, <1>3, InShort DEF Nobox, SessionTypes
<1>7. queue \in Seq(TestRuns) /\ Once(queue)
  BY <1>1 DEF SessionTypes, QueueIsSound
<1>8. /\ queue' \in Seq(TestRuns) /\ Once(queue') /\ In(queue') \subseteq In(queue)
      /\ active' \in In(queue) \cup {"none"} /\ active' \notin In(queue')
      /\ In(queue) = In(queue') \cup ({active'} \ {"none"})
      /\ outbox' \in Seq(TestRuns \cup {"close"})
      /\ "close" \in In(outbox') => outbox # << >>
      /\ ~worker.alive => outbox' = outbox
      /\ OneMessage'
  BY <1>2, <1>3, <1>4, <1>5, <1>6, <1>7, DispatchNext
<1>9. {active} \ {"none"} = {active}
  BY <1>3
<1>10. /\ request' \in [TestRuns -> {"new", "waiting", "result", "exited", "aborted", "closed"}]
       /\ QueueIsSound'
       /\ \A x \in TestRuns : x # active => request'[x] = request[x]
       /\ request'[active] = IF request[active] = "aborted" THEN "aborted"
                             ELSE IF Vitest!Settled(active) THEN request[active] ELSE "result"
  BY <1>1, <1>4, <1>5, <1>8, <1>9, QueueGoesOn
<1>11. SessionTypes'
  <2>1. << >> \in Seq(TestRuns) /\ In(queue) \subseteq TestRuns
    BY <1>7, InType
  <2> QED
    BY <1>1, <1>2, <1>4, <1>8, <1>10, <2>1 DEF SessionTypes
<1>12. (Cardinality(Exited) + Failing <= crashes + Cardinality(Aborted))'
  <2>1. request'[active] = "aborted" <=> request[active] = "aborted"
    BY <1>10 DEF Vitest!Settled
  <2>2. request'[active] = "exited" <=> request[active] = "exited"
    BY <1>4, <1>10 DEF Vitest!Settled
  <2>3. Exited' = Exited /\ Aborted' = Aborted
    BY <1>10, <2>1, <2>2 DEF Exited, Aborted
  <2>4. Failing' = Failing
    BY <1>2 DEF Failing
  <2> QED
    BY <1>2, <2>3, <2>4, OutcomesKept DEF Failing
<1>13. ~sessionOver
  BY <1>3 DEF SessionInv
<1> QED
  BY <1>2, <1>6, <1>8, <1>10, <1>11, <1>12, <1>13 DEF SessionInv

\* The session learns that its process has ended while it is draining.
LEMMA ExitedDraining ==
  ASSUME SessionInv, Vitest!exited, draining
  PROVE  SessionInv'
<1> USE DEF Vitest!None
<1>1. SessionTypes /\ QueueIsSound
  BY DEF SessionInv
<1>2. /\ ~worker.alive /\ inbox = << >> /\ inbox' = inbox /\ draining' = draining
      /\ crashes' = crashes /\ gone' = gone /\ worker' = worker /\ outbox' = outbox
      /\ sessionOver' = TRUE /\ active' = "none" /\ queue' = << >>
      /\ request' = Vitest!Settle(Vitest!Everyone, "closed")
  BY DEF Vitest!exited, Vitest!Fail
<1>3. worker = Vitest!NoWorker /\ outbox = << >>
  BY <1>2 DEF SessionInv
<1>4. request' = [x \in TestRuns |-> IF x \in Vitest!Everyone /\ ~Vitest!Settled(x)
                                      THEN "closed" ELSE request[x]]
  BY <1>2 DEF Vitest!Settle
<1>5. SessionTypes'
  <2>1. request' \in [TestRuns -> {"new", "waiting", "result", "exited", "aborted", "closed"}]
    BY <1>1, <1>4 DEF SessionTypes
  <2>2. << >> \in Seq(TestRuns)
    OBVIOUS
  <2> QED
    BY <1>1, <1>2, <2>1, <2>2 DEF SessionTypes
<1>6. QueueIsSound'
  <2>1. queue \in Seq(TestRuns)
    BY <1>1 DEF SessionTypes
  <2>2. DOMAIN queue = 1 .. Len(queue)
    BY <2>1
  <2>3. Vitest!Everyone = ({active} \ {"none"}) \cup In(queue)
    BY <2>2 DEF Vitest!Everyone, In
  <2>4. \A x \in TestRuns : request'[x] # "waiting"
    <3> SUFFICES ASSUME NEW x \in TestRuns, request'[x] = "waiting" PROVE FALSE
      OBVIOUS
    <3>1. request[x] = "waiting" /\ x \notin Vitest!Everyone
      BY <1>4 DEF Vitest!Settled
    <3> QED
      BY <1>1, <2>3, <3>1, SessionAssumption DEF QueueIsSound
  <2> QED
    BY <1>2, <2>4, InShort, OnceShort DEF QueueIsSound
<1>7. OneMessage'
  BY <1>2, <1>3 DEF OneMessage, Unsent, Nobox, Vitest!NoWorker
<1>8. (Cardinality(Exited) + Failing <= crashes + Cardinality(Aborted))'
  <2>1. \A x \in TestRuns : /\ request'[x] = "exited" <=> request[x] = "exited"
                            /\ request'[x] = "aborted" <=> request[x] = "aborted"
    BY <1>4 DEF Vitest!Settled
  <2>2. Exited' = Exited /\ Aborted' = Aborted
    BY <2>1 DEF Exited, Aborted
  <2>3. Failing' = Failing
    BY <1>2 DEF Failing
  <2> QED
    BY <1>2, <2>2, <2>3, OutcomesKept DEF Failing
<1> QED
  BY <1>2, <1>3, <1>5, <1>6, <1>7, <1>8 DEF SessionInv

\* Or while it goes on: the active request fails with its process, and a next
\* process runs what is queued.
LEMMA ExitedRunning ==
  ASSUME SessionInv, Vitest!exited, ~draining
  PROVE  SessionInv'
<1> USE DEF Vitest!None
<1>1. SessionTypes /\ QueueIsSound
  BY DEF SessionInv
<1>2. /\ ~worker.alive /\ inbox = << >> /\ inbox' = inbox /\ draining' = draining
      /\ ~sessionOver /\ ~gone /\ crashes' = crashes /\ gone' = gone
      /\ request' = Vitest!Settle({active} \ {"none"}, "exited")
      /\ sessionOver' = (queue = << >>)
      /\ worker' = IF queue = << >> THEN worker ELSE Vitest!Started
      /\ Vitest!dispatch(queue, "none", Vitest!Started, << >>)
  BY DEF Vitest!exited
<1>3. worker = Vitest!NoWorker /\ outbox = << >>
  BY <1>2 DEF SessionInv
<1>4. worker' \in WorkerType /\ worker'.busy = "none" /\ ~worker'.killed /\ ~worker'.closing
      /\ (queue # << >> => worker'.alive) /\ (queue = << >> => worker' = Vitest!NoWorker)
  BY <1>1, <1>2, <1>3, StartedWorker DEF SessionTypes, Vitest!NoWorker
<1>5. queue \in Seq(TestRuns) /\ Once(queue) /\ In(queue) \subseteq TestRuns
  BY <1>1, InType DEF SessionTypes, QueueIsSound
<1>6. /\ queue' \in Seq(TestRuns) /\ Once(queue') /\ In(queue') \subseteq In(queue)
      /\ active' \in In(queue) \cup {"none"} /\ active' \notin In(queue')
      /\ In(queue) = In(queue') \cup ({active'} \ {"none"})
      /\ queue = << >> => queue' = << >> /\ active' = "none"
      /\ outbox' \in Seq(TestRuns \cup {"close"})
      /\ "close" \notin In(outbox')
      /\ OneMessage'
  BY <1>2, <1>4, <1>5, StartedWorker, DispatchNext
<1>7. queue = << >> => outbox' = << >>
  BY <1>2 DEF Vitest!dispatch
<1>8. /\ request' \in [TestRuns -> {"new", "waiting", "result", "exited", "aborted", "closed"}]
      /\ QueueIsSound'
      /\ \A x \in TestRuns : x # active => request'[x] = request[x]
      /\ active \in TestRuns =>
           request'[active] = IF request[active] = "aborted" THEN "aborted"
                              ELSE IF Vitest!Settled(active) THEN request[active] ELSE "exited"
  BY <1>1, <1>2, <1>6, QueueGoesOn
<1>9. SessionTypes'
  <2>1. sessionOver' \in BOOLEAN
    BY <1>2
  <2>2. active' \in TestRuns \cup {"none"} /\ inbox' \in Seq(TestRuns)
    BY <1>1, <1>2, <1>5, <1>6 DEF SessionTypes
  <2>3. draining' \in BOOLEAN /\ gone' \in BOOLEAN /\ crashes' \in 0 .. ProcessCrashes
    BY <1>1, <1>2 DEF SessionTypes
  <2> QED
    BY <1>4, <1>6, <1>8, <2>1, <2>2, <2>3 DEF SessionTypes
<1>10. (Cardinality(Exited) + Failing <= crashes + Cardinality(Aborted))'
  <2>1. Failing = 1
    BY <1>2 DEF Failing
  <2>2. Failing' = 0
    BY <1>2, <1>4 DEF Failing
  <2>3. Aborted' = Aborted
    <3>1. \A x \in TestRuns : request'[x] = "aborted" <=> request[x] = "aborted"
      BY <1>8 DEF Vitest!Settled
    <3> QED
      BY <3>1 DEF Aborted
  <2>4. Exited' \subseteq Exited \cup {active}
    BY <1>8 DEF Exited
  <2>5. IsFiniteSet(Exited \cup {active})
        /\ Cardinality(Exited \cup {active}) <= Cardinality(Exited) + 1
    <3> DEFINE S == Exited
    <3>0. IsFiniteSet(S) /\ Cardinality(S) \in Nat
      BY OutcomesAreFinite
    <3> HIDE DEF S
    <3>1. IsFiniteSet(S \cup {active})
      BY <3>0, FS_AddElement
    <3>2. Cardinality(S \cup {active}) = IF active \in S THEN Cardinality(S)
                                         ELSE Cardinality(S) + 1
      BY <3>0, FS_AddElement
    <3>3. Cardinality(S \cup {active}) <= Cardinality(S) + 1
      BY <3>0, <3>2
    <3> QED
      BY <3>1, <3>3 DEF S
  <2>6. Cardinality(Exited') <= Cardinality(Exited \cup {active})
    BY <2>4, <2>5, FS_Subset
  <2>7. Cardinality(Exited') \in Nat /\ Cardinality(Exited \cup {active}) \in Nat
    BY <2>4, <2>5, FS_Subset, FS_CardinalityType
  <2>8. Cardinality(Exited) + Failing <= crashes + Cardinality(Aborted)
        /\ crashes \in Int
    BY <1>1, SessionAssumption DEF SessionInv, SessionTypes
  <2>9. Cardinality(Exited') + Failing' <= crashes + Cardinality(Aborted)
    BY <2>1, <2>2, <2>5, <2>6, <2>7, <2>8, OutcomesAreFinite
  <2> QED
    BY <1>2, <2>3, <2>9
<1> QED
  BY <1>2, <1>4, <1>6, <1>7, <1>8, <1>9, <1>10 DEF SessionInv, Vitest!NoWorker

\* What the steps of close(), of the process and of nopo leave alone.
LEMMA SessionUndisturbed ==
  ASSUME SessionInv, request' = request, queue' = queue, active' = active,
         sessionOver' = sessionOver
  PROVE  /\ QueueIsSound'
         /\ sessionOver' => active' = "none" /\ queue' = << >>
         /\ (crashes' = crashes /\ Failing' <= Failing)
              => (Cardinality(Exited) + Failing <= crashes + Cardinality(Aborted))'
<1>1. QueueIsSound' /\ Exited' = Exited /\ Aborted' = Aborted
  BY DEF SessionInv, QueueIsSound, Exited, Aborted
<1> QED
  BY <1>1, OutcomesKept DEF SessionInv

\* The runner is disposed of: the process is asked to close.
LEMMA CloseStep ==
  ASSUME SessionInv, Vitest!close
  PROVE  SessionInv'
<1>1. /\ ~sessionOver /\ ~draining /\ draining' = TRUE
      /\ outbox' = IF worker.alive THEN Append(outbox, "close") ELSE outbox
      /\ request' = request /\ queue' = queue /\ active' = active
      /\ sessionOver' = sessionOver /\ worker' = worker /\ inbox' = inbox
      /\ crashes' = crashes /\ gone' = gone
  BY DEF Vitest!close, Vitest!Send, Vitest!Close
<1>2. SessionTypes /\ OneMessage
  BY DEF SessionInv
<1>3. outbox \in {<< >>, <<active>>}
  BY <1>1, <1>2, InShort DEF SessionInv, OneMessage, Unsent, Sent, Busy, Told, Nobox
<1>4. Append(<< >>, "close") = <<"close">> /\ Append(<<active>>, "close") = <<active, "close">>
  BY AppendShort
<1>5. OneMessage'
  <2>1. CASE outbox = << >>
    <3>1. outbox' \in {<< >>, <<"close">>}
      BY <1>1, <1>4, <2>1
    <3>2. << >> # <<active>> /\ << >> # <<active, "close">> /\ << >> # <<"close", active>>
      OBVIOUS
    <3>3. Unsent \/ (active # "none" /\ (Busy \/ Told))
      BY <1>2, <2>1, <3>2 DEF OneMessage, Sent
    <3> QED
      BY <1>1, <3>1, <3>3 DEF OneMessage, Unsent, Busy, Told, Nobox
  <2>2. CASE outbox = <<active>>
    <3>1. outbox' \in {<<active>>, <<active, "close">>}
      BY <1>1, <1>4, <2>2
    <3>2. <<active>> # << >> /\ (<<active>> = <<"close">> => active = "close")
      OBVIOUS
    <3>3. active # "none" /\ Sent
      BY <1>2, <2>2, <3>2, SessionAssumption
         DEF SessionTypes, OneMessage, Unsent, Busy, Told, Nobox
    <3> QED
      BY <1>1, <3>1, <3>3 DEF OneMessage, Sent
  <2> QED
    BY <1>3, <2>1, <2>2
<1>6. outbox' \in Seq(TestRuns \cup {"close"})
  BY <1>1, <1>2, EndOfQueue DEF SessionTypes
<1>7. SessionTypes'
  BY <1>1, <1>2, <1>6 DEF SessionTypes
<1>8. Failing' <= Failing
  BY <1>1 DEF Failing
<1> QED
  BY <1>1, <1>5, <1>7, <1>8, SessionUndisturbed DEF SessionInv

\* Its timer: the process is killed.
LEMMA CloseTimerStep ==
  ASSUME SessionInv, Vitest!closeTimer
  PROVE  SessionInv'
<1>1. /\ draining /\ draining' = draining /\ worker' = Vitest!Kill(worker)
      /\ request' = request /\ queue' = queue /\ active' = active
      /\ sessionOver' = sessionOver /\ outbox' = outbox /\ inbox' = inbox
      /\ crashes' = crashes /\ gone' = gone
  BY DEF Vitest!closeTimer
<1>2. SessionTypes /\ OneMessage
  BY DEF SessionInv
<1>3. /\ worker' \in WorkerType /\ worker'.alive = worker.alive
      /\ worker'.busy = worker.busy /\ worker'.closing = worker.closing
      /\ ~worker.alive => worker' = worker
  BY <1>1, <1>2, KilledWorker DEF SessionTypes
<1>4. SessionTypes'
  BY <1>1, <1>2, <1>3 DEF SessionTypes
<1>5. OneMessage'
  BY <1>1, <1>2, <1>3 DEF OneMessage, Unsent, Sent, Busy, Told, Nobox
<1>6. Failing' <= Failing
  BY <1>1 DEF Failing
<1> QED
  BY <1>1, <1>3, <1>4, <1>5, <1>6, SessionUndisturbed DEF SessionInv

\* nopo exits: no request can fail any more.
LEMMA NopoExitsStep ==
  ASSUME SessionInv, Vitest!nopoExits
  PROVE  SessionInv'
<1>1. /\ gone' = TRUE /\ draining' = draining /\ worker' = worker
      /\ request' = request /\ queue' = queue /\ active' = active
      /\ sessionOver' = sessionOver /\ outbox' = outbox /\ inbox' = inbox
      /\ crashes' = crashes
  BY DEF Vitest!nopoExits
<1>2. SessionTypes' /\ OneMessage'
  BY <1>1 DEF SessionInv, SessionTypes, OneMessage, Unsent, Sent, Busy, Told, Nobox
<1>3. Failing' <= Failing
  BY <1>1 DEF Failing
<1> QED
  BY <1>1, <1>2, <1>3, SessionUndisturbed DEF SessionInv

\* The process takes the active request, or drops it when it is shutting down.
LEMMA HandleStep ==
  ASSUME SessionInv, Vitest!handle
  PROVE  SessionInv'
<1> USE DEF Vitest!None
<1>1. /\ worker.alive /\ worker.busy = "none" /\ outbox # << >> /\ Head(outbox) # "close"
      /\ outbox' = Tail(outbox)
      /\ worker' = [worker EXCEPT !.busy = IF worker.closing THEN "none" ELSE Head(outbox)]
      /\ request' = request /\ queue' = queue /\ active' = active
      /\ sessionOver' = sessionOver /\ draining' = draining /\ inbox' = inbox
      /\ crashes' = crashes /\ gone' = gone
  BY DEF Vitest!handle, Vitest!Close
<1>2. SessionTypes /\ OneMessage
  BY DEF SessionInv
<1>3. /\ Head(<<"close">>) = "close" /\ Head(<<"close", active>>) = "close"
      /\ Head(<<active>>) = active /\ Head(<<active, "close">>) = active
      /\ Tail(<<active>>) = << >> /\ Tail(<<active, "close">>) = <<"close">>
  BY TailShort
<1>4. /\ outbox \in {<<active>>, <<active, "close">>} /\ active # "none" /\ inbox = << >>
      /\ Head(outbox) = active /\ outbox' \in {<< >>, <<"close">>}
      /\ outbox' = <<"close">> => outbox = <<active, "close">>
  <2>1. ~Nobox
    BY <1>1, <1>3 DEF Nobox
  <2>2. active # "none" /\ Sent
    BY <1>2, <2>1 DEF OneMessage, Unsent, Busy, Told
  <2>3. outbox \in {<<active>>, <<active, "close">>}
    BY <1>1, <1>3, <2>2 DEF Sent
  <2>4. << >> # <<"close">>
    OBVIOUS
  <2>5. \/ outbox = <<active>> /\ Head(outbox) = active /\ outbox' = << >>
        \/ outbox = <<active, "close">> /\ Head(outbox) = active /\ outbox' = <<"close">>
    BY <1>1, <1>3, <2>3
  <2> QED
    BY <2>2, <2>3, <2>4, <2>5 DEF Sent
<1>5. active \in TestRuns /\ worker \in WorkerType
  BY <1>2, <1>4 DEF SessionTypes
<1>6. /\ worker' \in WorkerType /\ worker'.alive /\ worker'.killed = worker.killed
      /\ worker'.closing = worker.closing /\ worker'.busy \in {active, "none"}
  BY <1>1, <1>4, <1>5 DEF WorkerType
<1>7. SessionTypes'
  <2>1. outbox' \in Seq(TestRuns \cup {"close"})
    BY <1>1, <1>2 DEF SessionTypes
  <2> QED
    BY <1>1, <1>2, <1>6, <2>1 DEF SessionTypes
<1>8. OneMessage'
  BY <1>1, <1>4, <1>6 DEF OneMessage, Unsent, Busy, Nobox
<1>9. Failing' <= Failing
  BY <1>1, <1>6 DEF Failing
<1>10. "close" \in In(outbox') => "close" \in In(outbox)
  <2>1. In(<< >>) = {} /\ In(<<active, "close">>) = {active, "close"}
    BY InShort
  <2> QED
    BY <1>4, <2>1
<1> QED
  BY <1>1, <1>6, <1>7, <1>8, <1>9, <1>10, SessionUndisturbed DEF SessionInv

\* The process answers the active request.
LEMMA AnswersStep ==
  ASSUME SessionInv, Vitest!answers
  PROVE  SessionInv'
<1> USE DEF Vitest!None
<1>1. /\ worker.alive /\ worker.busy # "none" /\ inbox' = Append(inbox, worker.busy)
      /\ worker' = [worker EXCEPT !.busy = "none"]
      /\ request' = request /\ queue' = queue /\ active' = active
      /\ sessionOver' = sessionOver /\ draining' = draining /\ outbox' = outbox
      /\ crashes' = crashes /\ gone' = gone
  BY DEF Vitest!answers
<1>2. SessionTypes /\ OneMessage
  BY DEF SessionInv
<1>3. Nobox /\ worker.busy = active /\ active # "none" /\ inbox = << >>
  BY <1>1, <1>2 DEF OneMessage, Unsent, Sent, Busy, Told
<1>4. active \in TestRuns /\ worker \in WorkerType /\ inbox' = <<active>>
  BY <1>1, <1>2, <1>3, AppendShort DEF SessionTypes
<1>5. /\ worker' \in WorkerType /\ worker'.alive /\ worker'.killed = worker.killed
      /\ worker'.closing = worker.closing /\ worker'.busy = "none"
  BY <1>1, <1>4 DEF WorkerType
<1>6. SessionTypes'
  <2>1. inbox' \in Seq(TestRuns)
    BY <1>4
  <2> QED
    BY <1>1, <1>2, <1>5, <2>1 DEF SessionTypes
<1>7. OneMessage'
  BY <1>1, <1>3, <1>4, <1>5 DEF OneMessage, Told, Nobox
<1>8. Failing' <= Failing
  BY <1>1, <1>5 DEF Failing
<1>9. ~sessionOver
  BY <1>1 DEF SessionInv
<1> QED
  BY <1>1, <1>5, <1>6, <1>7, <1>8, <1>9, SessionUndisturbed DEF SessionInv

\* The process begins to shut down.
LEMMA ShutdownStep ==
  ASSUME SessionInv, Vitest!shutdown
  PROVE  SessionInv'
<1> USE DEF Vitest!None
<1>1. /\ worker.alive /\ worker' = [worker EXCEPT !.closing = TRUE]
      /\ \/ outbox # << >> /\ Head(outbox) = "close" /\ outbox' = Tail(outbox)
         \/ gone /\ outbox' = outbox
      /\ request' = request /\ queue' = queue /\ active' = active
      /\ sessionOver' = sessionOver /\ draining' = draining /\ inbox' = inbox
      /\ crashes' = crashes /\ gone' = gone
  BY DEF Vitest!shutdown, Vitest!Close
<1>2. SessionTypes /\ OneMessage
  BY DEF SessionInv
<1>3. worker \in WorkerType
  BY <1>2 DEF SessionTypes
<1>4. /\ worker' \in WorkerType /\ worker'.alive /\ worker'.killed = worker.killed
      /\ worker'.busy = worker.busy
  BY <1>1, <1>3 DEF WorkerType
<1>5. /\ active # "none" => active # "close"
      /\ Head(<<active>>) = active /\ Head(<<active, "close">>) = active
      /\ Tail(<<"close">>) = << >> /\ Tail(<<"close", active>>) = <<active>>
      /\ In(<<"close">>) = {"close"} /\ In(<<"close", active>>) = {"close", active}
      /\ In(<< >>) = {} /\ In(<<active>>) = {active}
  BY <1>2, TailShort, InShort, SessionAssumption DEF SessionTypes
<1>6. /\ OneMessage' /\ (draining \/ gone)
      /\ "close" \in In(outbox') => "close" \in In(outbox)
  <2>1. CASE gone /\ outbox' = outbox
    BY <1>1, <1>2, <1>4, <2>1 DEF OneMessage, Unsent, Sent, Busy, Told, Nobox
  <2>2. ASSUME outbox # << >>, Head(outbox) = "close", outbox' = Tail(outbox)
        PROVE  /\ OneMessage' /\ draining
               /\ "close" \in In(outbox') => "close" \in In(outbox)
    <3>1. \/ Nobox /\ outbox = <<"close">> /\ outbox' = << >>
          \/ active # "none" /\ Sent /\ outbox = <<"close", active>> /\ outbox' = <<active>>
      BY <1>2, <1>5, <2>2 DEF OneMessage, Unsent, Sent, Busy, Told, Nobox
    <3>2. "close" \in In(outbox)
      BY <1>5, <3>1
    <3>3. OneMessage'
      BY <1>1, <1>2, <1>4, <3>1 DEF OneMessage, Unsent, Sent, Busy, Told, Nobox
    <3> QED
      BY <3>2, <3>3 DEF SessionInv
  <2> QED
    BY <1>1, <2>1, <2>2
<1>7. SessionTypes'
  <2>1. outbox' \in Seq(TestRuns \cup {"close"})
    <3>1. outbox \in Seq(TestRuns \cup {"close"})
      BY <1>2 DEF SessionTypes
    <3>2. outbox # << >> => Tail(outbox) \in Seq(TestRuns \cup {"close"})
      BY <3>1, HeadOfQueue
    <3> QED
      BY <1>1, <3>1, <3>2
  <2> QED
    BY <1>1, <1>2, <1>4, <2>1 DEF SessionTypes
<1>8. Failing' <= Failing
  BY <1>1, <1>4 DEF Failing
<1> QED
  BY <1>1, <1>4, <1>6, <1>7, <1>8, SessionUndisturbed DEF SessionInv

\* The process ends: killed or shut down, or by a crash, which is yet to fail a
\* request.
LEMMA EndsStep ==
  ASSUME SessionInv, Vitest!dies \/ Vitest!crash
  PROVE  SessionInv'
<1> USE DEF Vitest!None
<1>1. /\ worker.alive /\ worker' = Vitest!NoWorker /\ outbox' = << >>
      /\ request' = request /\ queue' = queue /\ active' = active
      /\ sessionOver' = sessionOver /\ draining' = draining /\ inbox' = inbox
      /\ gone' = gone
      /\ \/ (worker.killed \/ worker.closing) /\ crashes' = crashes
         \/ crashes < ProcessCrashes /\ crashes' = crashes + 1
  BY DEF Vitest!dies, Vitest!crash, Vitest!Ends
<1>2. SessionTypes /\ OneMessage /\ ~sessionOver
  BY <1>1 DEF SessionInv
<1>3. /\ Vitest!NoWorker \in WorkerType /\ ~Vitest!NoWorker.alive
      /\ Vitest!NoWorker.busy = "none" /\ ~Vitest!NoWorker.closing
  BY DEF Vitest!NoWorker, WorkerType
<1>4. SessionTypes'
  <2>1. << >> \in Seq(TestRuns \cup {"close"})
    OBVIOUS
  <2>2. crashes' \in 0 .. ProcessCrashes
    BY <1>1, <1>2, SessionAssumption DEF SessionTypes
  <2> QED
    BY <1>1, <1>2, <1>3, <2>1, <2>2 DEF SessionTypes
<1>5. OneMessage'
  BY <1>1, <1>2, <1>3 DEF OneMessage, Unsent, Sent, Busy, Told, Nobox
<1>6. (Cardinality(Exited) + Failing <= crashes + Cardinality(Aborted))'
  <2>1. CASE crashes' = crashes /\ (worker.killed \/ worker.closing)
    <3>1. Failing' <= Failing
      BY <1>1, <2>1 DEF Failing, SessionInv
    <3> QED
      BY <1>1, <2>1, <3>1, SessionUndisturbed
  <2>2. CASE crashes' = crashes + 1
    <3>1. Exited' = Exited /\ Aborted' = Aborted
      BY <1>1 DEF Exited, Aborted
    <3>2. Failing \in 0 .. 1 /\ Failing' \in 0 .. 1 /\ crashes \in Int
      BY <1>2, SessionAssumption DEF Failing, SessionTypes
    <3>3. Cardinality(Exited)' = Cardinality(Exited) /\ Cardinality(Aborted)' = Cardinality(Aborted)
      BY <3>1
    <3>4. Cardinality(Exited) + Failing <= crashes + Cardinality(Aborted)
      BY DEF SessionInv
    <3> QED
      BY <2>2, <3>2, <3>3, <3>4, OutcomesAreFinite
  <2> QED
    BY <1>1, <2>1, <2>2
<1> QED
  BY <1>1, <1>2, <1>3, <1>4, <1>5, <1>6, InShort, SessionUndisturbed DEF SessionInv

LEMMA SessionNext == SessionInv /\ Vitest!Next => SessionInv'
<1> SUFFICES ASSUME SessionInv, Vitest!Next PROVE SessionInv'
  OBVIOUS
<1>1. ASSUME NEW r \in TestRuns, Vitest!run(r) \/ Vitest!runAborted(r) \/ Vitest!abort(r)
      PROVE  SessionInv'
  BY <1>1, RunFirst, RunNext, RunAbortedStep, AbortStep
<1>2. ASSUME Vitest!Session PROVE SessionInv'
  BY <1>2, OnMessageStep, ExitedDraining, ExitedRunning DEF Vitest!Session
<1>3. ASSUME Vitest!Process PROVE SessionInv'
  BY <1>3, HandleStep, AnswersStep, ShutdownStep DEF Vitest!Process
<1> QED
  BY <1>1, <1>2, <1>3, CloseStep, CloseTimerStep, NopoExitsStep, EndsStep DEF Vitest!Next

\* What the invariant says of the coordinator.
LEMMA SessionInvGives ==
  ASSUME SessionInv
  PROVE  /\ Vitest!TypeOK /\ Vitest!OneAtATime /\ Vitest!OutputIsItsOwn
         /\ Vitest!NoneForgotten /\ Vitest!CrashFailsOne
<1> USE DEF Vitest!None
<1>1. SessionTypes /\ QueueIsSound /\ OneMessage
  BY DEF SessionInv
<1>2. Vitest!TypeOK
  BY <1>1 DEF SessionTypes, WorkerType, Vitest!TypeOK
<1>3. Vitest!OneAtATime
  <2> DEFINE Requested(box) == {i \in DOMAIN box : box[i] # "close"}
             sent == Cardinality(Requested(outbox))
  <2>1. active # "none" => active # "close"
    BY <1>1, SessionAssumption DEF SessionTypes
  <2>2. Requested(<< >>) = {} /\ Requested(<<"close">>) = {}
    OBVIOUS
  <2>3. ASSUME active # "none"
        PROVE  /\ Requested(<<active>>) = {1} /\ Requested(<<active, "close">>) = {1}
               /\ Requested(<<"close", active>>) = {2}
    BY <2>1, <2>3
  <2> HIDE DEF Requested
  <2>4. Cardinality({}) = 0 /\ Cardinality({1}) = 1 /\ Cardinality({2}) = 1
    BY FS_EmptySet, FS_Singleton
  <2>5. ASSUME Nobox PROVE sent = 0
    <3>1. Requested(outbox) = {}
      BY <2>2, <2>5 DEF Nobox
    <3> QED
      BY <2>4, <3>1
  <2>6. ASSUME active # "none", Sent PROVE sent = 1
    <3>1. Requested(outbox) \in {{1}, {2}}
      BY <2>3, <2>6 DEF Sent
    <3> QED
      BY <2>4, <3>1
  <2>7. Len(<< >>) = 0 /\ Len(<<active>>) = 1
    OBVIOUS
  <2> HIDE DEF sent
  <2>8. sent + Len(inbox) + (IF worker.busy = "none" THEN 0 ELSE 1) <= 1
    <3>1. \/ sent = 0 /\ inbox = << >>
          \/ sent = 1 /\ inbox = << >> /\ worker.busy = "none"
          \/ sent = 0 /\ worker.busy = "none" /\ inbox = <<active>>
      BY <1>1, <2>5, <2>6 DEF OneMessage, Unsent, Sent, Busy, Told
    <3> DEFINE size == Len(inbox)
    <3>2. \/ sent = 0 /\ size = 0
          \/ sent = 1 /\ size = 0 /\ worker.busy = "none"
          \/ sent = 0 /\ worker.busy = "none" /\ size = 1
      BY <2>7, <3>1
    <3> HIDE DEF size
    <3>3. sent + size + (IF worker.busy = "none" THEN 0 ELSE 1) <= 1
      BY <3>2
    <3> QED
      BY <3>3 DEF size
  <2> QED
    BY <2>8 DEF sent, Requested, Vitest!OneAtATime, Vitest!Close, Vitest!Cardinality, Cardinality
<1>4. Vitest!OutputIsItsOwn
  BY <1>1 DEF Vitest!OutputIsItsOwn, OneMessage, Unsent, Sent, Busy, Told
<1>5. Vitest!NoneForgotten
  <2>1. DOMAIN queue = 1 .. Len(queue)
    BY <1>1 DEF SessionTypes
  <2> QED
    BY <1>1, <2>1 DEF QueueIsSound, In, Vitest!NoneForgotten
<1>6. Vitest!CrashFailsOne
  <2>1. Cardinality(Exited) + Failing <= crashes + Cardinality(Aborted)
        /\ Failing \in 0 .. 1 /\ crashes \in Int
    BY <1>1, SessionAssumption DEF SessionInv, SessionTypes, Failing
  <2>2. Cardinality(Exited) <= crashes + Cardinality(Aborted)
    BY <2>1, OutcomesAreFinite
  <2> QED
    BY <2>2 DEF Vitest!CrashFailsOne, Exited, Aborted, Vitest!Cardinality, Cardinality
<1> QED
  BY <1>2, <1>3, <1>4, <1>5, <1>6

\* Only a request that waits becomes active: one that was aborted meanwhile does not.
LEMMA SessionSteps ==
  ASSUME SessionInv, Vitest!Next
  PROVE  Vitest!AbortedNeverSent
<1> USE DEF Vitest!None
<1>1. SessionTypes /\ QueueIsSound /\ OneMessage
  BY DEF SessionInv
<1>2. queue \in Seq(TestRuns)
  BY <1>1 DEF SessionTypes
<1>3. ASSUME NEW q \in Seq(TestRuns), NEW w, NEW box, NEW x,
             Vitest!dispatch(q, x, w, box)
      PROVE  active' = x \/ active' \in In(q)
  BY <1>3, HeadOfQueue DEF Vitest!dispatch
<1>4. \/ active' \in {active, "none"} \/ active' \in In(queue)
      \/ \E r \in TestRuns : active' = r /\ request[r] = "new"
  <2>1. ASSUME NEW r \in TestRuns, Vitest!run(r)
        PROVE  \/ active' \in {active, "none"} \/ active' \in In(queue)
               \/ active' = r /\ request[r] = "new"
    <3>1. <<r>> \in Seq(TestRuns) /\ In(<<r>>) = {r}
      BY InShort
    <3>2. Append(queue, r) \in Seq(TestRuns) /\ In(Append(queue, r)) = In(queue) \cup {r}
      BY <1>2, EndOfQueue
    <3> QED
      BY <1>3, <2>1, <3>1, <3>2 DEF Vitest!run
  <2>2. ASSUME NEW r \in TestRuns, Vitest!runAborted(r) \/ Vitest!abort(r)
        PROVE  active' = active
    BY <2>2 DEF Vitest!runAborted, Vitest!abort
  <2>3. ASSUME Vitest!Session
        PROVE  active' \in {active, "none"} \/ active' \in In(queue)
    BY <1>2, <1>3, <2>3 DEF Vitest!Session, Vitest!onMessage, Vitest!exited, Vitest!Fail
  <2>4. ASSUME \/ Vitest!close \/ Vitest!closeTimer \/ Vitest!nopoExits
               \/ Vitest!Process \/ Vitest!dies \/ Vitest!crash
        PROVE  active' = active
    BY <2>4 DEF Vitest!close, Vitest!closeTimer, Vitest!nopoExits, Vitest!Process,
       Vitest!handle, Vitest!answers, Vitest!shutdown, Vitest!dies, Vitest!crash, Vitest!Ends
  <2> QED
    BY <2>1, <2>2, <2>3, <2>4 DEF Vitest!Next
<1> QED
  BY <1>1, <1>4, SessionAssumption DEF QueueIsSound, Vitest!AbortedNeverSent

-----------------------------------------------------------------------------
(* The commands that run side by side. *)

pool    == v1
stage   == v2
exit    == v3
child   == v4
failure == v5
ended   == v6

USE DEF pool, stage, exit, child, failure, ended

PP == INSTANCE SlotPoolProofs WITH
  Clients <- Crowd, RawBudget <- CrowdBudget, Wants <- CrowdWants, pool <- v1

Holding(p) == Crowded!P!Holders(p)
Known(p)   == Crowded!P!Holders(p) \cup Crowded!P!Waiting(p)

\* The instance of SlotPool and the instance of its proofs define the same.
LEMMA SamePool ==
  /\ Crowded!P!Budget = PP!Budget /\ Crowded!P!Pool = PP!Pool
  /\ Crowded!P!EmptyPool = PP!EmptyPool
  /\ \A p : /\ Crowded!P!Holders(p) = PP!Holders(p) /\ Crowded!P!Waiting(p) = PP!Waiting(p)
            /\ Crowded!P!Used(p) = PP!Used(p)
  /\ \A g : Crowded!P!Slots(g) = PP!Slots(g)
BY DEF Crowded!P!Budget, PP!Budget, Crowded!P!AtLeastOne, PP!AtLeastOne, Crowded!P!Pool,
       PP!Pool, Crowded!P!Waiter, PP!Waiter, Crowded!P!EmptyPool, PP!EmptyPool,
       Crowded!P!Holders, PP!Holders, Crowded!P!Waiting, PP!Waiting,
       Crowded!P!Used, PP!Used, Crowded!P!Slots, PP!Slots, Crowded!P!Cardinality,
       PP!Cardinality

LEMMA SameDrain == \A p : Crowded!P!Drain(p) = PP!Drain(p)
BY DEF Crowded!P!Drain, PP!Drain, Crowded!P!DrainRun, PP!DrainRun,
       Crowded!P!Iteration, PP!Iteration, Crowded!P!RawPool, PP!RawPool,
       Crowded!P!CanServe, PP!CanServe, Crowded!P!Share, PP!Share,
       Crowded!P!Available, PP!Available, Crowded!P!Used, PP!Used, Crowded!P!Slots, PP!Slots,
       Crowded!P!Budget, PP!Budget, Crowded!P!AtLeastOne, PP!AtLeastOne,
       Crowded!P!Smaller, PP!Smaller, Crowded!P!FairShare, PP!FairShare,
       Crowded!P!Interested, PP!Interested, Crowded!P!Holders, PP!Holders,
       Crowded!P!ServeHead, PP!ServeHead, Crowded!P!Cardinality, PP!Cardinality

LEMMA SameRequest ==
  \A p, c, want : Crowded!P!RequestSlots(p, c, want) = PP!RequestSlots(p, c, want)
BY SameDrain DEF Crowded!P!RequestSlots, PP!RequestSlots, Crowded!P!Enqueue, PP!Enqueue,
                 Crowded!P!AtLeastOne, PP!AtLeastOne

LEMMA SameRelease == \A p, c : Crowded!P!ReleaseSlots(p, c) = PP!ReleaseSlots(p, c)
<1>1. \A s, c : Crowded!P!Without(s, c) = PP!Without(s, c)
  BY DEF Crowded!P!Without, PP!Without
<1> QED
  BY <1>1, SameDrain DEF Crowded!P!ReleaseSlots, PP!ReleaseSlots, Crowded!P!Forget, PP!Forget

\* What SlotPool assumes of its constants holds of these.
LEMMA PoolConstants ==
  /\ PP!IsFiniteSet(Crowd) /\ CrowdBudget \in Int /\ CrowdWants \subseteq Int
BY CrowdAssumption DEF IsFiniteSet, PP!IsFiniteSet

LEMMA SoundPool ==
  ASSUME NEW p, PP!Sound(p)
  PROVE  /\ p \in Crowded!P!Pool /\ Crowded!P!Budget \in Nat
         /\ p.granted \in [Crowd -> 0 .. Crowded!P!Budget]
         /\ Cardinality(Crowded!P!Slots(p.granted)) <= Crowded!P!Budget
<1>1. p \in Crowded!P!Pool /\ Crowded!P!Used(p) <= Crowded!P!Budget
  BY SamePool DEF PP!Sound
<1>2. Crowded!P!Budget \in Nat
  BY PoolConstants, SamePool, PP!BudgetIsPositive
<1> QED
  BY <1>1, <1>2 DEF Crowded!P!Pool, Crowded!P!Used, Crowded!P!Cardinality, Cardinality

LEMMA EmptyPoolSound == PP!Sound(Crowded!P!EmptyPool) /\ Known(Crowded!P!EmptyPool) = {}
BY PoolConstants, SamePool, PP!EmptyPoolIsSound DEF Known, PP!Known

\* Only a grant of one's own changes when one asks for slots or leaves.
LEMMA Requested ==
  ASSUME NEW p, PP!Sound(p), NEW c \in Crowd \ Known(p), NEW want \in Int
  PROVE  LET q == Crowded!P!RequestSlots(p, c, want)
         IN  /\ PP!Sound(q) /\ Known(q) = Known(p) \cup {c}
             /\ \A d \in Holding(p) : d \in Holding(q) /\ q.granted[d] = p.granted[d]
<1> DEFINE q == Crowded!P!RequestSlots(p, c, want)
<1>1. /\ PP!Sound(q) /\ Known(q) = Known(p) \cup {c}
      /\ \A d \in Crowded!P!Holders(p) : q.granted[d] = p.granted[d]
  BY PoolConstants, SamePool, SameRequest, PP!RequestEffect DEF Known, PP!Known
<1> HIDE DEF q
<1>2. \A d \in Holding(p) : d \in Holding(q)
  BY <1>1 DEF Holding, Crowded!P!Holders
<1> QED
  BY <1>1, <1>2 DEF Holding, q

LEMMA Released ==
  ASSUME NEW p, PP!Sound(p), NEW c \in Crowd
  PROVE  LET q == Crowded!P!ReleaseSlots(p, c)
         IN  /\ PP!Sound(q) /\ Known(q) = Known(p) \ {c}
             /\ \A d \in Holding(p) \ {c} : d \in Holding(q) /\ q.granted[d] = p.granted[d]
<1> DEFINE q == Crowded!P!ReleaseSlots(p, c)
<1>1. /\ PP!Sound(q) /\ Known(q) = Known(p) \ {c}
      /\ \A d \in Crowded!P!Holders(p) \ {c} : q.granted[d] = p.granted[d]
  BY PoolConstants, SamePool, SameRelease, PP!ReleaseEffect DEF Known, PP!Known
<1> HIDE DEF q
<1>2. \A d \in Holding(p) \ {c} : d \in Holding(q)
  BY <1>1 DEF Holding, Crowded!P!Holders
<1> QED
  BY <1>1, <1>2 DEF Holding, q

CrowdTypes ==
  /\ PP!Sound(pool)
  /\ stage \in [Crowd -> {"new", "waiting", "running", "over"}]
  /\ exit \in [Crowd -> {-1, 0, 1, 124, 137}]
  /\ child \in [CrowdChildren -> {"none", "alive", "signalled", "ended"}]
  /\ failure \in [Crowd -> {{}, {1}, {137}}]
  /\ ended \in [CrowdChildren -> [code : {-1, 0, 1}, signal : BOOLEAN]]

\* One command: the queue knows it from the ask to its end; before it runs it has
\* no children, and while it runs no more than it was granted; a command that has
\* ended by itself has none left, and one with code 0 has seen all of them pass.
QueuedOne(c) == CrowdKinds[c] = "queued"
Living(c)    == {x \in CrowdSteps[c] : child[x] \in {"alive", "signalled"}}
Clean(x)     == ended[x] = [code |-> 0, signal |-> FALSE]
Books(c) ==
  /\ c \in Known(pool) <=> stage[c] \in {"waiting", "running"} /\ QueuedOne(c)
  /\ stage[c] \in {"new", "waiting"} =>
       failure[c] = {} /\ \A x \in CrowdSteps[c] : child[x] = "none"
  /\ stage[c] # "over" => exit[c] = -1
  /\ stage[c] = "running" /\ QueuedOne(c) =>
       c \in Holding(pool) /\ Cardinality(Living(c)) <= pool.granted[c]
  /\ failure[c] = {} => \A x \in CrowdSteps[c] : child[x] = "ended" => Clean(x)
  /\ exit[c] \in {0, 1, 137} => Living(c) = {}
  /\ exit[c] = 0 => failure[c] = {} /\ \A x \in CrowdSteps[c] : child[x] = "ended"
  /\ exit[c] = 124 => \A x \in CrowdSteps[c] : child[x] # "alive"
CrowdInv == CrowdTypes /\ \A c \in Crowd : Books(c)

\* A step is the step of one command.
LEMMA OwnSteps ==
  /\ \A c, d \in Crowd : c # d => CrowdSteps[c] \cap CrowdSteps[d] = {}
  /\ \A c \in Crowd : CrowdSteps[c] \subseteq CrowdChildren
  /\ Crowded!Children = CrowdChildren
<1>1. \A c, d \in Crowd : c # d => CrowdSteps[c] \cap CrowdSteps[d] = {}
  BY CommandAssumptions DEF Crowded!LifecycleAssumption
<1>2. \A c \in Crowd : CrowdSteps[c] \subseteq CrowdChildren
  BY DEF CrowdChildren
<1> QED
  BY <1>1, <1>2 DEF Crowded!Children, CrowdChildren

LEMMA LivingIsFinite ==
  ASSUME NEW c \in Crowd
  PROVE  IsFiniteSet(Living(c)) /\ Cardinality(Living(c)) \in Nat
<1>1. Living(c) \in SUBSET CrowdSteps[c] /\ IsFiniteSet(CrowdSteps[c])
  BY CrowdAssumption DEF Living
<1> QED
  BY <1>1, FS_Subset, FS_CardinalityType

\* A command that a step does not concern.
LEMMA OthersKept ==
  ASSUME NEW d \in Crowd, Books(d), stage'[d] = stage[d], exit'[d] = exit[d],
         failure'[d] = failure[d],
         \A x \in CrowdSteps[d] : child'[x] = child[x] /\ ended'[x] = ended[x],
         d \in Known(pool') <=> d \in Known(pool),
         d \in Holding(pool) => d \in Holding(pool') /\ pool'.granted[d] = pool.granted[d]
  PROVE  Books(d)'
<1>1. Living(d)' = Living(d)
  BY DEF Living
<1>2. Known(pool)' = Known(pool') /\ Holding(pool)' = Holding(pool')
  BY DEF Known, Holding, Crowded!P!Holders, Crowded!P!Waiting
<1>3. Cardinality(Living(d))' = Cardinality(Living(d))
  BY <1>1
<1>4. \A x \in CrowdSteps[d] : Clean(x)' <=> Clean(x)
  BY DEF Clean
<1> QED
  BY <1>1, <1>2, <1>3, <1>4 DEF Books

LEMMA CrowdInit == Crowded!Init => CrowdInv
<1> SUFFICES ASSUME Crowded!Init PROVE CrowdInv
  OBVIOUS
<1>1. /\ pool = Crowded!P!EmptyPool /\ stage = [c \in Crowd |-> "new"]
      /\ exit = [c \in Crowd |-> -1] /\ child = [x \in CrowdChildren |-> "none"]
      /\ failure = [c \in Crowd |-> {}]
      /\ ended = [x \in CrowdChildren |-> [code |-> -1, signal |-> FALSE]]
  BY OwnSteps DEF Crowded!Init, Crowded!None
<1>2. CrowdTypes
  BY <1>1, EmptyPoolSound DEF CrowdTypes
<1>3. ASSUME NEW c \in Crowd PROVE Books(c)
  <2>1. \A x \in CrowdSteps[c] : child[x] = "none"
    BY <1>1, OwnSteps
  <2> QED
    BY <1>1, <2>1, EmptyPoolSound DEF Books, Living
<1> QED
  BY <1>2, <1>3 DEF CrowdInv

\* A command begins: it asks for slots, or runs outside of the queue.
LEMMA MainStep ==
  ASSUME CrowdInv, NEW c \in Crowd, Crowded!Main(c)
  PROVE  CrowdInv'
<1>1. CrowdTypes /\ Books(c)
  BY DEF CrowdInv
<1>2. /\ stage[c] = "new" /\ exit' = exit /\ child' = child /\ failure' = failure
      /\ ended' = ended
      /\ \/ /\ QueuedOne(c) /\ stage' = [stage EXCEPT ![c] = "waiting"]
            /\ \E want \in CrowdWants : pool' = Crowded!P!RequestSlots(pool, c, want)
         \/ /\ ~QueuedOne(c) /\ stage' = [stage EXCEPT ![c] = "running"] /\ pool' = pool
  BY DEF Crowded!Main, Crowded!Queues, QueuedOne
<1>3. c \notin Known(pool)
  BY <1>1, <1>2 DEF Books
<1>4. /\ PP!Sound(pool')
      /\ Known(pool') = Known(pool) \cup (IF QueuedOne(c) THEN {c} ELSE {})
      /\ \A d \in Holding(pool) : d \in Holding(pool') /\ pool'.granted[d] = pool.granted[d]
  BY <1>1, <1>2, <1>3, Requested, CrowdAssumption DEF CrowdTypes
<1>5. Known(pool)' = Known(pool') /\ Holding(pool)' = Holding(pool') /\ PP!Sound(pool)'
  BY <1>4 DEF Known, Holding, Crowded!P!Holders, Crowded!P!Waiting, PP!Sound
<1>6. CrowdTypes'
  BY <1>1, <1>2, <1>5 DEF CrowdTypes
<1>7. Books(c)'
  <2>1. Living(c)' = Living(c) /\ \A x : Clean(x)' <=> Clean(x)
    BY <1>2 DEF Living, Clean
  <2>2. stage'[c] = IF QueuedOne(c) THEN "waiting" ELSE "running"
    BY <1>1, <1>2 DEF CrowdTypes
  <2>3. (QueuedOne(c))' = QueuedOne(c)
    BY DEF QueuedOne
  <2> QED
    BY <1>1, <1>2, <1>3, <1>4, <1>5, <2>1, <2>2, <2>3 DEF Books
<1>8. ASSUME NEW d \in Crowd, d # c PROVE Books(d)'
  BY <1>1, <1>2, <1>4, <1>8, OthersKept DEF CrowdInv, CrowdTypes
<1> QED
  BY <1>6, <1>7, <1>8 DEF CrowdInv

\* It hears of its grant.
LEMMA GrantedStep ==
  ASSUME CrowdInv, NEW c \in Crowd, Crowded!Granted(c)
  PROVE  CrowdInv'
<1>1. CrowdTypes /\ Books(c)
  BY DEF CrowdInv
<1>2. /\ stage[c] = "waiting" /\ c \in Holding(pool)
      /\ stage' = [stage EXCEPT ![c] = "running"] /\ pool' = pool
      /\ exit' = exit /\ child' = child /\ failure' = failure /\ ended' = ended
  BY DEF Crowded!Granted, Holding
<1>3. CrowdTypes'
  <2>1. PP!Sound(pool)'
    BY <1>1, <1>2 DEF CrowdTypes
  <2> QED
    BY <1>1, <1>2, <2>1 DEF CrowdTypes
<1>4. Books(c)'
  <2>1. Living(c)' = Living(c) /\ \A x : Clean(x)' <=> Clean(x)
    BY <1>2 DEF Living, Clean
  <2>2. Living(c) = {} /\ Cardinality({}) = 0
    BY <1>1, <1>2, FS_EmptySet DEF Books, Living
  <2>3. pool.granted[c] >= 0
    BY <1>1, SoundPool DEF CrowdTypes
  <2>4. Known(pool)' = Known(pool) /\ Holding(pool)' = Holding(pool)
        /\ pool'.granted[c] = pool.granted[c] /\ stage'[c] = "running"
    BY <1>1, <1>2 DEF CrowdTypes
  <2>5. Cardinality(Living(c))' = 0
    BY <2>1, <2>2
  <2> QED
    BY <1>1, <1>2, <2>1, <2>2, <2>3, <2>4, <2>5 DEF Books, QueuedOne
<1>5. ASSUME NEW d \in Crowd, d # c PROVE Books(d)'
  BY <1>1, <1>2, <1>5, OthersKept DEF CrowdInv, CrowdTypes
<1> QED
  BY <1>3, <1>4, <1>5 DEF CrowdInv

\* A step begins: a command has no more children than its grant allows.
LEMMA SpawnStep ==
  ASSUME CrowdInv, NEW c \in Crowd, NEW x \in CrowdSteps[c], Crowded!Spawn(c, x)
  PROVE  CrowdInv'
<1>1. CrowdTypes /\ Books(c) /\ x \in CrowdChildren
  BY OwnSteps DEF CrowdInv
<1>2. /\ stage[c] = "running" /\ child[x] = "none" /\ failure[c] = {}
      /\ child' = [child EXCEPT ![x] = "alive"]
      /\ pool' = pool /\ stage' = stage /\ exit' = exit /\ failure' = failure /\ ended' = ended
  BY DEF Crowded!Spawn
<1>3. QueuedOne(c) => Cardinality(Living(c)) < pool.granted[c]
  <2>1. Crowded!Live(c) = Living(c)
    BY DEF Crowded!Live, Crowded!Alive, Living
  <2>2. Crowded!Cardinality(Crowded!Live(c)) < Crowded!Workers(c)
    BY DEF Crowded!Spawn
  <2> QED
    BY <1>1, <1>2, <2>1, <2>2
       DEF Books, Crowded!Workers, Holding, Crowded!Cardinality, Cardinality
<1>4. CrowdTypes'
  <2>1. PP!Sound(pool)'
    BY <1>1, <1>2 DEF CrowdTypes
  <2> QED
    BY <1>1, <1>2, <2>1 DEF CrowdTypes
<1>5. Books(c)'
  <2>1. Living(c)' = Living(c) \cup {x} /\ \A y : Clean(y)' <=> Clean(y)
    BY <1>1, <1>2, OwnSteps DEF CrowdTypes, Living, Clean
  <2>2. Cardinality(Living(c) \cup {x}) <= Cardinality(Living(c)) + 1
    <3>1. Cardinality(Living(c) \cup {x}) = IF x \in Living(c) THEN Cardinality(Living(c))
                                            ELSE Cardinality(Living(c)) + 1
      BY LivingIsFinite, FS_AddElement
    <3> QED
      BY <3>1, LivingIsFinite
  <2>3. Cardinality(Living(c))' <= Cardinality(Living(c)) + 1
    BY <2>1, <2>2
  <2>4. pool.granted[c] \in Int /\ Cardinality(Living(c)) \in Int
        /\ Cardinality(Living(c))' \in Int
    <3>1. pool.granted[c] \in Int
      BY <1>1, SoundPool DEF CrowdTypes
    <3>2. Cardinality(Living(c) \cup {x}) \in Nat
      BY LivingIsFinite, FS_AddElement, FS_CardinalityType
    <3> QED
      BY <2>1, <3>1, <3>2, LivingIsFinite
  <2>5. QueuedOne(c) => Cardinality(Living(c))' <= pool.granted[c]
    BY <1>3, <2>3, <2>4
  <2>6. Known(pool)' = Known(pool) /\ Holding(pool)' = Holding(pool)
        /\ pool'.granted[c] = pool.granted[c]
    BY <1>2
  <2>7. \A y \in CrowdSteps[c] : child'[y] = IF y = x THEN "alive" ELSE child[y]
    BY <1>1, <1>2, OwnSteps DEF CrowdTypes
  <2>8. exit[c] = -1
    BY <1>1, <1>2 DEF Books
  <2> QED
    BY <1>1, <1>2, <2>1, <2>5, <2>6, <2>7, <2>8 DEF Books, QueuedOne
<1>6. ASSUME NEW d \in Crowd, d # c PROVE Books(d)'
  <2>1. \A y \in CrowdSteps[d] : child'[y] = child[y]
    BY <1>1, <1>2, <1>6, OwnSteps DEF CrowdTypes
  <2> QED
    BY <1>2, <2>1, OthersKept DEF CrowdInv
<1> QED
  BY <1>4, <1>5, <1>6 DEF CrowdInv

\* A step ends, passed, failed or by a signal.
LEMMA ClosesStep ==
  ASSUME CrowdInv, NEW c \in Crowd, NEW x \in CrowdSteps[c], Crowded!Closes(c, x)
  PROVE  CrowdInv'
<1>1. CrowdTypes /\ Books(c) /\ x \in CrowdChildren
  BY OwnSteps DEF CrowdInv
<1>2. /\ child[x] \in {"alive", "signalled"} /\ child' = [child EXCEPT ![x] = "ended"]
      /\ pool' = pool /\ stage' = stage /\ exit' = exit
  BY DEF Crowded!Closes, Crowded!Alive
<1>3. PICK end \in [code : {0, 1}, signal : BOOLEAN] :
        /\ ended' = [ended EXCEPT ![x] = end]
        /\ failure' = [failure EXCEPT ![c] = Crowded!FailureKept(c, x, end)]
  BY DEF Crowded!Closes
<1>4. /\ Crowded!FailureKept(c, x, end) \in {{}, {1}, {137}}
      /\ Crowded!FailureKept(c, x, end) = {}
           => failure[c] = {} /\ end = [code |-> 0, signal |-> FALSE]
  <2>1. failure[c] \in {{}, {1}, {137}}
    BY <1>1 DEF CrowdTypes
  <2>2. Crowded!FailureKept(c, x, end) =
          IF end = [code |-> 0, signal |-> FALSE] \/ failure[c] # {} THEN failure[c]
          ELSE {IF ~end.signal THEN end.code ELSE 137}
    BY <1>1 DEF Crowded!FailureKept, Crowded!ExitCodeOf
  <2>3. end # [code |-> 0, signal |-> FALSE] => end.signal \/ end.code = 1
    OBVIOUS
  <2> QED
    BY <2>1, <2>2, <2>3
<1>5. CrowdTypes'
  <2>1. PP!Sound(pool)'
    BY <1>1, <1>2 DEF CrowdTypes
  <2>2. ended' \in [CrowdChildren -> [code : {-1, 0, 1}, signal : BOOLEAN]]
    BY <1>1, <1>3 DEF CrowdTypes
  <2> QED
    BY <1>1, <1>2, <1>3, <1>4, <2>1, <2>2 DEF CrowdTypes
<1>6. Books(c)'
  <2>1. Living(c)' \in SUBSET Living(c) /\ x \in Living(c)
    BY <1>1, <1>2, OwnSteps DEF CrowdTypes, Living
  <2>2. Cardinality(Living(c)') <= Cardinality(Living(c)) /\ Cardinality(Living(c)') \in Nat
    BY <2>1, LivingIsFinite, FS_Subset, FS_CardinalityType
  <2>3. pool.granted[c] \in Int /\ Cardinality(Living(c)) \in Int
    BY <1>1, SoundPool, LivingIsFinite DEF CrowdTypes
  <2>4. Cardinality(Living(c)) <= pool.granted[c] => Cardinality(Living(c))' <= pool.granted[c]
    BY <2>2, <2>3
  <2>5. Known(pool)' = Known(pool) /\ Holding(pool)' = Holding(pool)
        /\ pool'.granted[c] = pool.granted[c]
    BY <1>2
  <2>6. \A y \in CrowdSteps[c] : /\ child'[y] = IF y = x THEN "ended" ELSE child[y]
                                 /\ ended'[y] = IF y = x THEN end ELSE ended[y]
    BY <1>1, <1>2, <1>3, OwnSteps DEF CrowdTypes
  <2>7. stage[c] \notin {"new", "waiting"} /\ exit[c] \notin {0, 1, 137}
    BY <1>1, <1>2, <2>1 DEF Books
  <2>8. failure'[c] = Crowded!FailureKept(c, x, end)
    BY <1>1, <1>3 DEF CrowdTypes
  <2>9. failure'[c] = {} => \A y \in CrowdSteps[c] : child'[y] = "ended" => Clean(y)'
    BY <1>1, <1>4, <2>6, <2>8 DEF Books, Clean
  <2>10. exit[c] = 124 => \A y \in CrowdSteps[c] : child'[y] # "alive"
    BY <1>1, <2>6 DEF Books
  <2> QED
    BY <1>1, <1>2, <2>4, <2>5, <2>7, <2>9, <2>10 DEF Books, QueuedOne
<1>7. ASSUME NEW d \in Crowd, d # c PROVE Books(d)'
  <2>1. \A y \in CrowdSteps[d] : child'[y] = child[y] /\ ended'[y] = ended[y]
    BY <1>1, <1>2, <1>3, <1>7, OwnSteps DEF CrowdTypes
  <2>2. failure'[d] = failure[d]
    BY <1>1, <1>3, <1>7 DEF CrowdTypes
  <2> QED
    BY <1>2, <2>1, <2>2, OthersKept DEF CrowdInv
<1> QED
  BY <1>5, <1>6, <1>7 DEF CrowdInv

\* A command leaves with a code that fits what became of its children.
LEMMA LeavesStep ==
  ASSUME CrowdInv, NEW c \in Crowd, stage[c] \in {"waiting", "running"},
         NEW code \in {-1, 0, 1, 124, 137}, Crowded!Leaves(c, code),
         failure' = failure, ended' = ended,
         child' \in [CrowdChildren -> {"none", "alive", "signalled", "ended"}],
         \A y \in CrowdChildren \ CrowdSteps[c] : child'[y] = child[y],
         \A y \in CrowdSteps[c] : child'[y] = "ended" <=> child[y] = "ended",
         code \in {0, 1, 137} => child' = child /\ Living(c) = {},
         code = 0 => failure[c] = {} /\ \A y \in CrowdSteps[c] : child[y] = "ended",
         code = 124 => \A y \in CrowdSteps[c] : child'[y] # "alive"
  PROVE  CrowdInv'
<1>1. CrowdTypes /\ Books(c)
  BY DEF CrowdInv
<1>2. /\ stage' = [stage EXCEPT ![c] = "over"] /\ exit' = [exit EXCEPT ![c] = code]
      /\ pool' = Crowded!P!ReleaseSlots(pool, c)
  BY DEF Crowded!Leaves
<1>3. /\ PP!Sound(pool') /\ Known(pool') = Known(pool) \ {c}
      /\ \A d \in Holding(pool) \ {c} : d \in Holding(pool') /\ pool'.granted[d] = pool.granted[d]
  BY <1>1, <1>2, Released DEF CrowdTypes
<1>4. Known(pool)' = Known(pool') /\ PP!Sound(pool)'
  BY <1>3 DEF Known, Crowded!P!Holders, Crowded!P!Waiting, PP!Sound
<1>5. CrowdTypes'
  BY <1>1, <1>2, <1>4 DEF CrowdTypes
<1>6. Books(c)'
  <2>1. stage'[c] = "over" /\ exit'[c] = code
    BY <1>1, <1>2 DEF CrowdTypes
  <2>2. code \in {0, 1, 137} => Living(c)' = {}
    BY DEF Living
  <2>3. failure'[c] = {} => \A y \in CrowdSteps[c] : child'[y] = "ended" => Clean(y)'
    BY <1>1 DEF Books, Clean
  <2>4. code = 0 => failure'[c] = {} /\ \A y \in CrowdSteps[c] : child'[y] = "ended"
    OBVIOUS
  <2> QED
    BY <1>3, <1>4, <2>1, <2>2, <2>3, <2>4 DEF Books
<1>7. ASSUME NEW d \in Crowd, d # c PROVE Books(d)'
  <2>1. \A y \in CrowdSteps[d] : child'[y] = child[y]
    BY <1>7, OwnSteps
  <2>2. stage'[d] = stage[d] /\ exit'[d] = exit[d]
    BY <1>1, <1>2, <1>7 DEF CrowdTypes
  <2> QED
    BY <1>3, <1>7, <2>1, <2>2, OthersKept DEF CrowdInv
<1> QED
  BY <1>5, <1>6, <1>7 DEF CrowdInv

LEMMA CrowdNext == CrowdInv /\ Crowded!Next => CrowdInv'
<1> SUFFICES ASSUME CrowdInv, Crowded!Next PROVE CrowdInv'
  OBVIOUS
<1>1. CrowdTypes
  BY DEF CrowdInv
<1>2. ASSUME NEW c \in Crowd, Crowded!Finish(c) PROVE CrowdInv'
  <2>1. Living(c) = {} /\ stage[c] = "running" /\ child' = child
        /\ failure' = failure /\ ended' = ended
    BY <1>2 DEF Crowded!Finish, Crowded!Live, Crowded!Alive, Living
  <2> DEFINE code == IF failure[c] = {} THEN 0 ELSE CHOOSE f \in failure[c] : TRUE
  <2>2. Crowded!Leaves(c, code)
    BY <1>2 DEF Crowded!Finish
  <2>3. failure[c] \in {{}, {1}, {137}}
    BY <1>1 DEF CrowdTypes
  <2>4. code \in {0, 1, 137} /\ (code = 0 => failure[c] = {})
    BY <2>3
  <2>5. failure[c] = {} => \A y \in CrowdSteps[c] : child[y] = "ended"
    BY <1>2 DEF Crowded!Finish
  <2>6. child' \in [CrowdChildren -> {"none", "alive", "signalled", "ended"}]
    BY <1>1, <2>1 DEF CrowdTypes
  <2> HIDE DEF code
  <2>7. code \in {-1, 0, 1, 124, 137} /\ code # 124
    BY <2>4
  <2> QED
    BY <2>1, <2>2, <2>4, <2>5, <2>6, <2>7, LeavesStep
<1>3. ASSUME NEW c \in Crowd, Crowded!TimeOut(c) PROVE CrowdInv'
  <2>1. /\ stage[c] = "running" /\ Crowded!Leaves(c, 124)
        /\ failure' = failure /\ ended' = ended
        /\ child' = [y \in CrowdChildren |-> IF y \in Living(c) THEN "signalled" ELSE child[y]]
    <3>1. Crowded!Registered(c) = Living(c)
      BY OwnSteps DEF Crowded!Registered, Crowded!Live, Crowded!Alive, Living
    <3> QED
      BY <1>3, <3>1, OwnSteps DEF Crowded!TimeOut
  <2>2. child' \in [CrowdChildren -> {"none", "alive", "signalled", "ended"}]
    BY <1>1, <2>1 DEF CrowdTypes
  <2>3. \A y \in CrowdChildren \ CrowdSteps[c] : child'[y] = child[y]
    BY <2>1 DEF Living
  <2>4. \A y \in CrowdSteps[c] : /\ child'[y] = "ended" <=> child[y] = "ended"
                                 /\ child'[y] # "alive"
    BY <2>1, OwnSteps DEF Living
  <2> QED
    BY <2>1, <2>2, <2>3, <2>4, LeavesStep
<1>4. ASSUME NEW c \in Crowd, Crowded!Dies(c) PROVE CrowdInv'
  <2>1. /\ stage[c] \in {"waiting", "running"} /\ Crowded!Leaves(c, -1)
        /\ child' = child /\ failure' = failure /\ ended' = ended
    BY <1>4 DEF Crowded!Dies
  <2>2. child' \in [CrowdChildren -> {"none", "alive", "signalled", "ended"}]
    BY <1>1, <2>1 DEF CrowdTypes
  <2> QED
    BY <2>1, <2>2, LeavesStep
<1>5. PICK c \in Crowd :
        \/ Crowded!Main(c) \/ Crowded!Granted(c) \/ Crowded!Finish(c) \/ Crowded!TimeOut(c)
        \/ Crowded!Dies(c) \/ \E x \in CrowdSteps[c] : Crowded!Spawn(c, x) \/ Crowded!Closes(c, x)
  BY DEF Crowded!Next
<1> QED
  BY <1>2, <1>3, <1>4, <1>5, MainStep, GrantedStep, SpawnStep, ClosesStep

\* The slots that are handed out are as many as the living workers, when nobody was
\* stopped: a slot of a command's for each of its children.
LEMMA WorkersHaveSlots ==
  ASSUME CrowdInv, Crowded!NobodyStopped
  PROVE  Cardinality(Crowded!WorkersAlive) <= Crowded!P!Budget
<1> DEFINE S == Crowded!P!Slots(pool.granted)
           T == Crowded!WorkersAlive
           Count(c) == Cardinality(Living(c))
           F == [c \in Crowd |-> CHOOSE f : f \in Surjection(1 .. Count(c), Living(c))]
           R == {s \in S : s[1] \in Crowd /\ s[2] <= Count(s[1])}
           g == [s \in R |-> F[s[1]][s[2]]]
           G == [s \in {s \in R : g[s] \in T} |-> g[s]]
<1>1. PP!Sound(pool) /\ Crowded!P!Budget \in Nat /\ Cardinality(S) <= Crowded!P!Budget
      /\ pool.granted \in [Crowd -> 0 .. Crowded!P!Budget]
  BY SoundPool DEF CrowdInv, CrowdTypes
<1>2. IsFiniteSet(S) /\ Cardinality(S) \in Nat
  <2>1. PP!IsFiniteSet(PP!Slots(pool.granted))
    BY PoolConstants, PP!SlotsAreFinite
  <2>2. IsFiniteSet(S)
    BY <2>1, SamePool DEF IsFiniteSet, PP!IsFiniteSet
  <2> QED
    BY <2>2, FS_CardinalityType
<1>3. ASSUME NEW c \in Crowd
      PROVE  F[c] \in Surjection(1 .. Count(c), Living(c))
  <2>1. ExistsBijection(1 .. Count(c), Living(c))
    BY LivingIsFinite, FS_CardinalityType
  <2>2. \E f : f \in Surjection(1 .. Count(c), Living(c))
    BY <2>1 DEF ExistsBijection, Bijection
  <2> QED
    BY <2>2
<1>4. ASSUME NEW x \in T
      PROVE  \E s \in R : g[s] = x
  <2>1. PICK c \in Crowd : x \in CrowdSteps[c] /\ QueuedOne(c) /\ x \in Living(c)
    BY DEF Crowded!WorkersAlive, Crowded!Alive, QueuedOne, Living
  <2>2. Books(c) /\ stage[c] \in {"new", "waiting", "running", "over"}
    BY DEF CrowdInv, CrowdTypes
  <2>3. stage[c] = "running"
    BY <2>1, <2>2 DEF Books, Living, Crowded!NobodyStopped
  <2>4. Count(c) <= pool.granted[c] /\ pool.granted[c] \in 0 .. Crowded!P!Budget
        /\ Count(c) \in Nat
    BY <1>1, <2>1, <2>2, <2>3, LivingIsFinite DEF Books
  <2> HIDE DEF Count, F
  <2>5. PICK i \in 1 .. Count(c) : F[c][i] = x
    BY <1>3, <2>1 DEF Surjection
  <2>6. i \in 1 .. Crowded!P!Budget /\ i <= pool.granted[c] /\ i <= Count(c)
    BY <1>1, <2>4
  <2>7. <<c, i>> \in R
    BY <2>6 DEF Crowded!P!Slots
  <2> QED
    BY <2>5, <2>7
<1> HIDE DEF R, g
<1>5. R \in SUBSET S
  BY DEF R
<1>6. DOMAIN G \in SUBSET S /\ G \in Surjection(DOMAIN G, T)
  BY <1>4, <1>5 DEF Surjection
<1> HIDE DEF G, S, T
<1>7. IsFiniteSet(DOMAIN G) /\ Cardinality(DOMAIN G) <= Cardinality(S)
  BY <1>2, <1>6, FS_Subset
<1>8. Cardinality(T) <= Cardinality(DOMAIN G) /\ IsFiniteSet(T)
  BY <1>6, <1>7, FS_Surjection
<1>9. Cardinality(T) \in Nat /\ Cardinality(DOMAIN G) \in Nat
  BY <1>7, <1>8, FS_CardinalityType
<1> QED
  BY <1>1, <1>2, <1>7, <1>8, <1>9 DEF T

\* What the invariant says of the commands.
LEMMA CrowdInvGives ==
  ASSUME CrowdInv
  PROVE  /\ Crowded!TypeOK /\ Crowded!SlotsAreOfTheLiving /\ Crowded!TotalWorkersWithinBudget
         /\ Crowded!ExitIsHonest /\ Crowded!TimeoutReachesAll
<1>1. CrowdTypes /\ \A c \in Crowd : Books(c)
  BY DEF CrowdInv
<1>2. \A S : Crowded!Cardinality(S) = Cardinality(S)
  BY DEF Crowded!Cardinality, Cardinality
<1>3. Crowded!TypeOK
  <2>1. \A c \in Crowd : Cardinality(failure[c]) <= 1
    <3>1. \A c \in Crowd : failure[c] \in {{}, {1}, {137}}
      BY <1>1 DEF CrowdTypes
    <3>2. Cardinality({}) = 0 /\ Cardinality({1}) = 1 /\ Cardinality({137}) = 1
      BY FS_EmptySet, FS_Singleton
    <3> QED
      BY <3>1, <3>2
  <2> QED
    BY <1>1, <1>2, <2>1, SoundPool, OwnSteps DEF CrowdTypes, Crowded!TypeOK
<1>4. Crowded!SlotsAreOfTheLiving
  BY <1>1 DEF Books, Known, Holding, QueuedOne, Crowded!SlotsAreOfTheLiving
<1>5. Crowded!TotalWorkersWithinBudget
  BY <1>2, WorkersHaveSlots DEF Crowded!TotalWorkersWithinBudget
<1>6. Crowded!ExitIsHonest
  BY <1>1 DEF Books, Clean, Crowded!ExitIsHonest, Crowded!Passed
<1>7. Crowded!TimeoutReachesAll
  BY <1>1 DEF Books, Crowded!TimeoutReachesAll
<1> QED
  BY <1>3, <1>4, <1>5, <1>6, <1>7

-----------------------------------------------------------------------------
(* The invocation: its scripts, their nodes, the calls of these, and what    *)
(* they leave to be cleaned up.                                              *)

project  == v1
asked    == v2
scripts  == v3
node     == v4
todo     == v5
error    == v6
called   == v7
cleanups == v8
closing  == v9
closed   == v10
over     == v11

USE DEF project, asked, scripts, node, todo, error, called, cleanups, closing, closed, over

ScriptNames == {"env", "plugin", "build", "up", "down", "status"}
NodeNames   == BuildTargets \cup {"pre", "main", "post"}
Callees     == (UNION {Hooks!Names(p.refs) : p \in PluginProjects}) \cup {"env", "host", "throws"}
CalledType    == [script : ScriptNames, node : NodeNames, plugin : Callees,
                runner : {"main", "dependency"}, ok : BOOLEAN, cleans : BOOLEAN]

\* What is left of the scripts of a command line, and those that are over.
ScriptsLeft(l, s) ==
  \/ s = Hooks!ScriptsOf(l)
  \/ Hooks!NeedsBuild(l) /\ s \in {<<"build", "up">>, <<"up">>}
  \/ ~Hooks!NeedsBuild(l) /\ l.command # "plugin" /\ s = <<l.command>>
Behind(l, s) ==
  CASE Head(s) \in {"env", "plugin"} -> {}
    [] Head(s) = "up" /\ Hooks!NeedsBuild(l) -> {"env", "build"}
    [] OTHER -> {"env"}
Now == Head(scripts)

Made(s, x) == {called[i].plugin : i \in {k \in DOMAIN called : called[k].script = s /\ called[k].node = x}}

HooksTypes ==
  /\ project \in PluginProjects /\ Hooks!loadPlugins(project)
  /\ asked \in CommandLines /\ (asked.command = "plugin" => project.refs # << >>)
  /\ ScriptsLeft(asked, scripts)
  /\ node \in [Hooks!Nodes(Now) -> {"waiting", "running", "done", "failed"}]
  /\ todo \in [Hooks!Nodes(Now) -> Seq(Callees)]
  /\ error \in {"none", "error", "output"}
  /\ called \in Seq(CalledType)
  /\ over \in {"running", "disposing", "0", "1", "child's"}

\* The first calls of a sequence are made, and the others are left.
InTheMiddle(C, made, left) ==
  \E k \in 0 .. Len(C) : /\ made = {C[i] : i \in 1 .. k}
                          /\ Len(left) = Len(C) - k
                          /\ \A i \in 1 .. Len(C) - k : left[i] = C[k + i]

\* A node has made the calls that are no longer to do, and waited for its needs.
NodeIsSound(x) ==
  LET C == Hooks!CallsOf(Now, x) IN
  /\ node[x] = "waiting" => Made(Now, x) = {}
  /\ node[x] = "running" =>
       /\ C # Hooks!Refused
       /\ InTheMiddle(C, Made(Now, x), todo[x])
  /\ node[x] = "done" => C # Hooks!Refused /\ Made(Now, x) = In(C)
  /\ node[x] = "failed" => error # "none"
  /\ node[x] # "waiting" => \A y \in Hooks!Needs(Now, x) : node[y] = "done"

CallIsDue(c) ==
  /\ c.script \in Behind(asked, scripts) \cup {Now} /\ c.node \in Hooks!Nodes(c.script)
  /\ Hooks!CallsOf(c.script, c.node) # Hooks!Refused
  /\ c.plugin \in In(Hooks!CallsOf(c.script, c.node))
  /\ ~c.ok => error # "none" /\ c.script = Now /\ node[c.node] = "failed"

PastIsDone ==
  \A s \in Behind(asked, scripts) : \A x \in Hooks!Nodes(s) :
    Hooks!CallsOf(s, x) # Hooks!Refused /\ Made(s, x) = In(Hooks!CallsOf(s, x))

\* One plugin is declared before the other.
Before(u, w) ==
  \E k, m \in DOMAIN project.refs : k < m /\ project.refs[k].name = u /\ project.refs[m].name = w
Consecutive(c, d) ==
  /\ c.script = d.script =>
       /\ Hooks!PhaseRank(c.node) <= Hooks!PhaseRank(d.node)
       /\ c.node = d.node /\ c.node \in {"pre", "post"} => Before(c.plugin, d.plugin)
       /\ ~(c.node = "main" /\ d.node = "main")
  /\ ~c.ok => c.script = "build" /\ d.script = "build" /\ {c.node, d.node} \subseteq BuildTargets
  /\ ~(c.script = "up" /\ d.script = "build")
CallsAreOrdered == \A i, j \in DOMAIN called : i < j => Consecutive(called[i], called[j])

EndsAreSound ==
  /\ over # "running" /\ error = "none" =>
       Len(scripts) = 1 /\ \A x \in Hooks!Nodes(Now) : node[x] = "done"
  /\ over = "0" => error = "none"

\* A cleanup that the invocation's own runner knows of is in one of three places.
Mine == {i \in DOMAIN called : called[i].cleans /\ called[i].runner = "main"}
CleanupsAreSound ==
  /\ cleanups \in [{"main", "dependency"} -> Seq(Nat)]
  /\ closing \in Seq(Nat) /\ closed \in Seq(Nat)
  /\ over = "running" =>
       /\ closing = << >> /\ closed = << >>
       /\ Hooks!IsInjective(cleanups["main"])
       /\ In(cleanups["main"]) \subseteq 1 .. Len(called) /\ Mine \subseteq In(cleanups["main"])
  /\ over = "child's" => closing = << >> /\ closed = << >>
  /\ Hooks!IsInjective(closing \o closed)
  /\ over \in {"disposing", "0", "1"} => Mine \subseteq In(closing) \cup In(closed)
  /\ over \in {"0", "1"} => closing = << >>

HooksInv ==
  /\ HooksTypes
  /\ \A x \in Hooks!Nodes(Now) : NodeIsSound(x)
  /\ \A i \in DOMAIN called : CallIsDue(called[i])
  /\ PastIsDone
  /\ CallsAreOrdered
  /\ EndsAreSound
  /\ CleanupsAreSound

LEMMA InvocationAssumed ==
  /\ \A p \in PluginProjects : /\ p.refs \in Seq(Hooks!Range(p.refs)) /\ Len(p.refs) \in Nat
                               /\ DOMAIN p.refs = 1 .. Len(p.refs)
  /\ \A l \in CommandLines : l.command \in {"build", "up", "down", "status", "plugin"}
  /\ "pre" \notin BuildTargets /\ "main" \notin BuildTargets /\ "post" \notin BuildTargets
BY CommandAssumptions DEF Hooks!InvocationAssumption

LEMMA ScriptsUnfold ==
  ASSUME NEW l \in CommandLines, NEW s, ScriptsLeft(l, s)
  PROVE  /\ s \in Seq(ScriptNames) /\ s # << >> /\ Len(s) \in Nat
         /\ Head(s) \in ScriptNames /\ Head(s) \notin Behind(l, s)
         /\ Behind(l, s) \subseteq ScriptNames
         /\ Len(s) > 1 =>
              /\ ScriptsLeft(l, Tail(s)) /\ Head(Tail(s)) = s[2]
              /\ Behind(l, Tail(s)) = Behind(l, s) \cup {Head(s)}
         /\ Head(s) = "plugin" => l.command = "plugin"
         /\ Len(s) = 1 /\ l.command # "plugin" =>
              Head(s) = l.command /\ (Hooks!NeedsBuild(l) => "build" \in Behind(l, s))
         /\ Head(s) = "build" => "up" \notin Behind(l, s)
<1>1. \/ l.command = "plugin" /\ s = <<"plugin">>
      \/ Hooks!NeedsBuild(l) /\ s = <<"env", "build", "up">>
      \/ Hooks!NeedsBuild(l) /\ s = <<"build", "up">>
      \/ Hooks!NeedsBuild(l) /\ s = <<"up">>
      \/ ~Hooks!NeedsBuild(l) /\ l.command # "plugin" /\ s = <<"env", l.command>>
      \/ ~Hooks!NeedsBuild(l) /\ l.command # "plugin" /\ s = <<l.command>>
  BY DEF ScriptsLeft, Hooks!ScriptsOf
<1>2. l.command \in {"build", "up", "down", "status", "plugin"}
      /\ (Hooks!NeedsBuild(l) => l.command = "up")
  BY InvocationAssumed DEF Hooks!NeedsBuild
<1>3. ASSUME NEW t
      PROVE  /\ Head(t) \in {"env", "plugin"} => Behind(l, t) = {}
             /\ Head(t) = "up" /\ Hooks!NeedsBuild(l) => Behind(l, t) = {"env", "build"}
             /\ Head(t) \notin {"env", "plugin"} /\ ~(Head(t) = "up" /\ Hooks!NeedsBuild(l)) =>
                  Behind(l, t) = {"env"}
  BY DEF Behind
<1>4. CASE l.command = "plugin" /\ s = <<"plugin">>
  BY <1>2, <1>3, <1>4 DEF ScriptNames
<1>5. CASE Hooks!NeedsBuild(l)
  <2>1. ScriptsLeft(l, <<"build", "up">>) /\ ScriptsLeft(l, <<"up">>)
    BY <1>5 DEF ScriptsLeft
  <2>2. CASE s = <<"env", "build", "up">>
    <3>1. Head(s) = "env" /\ Tail(s) = <<"build", "up">> /\ s[2] = "build" /\ Len(s) = 3
          /\ s \in Seq(ScriptNames)
      BY <2>2 DEF ScriptNames
    <3> QED
      BY <1>2, <1>3, <1>5, <2>1, <2>2, <3>1 DEF ScriptNames
  <2>3. CASE s = <<"build", "up">>
    <3>1. Head(s) = "build" /\ Tail(s) = <<"up">> /\ s[2] = "up" /\ Len(s) = 2
          /\ s \in Seq(ScriptNames)
      BY <2>3 DEF ScriptNames
    <3> QED
      BY <1>2, <1>3, <1>5, <2>1, <2>3, <3>1 DEF ScriptNames
  <2>4. CASE s = <<"up">>
    BY <1>2, <1>3, <1>5, <2>4 DEF ScriptNames
  <2> QED
    BY <1>1, <1>2, <1>5, <2>2, <2>3, <2>4
<1>6. CASE ~Hooks!NeedsBuild(l) /\ l.command # "plugin"
  <2>1. ScriptsLeft(l, <<l.command>>)
    BY <1>6 DEF ScriptsLeft
  <2>2. CASE s = <<"env", l.command>>
    <3>1. Head(s) = "env" /\ Tail(s) = <<l.command>> /\ s[2] = l.command /\ Len(s) = 2
          /\ s \in Seq(ScriptNames)
      BY <1>2, <2>2 DEF ScriptNames
    <3> QED
      BY <1>2, <1>3, <1>6, <2>1, <2>2, <3>1 DEF ScriptNames
  <2>3. CASE s = <<l.command>>
    BY <1>2, <1>3, <1>6, <2>3 DEF ScriptNames
  <2> QED
    BY <1>1, <1>6, <2>2, <2>3
<1> QED
  BY <1>1, <1>4, <1>5, <1>6

LEMMA NodesUnfold ==
  ASSUME NEW s
  PROVE  /\ Hooks!Nodes(s) \subseteq NodeNames
         /\ \A x \in Hooks!Nodes(s) : Hooks!Needs(s, x) \subseteq Hooks!Nodes(s)
         /\ \A x \in Hooks!Nodes(s) : x \in {"pre", "post"} \/ x \in Hooks!Main(s)
         /\ "main" \in Hooks!Nodes(s) <=> s # "build"
BY InvocationAssumed DEF NodeNames, Hooks!Nodes, Hooks!Main, Hooks!Needs, Hooks!Phased

\* Nodes of different phases do not run side by side, and those of one do in a
\* build only.
LEMMA EarlierIsDone ==
  ASSUME NEW s, NEW st,
         \A x \in Hooks!Nodes(s) :
           st[x] # "waiting" => \A y \in Hooks!Needs(s, x) : st[y] = "done",
         NEW x \in Hooks!Nodes(s), NEW y \in Hooks!Nodes(s), st[y] # "waiting"
  PROVE  /\ Hooks!PhaseRank(x) < Hooks!PhaseRank(y) => st[x] = "done"
         /\ Hooks!PhaseRank(x) \in Nat
         /\ x # y /\ Hooks!PhaseRank(x) = Hooks!PhaseRank(y) =>
              s = "build" /\ {x, y} \subseteq BuildTargets
<1>1. "done" # "waiting"
  OBVIOUS
<1>2. CASE x = "pre" /\ y = "post" /\ Hooks!Main(s) # {}
  <2>1. PICK m \in Hooks!Main(s) : TRUE
    BY <1>2
  <2>2. m \in Hooks!Nodes(s) /\ m \in Hooks!Needs(s, y) /\ "pre" \in Hooks!Needs(s, m)
    BY <1>2, <2>1, InvocationAssumed DEF Hooks!Nodes, Hooks!Needs, Hooks!Main
  <2>3. st["pre"] = "done"
    BY <2>2
  <2> QED
    BY <1>2, <2>3 DEF Hooks!PhaseRank
<1>3. CASE ~(x = "pre" /\ y = "post" /\ Hooks!Main(s) # {})
  BY <1>3, InvocationAssumed DEF Hooks!Nodes, Hooks!Needs, Hooks!Main, Hooks!PhaseRank
<1> QED
  BY <1>2, <1>3

-----------------------------------------------------------------------------
(* The calls of a node. *)

LEMMA HooksUpToUnfolds ==
  ASSUME NEW p, Len(p) \in Nat, NEW s, NEW x
  PROVE  /\ Hooks!HooksUpTo(p, s, x)[0] = << >>
         /\ \A k \in 0 .. Len(p) - 1 :
              Hooks!HooksUpTo(p, s, x)[k + 1] =
                IF <<x, s>> \in p[k + 1].hooks
                THEN Append(Hooks!HooksUpTo(p, s, x)[k], p[k + 1].name)
                ELSE Hooks!HooksUpTo(p, s, x)[k]
<1> DEFINE N == Len(p)
           Step(q, k) == IF <<x, s>> \in p[k].hooks THEN Append(q, p[k].name) ELSE q
           Body(g, m) == [k \in 0 .. m |-> IF k = 0 THEN << >> ELSE Step(g[k - 1], k)]
           E == {m \in Nat : \E g : g = Body(g, m)}
           R == Hooks!HooksUpTo(p, s, x)
<1>1. R = Body(R, N)
  <2>1. R = CHOOSE g : g = Body(g, N)
    BY DEF Hooks!HooksUpTo
  <2> HIDE DEF Step, R, N
  <2>2. 0 \in E
    <3>1. Body([k \in 0 .. 0 |-> << >>], 0) = [k \in 0 .. 0 |-> << >>]
      OBVIOUS
    <3> QED
      BY <3>1
  <2>3. ASSUME NEW m \in Nat, m \in E
        PROVE  m + 1 \in E
    <3>1. PICK g : g = Body(g, m)
      BY <2>3
    <3> DEFINE h == [k \in 0 .. m + 1 |-> IF k <= m THEN g[k] ELSE Step(g[m], m + 1)]
    <3>2. h = Body(h, m + 1)
      BY <3>1
    <3> HIDE DEF h, Body
    <3>3. \E f : f = Body(f, m + 1)
      BY <3>2
    <3> QED
      BY <3>3
  <2>4. N \in E
    BY <2>2, <2>3, SetInduction DEF N
  <2> QED
    BY <2>1, <2>4
<1> HIDE DEF R, Step, N
<1>2. R[0] = << >>
  BY <1>1 DEF N
<1>3. ASSUME NEW k \in 0 .. N - 1
      PROVE  R[k + 1] = Step(R[k], k + 1)
  <2>1. k + 1 \in 0 .. N /\ k + 1 # 0 /\ (k + 1) - 1 = k
    BY DEF N
  <2> QED
    BY <1>1, <2>1
<1> QED
  BY <1>2, <1>3 DEF R, Step, N

\* The names of the first k plugins that have a hook, and that they are in order.
Having(p, k, s, x) == {p[i].name : i \in {m \in 1 .. k : <<x, s>> \in p[m].hooks}}
Rising(p, k, H) ==
  \A i, j \in 1 .. Len(H) : i < j =>
    \E l, m \in 1 .. k : l < m /\ p[l].name = H[i] /\ p[m].name = H[j]
FiredUpTo(p, k, s, x, H) ==
  H \in Seq(Hooks!Names(p)) /\ In(H) = Having(p, k, s, x) /\ Rising(p, k, H)

LEMMA FiredNext ==
  ASSUME NEW p, Len(p) \in Nat, DOMAIN p = 1 .. Len(p), NEW s, NEW x,
         NEW k \in 0 .. Len(p) - 1, NEW H, FiredUpTo(p, k, s, x, H)
  PROVE  FiredUpTo(p, k + 1, s, x,
                   IF <<x, s>> \in p[k + 1].hooks THEN Append(H, p[k + 1].name) ELSE H)
<1>1. k \in Nat /\ k + 1 \in 1 .. Len(p) /\ 1 .. k + 1 = 1 .. k \cup {k + 1}
  OBVIOUS
<1>2. Rising(p, k + 1, H)
  <2>1. 1 .. k \subseteq 1 .. k + 1
    BY <1>1
  <2> QED
    BY <2>1 DEF FiredUpTo, Rising
<1>3. CASE <<x, s>> \notin p[k + 1].hooks
  <2>1. Having(p, k + 1, s, x) = Having(p, k, s, x)
    BY <1>1, <1>3 DEF Having
  <2> QED
    BY <1>2, <1>3, <2>1 DEF FiredUpTo
<1>4. CASE <<x, s>> \in p[k + 1].hooks
  <2> DEFINE w == p[k + 1].name
             G == Append(H, w)
  <2>1. w \in Hooks!Names(p)
    BY <1>1 DEF Hooks!Names
  <2> HIDE DEF w
  <2>2. /\ H \in Seq(Hooks!Names(p)) /\ G \in Seq(Hooks!Names(p)) /\ Len(H) \in Nat
        /\ Len(G) = Len(H) + 1 /\ G[Len(H) + 1] = w
        /\ \A i \in 1 .. Len(H) : G[i] = H[i]
    BY <2>1 DEF FiredUpTo
  <2> HIDE DEF G
  <2>3. In(G) = In(H) \cup {w}
    BY <2>2 DEF In
  <2>4. Having(p, k + 1, s, x) = Having(p, k, s, x) \cup {w}
    BY <1>1, <1>4 DEF Having, w
  <2>5. Rising(p, k + 1, G)
    <3> SUFFICES ASSUME NEW i \in 1 .. Len(G), NEW j \in 1 .. Len(G), i < j
                 PROVE  \E l, m \in 1 .. k + 1 : l < m /\ p[l].name = G[i] /\ p[m].name = G[j]
      BY DEF Rising
    <3>1. CASE j \in 1 .. Len(H)
      <4>1. i \in 1 .. Len(H)
        BY <2>2, <3>1
      <4>2. PICK l \in 1 .. k + 1, m \in 1 .. k + 1 : l < m /\ p[l].name = H[i] /\ p[m].name = H[j]
        BY <1>2, <3>1, <4>1 DEF Rising
      <4>3. G[i] = H[i] /\ G[j] = H[j]
        BY <2>2, <3>1, <4>1
      <4> QED
        BY <4>2, <4>3
    <3>2. CASE j = Len(H) + 1
      <4>1. i \in 1 .. Len(H)
        BY <2>2, <3>2
      <4>2. H[i] \in Having(p, k, s, x)
        BY <4>1 DEF FiredUpTo, In
      <4>3. PICK l \in 1 .. k : p[l].name = H[i]
        BY <4>2 DEF Having
      <4>4. l < k + 1 /\ l \in 1 .. k + 1 /\ k + 1 \in 1 .. k + 1
        BY <1>1
      <4>5. G[i] = H[i] /\ G[j] = p[k + 1].name
        BY <2>2, <3>2, <4>1 DEF w
      <4> QED
        BY <4>3, <4>4, <4>5
    <3> QED
      BY <2>2, <3>1, <3>2
  <2>6. FiredUpTo(p, k + 1, s, x, G)
    BY <2>2, <2>3, <2>4, <2>5 DEF FiredUpTo
  <2> QED
    BY <1>4, <2>6 DEF G, w
<1> QED
  BY <1>3, <1>4

\* The hooks of a phase rise in the order of declaration, and are all that have it.
LEMMA HooksAreInOrder ==
  ASSUME NEW p, Len(p) \in Nat, DOMAIN p = 1 .. Len(p), NEW s, NEW x
  PROVE  FiredUpTo(p, Len(p), s, x, Hooks!HooksUpTo(p, s, x)[Len(p)])
<1> DEFINE F == Hooks!HooksUpTo(p, s, x)
           T == {k \in Nat : k <= Len(p) => FiredUpTo(p, k, s, x, F[k])}
<1>1. F[0] = << >> /\ \A k \in 0 .. Len(p) - 1 :
        F[k + 1] = IF <<x, s>> \in p[k + 1].hooks THEN Append(F[k], p[k + 1].name) ELSE F[k]
  BY HooksUpToUnfolds
<1> HIDE DEF F
<1>2. 0 \in T
  <2>1. << >> \in Seq(Hooks!Names(p)) /\ In(<< >>) = {} /\ Having(p, 0, s, x) = {} /\ Rising(p, 0, << >>)
    BY DEF In, Having, Rising
  <2> QED
    BY <1>1, <2>1 DEF FiredUpTo
<1>3. ASSUME NEW k \in Nat, k \in T
      PROVE  k + 1 \in T
  <2> SUFFICES ASSUME k + 1 <= Len(p) PROVE FiredUpTo(p, k + 1, s, x, F[k + 1])
    OBVIOUS
  <2>1. k \in 0 .. Len(p) - 1 /\ FiredUpTo(p, k, s, x, F[k])
    BY <1>3
  <2> QED
    BY <1>1, <2>1, FiredNext
<1>4. Nat \subseteq T
  <2> HIDE DEF T
  <2> QED
    BY <1>2, <1>3, SetInduction
<1> QED
  BY <1>4 DEF F

\* An override has an owner, the named one if one is named.
LEMMA OwnerIs ==
  ASSUME NEW p, Len(p) \in Nat, DOMAIN p = 1 .. Len(p), NEW h, NEW named
  PROVE  /\ Hooks!getOverride(p, h, named) \in Hooks!Names(p) \cup {"none", "throws"}
         /\ named # "none" => Hooks!getOverride(p, h, named) \in {named, "throws"}
<1> DEFINE own == {i \in DOMAIN p : h \in p[i].overrides}
           Least(i) == i \in own /\ \A j \in own : i <= j
<1>1. ASSUME own # {} PROVE p[CHOOSE i \in own : \A j \in own : i <= j].name \in Hooks!Names(p)
  <2>1. own \subseteq Nat
    OBVIOUS
  <2>2. \E i \in own : \A j \in own : i <= j
    <3> HIDE DEF own
    <3> QED
      BY <1>1, <2>1, LeastElement
  <2>3. (CHOOSE i \in own : \A j \in own : i <= j) \in own
    <3> HIDE DEF own
    <3> QED
      BY <2>2
  <2> QED
    BY <2>3 DEF Hooks!Names
<1>2. \A i \in own : p[i].name \in Hooks!Names(p)
  BY DEF Hooks!Names
<1> QED
  BY <1>1, <1>2 DEF Hooks!getOverride, Hooks!None, Hooks!Throws

LEMMA CallsOfAre ==
  ASSUME HooksTypes, NEW s \in ScriptNames, s = "plugin" => asked.command = "plugin",
         NEW x \in Hooks!Nodes(s)
  PROVE  LET C == Hooks!CallsOf(s, x) IN
         /\ C \in Seq(Callees) /\ Len(C) \in Nat
         /\ C # Hooks!Refused =>
              /\ x \in {"pre", "post"} =>
                   FiredUpTo(project.refs, Len(project.refs), s, x, C)
              /\ x \in Hooks!Main(s) => Len(C) = 1
              /\ x = "main" /\ s \in Hooks!Phased =>
                   LET named == Hooks!resolveRuntimePlugin(project, asked.runtime)
                   IN  named # "throws" /\ (named # "none" => C[1] = named)
<1> DEFINE C == Hooks!CallsOf(s, x)
           P == project.refs
           named == Hooks!resolveRuntimePlugin(project, asked.runtime)
           F == Hooks!HooksUpTo(P, s, x)[Len(P)]
<1>1. Len(P) \in Nat /\ DOMAIN P = 1 .. Len(P) /\ Hooks!Names(P) \subseteq Callees
      /\ {"env", "host", "throws"} \subseteq Callees
  <2>1. P \in {p.refs : p \in PluginProjects}
    BY DEF HooksTypes
  <2>2. Hooks!Names(P) \in {Hooks!Names(p.refs) : p \in PluginProjects}
    BY DEF HooksTypes
  <2> QED
    BY <2>1, <2>2, InvocationAssumed DEF HooksTypes, Callees
<1>2. FiredUpTo(P, Len(P), s, x, F)
  BY <1>1, HooksAreInOrder
<1>3. F \in Seq(Callees)
  BY <1>1, <1>2 DEF FiredUpTo
<1>4. \A h, o \in {"build", "up", "down", "status", "run"} \cup {s} :
        /\ Hooks!getOverride(P, h, "none") \in Hooks!Names(P) \cup {"none", "throws"}
        /\ Hooks!getOverride(P, h, named) \in Hooks!Names(P) \cup {"none", "throws"}
        /\ named # "none" => Hooks!getOverride(P, h, named) \in {named, "throws"}
  BY <1>1, OwnerIs
<1>5. /\ \/ C = Hooks!Refused
         \/ x \in {"pre", "post"} /\ C = F
         \/ x \notin {"pre", "post"} /\ s \in {"env", "plugin", "build"} /\ \E u \in Callees : C = <<u>>
         \/ /\ x \notin {"pre", "post"} /\ s \notin {"env", "plugin", "build"}
            /\ named # "throws" /\ \E u \in Callees : C = <<u>> /\ (named # "none" => u = named)
  <2>1. CASE s = "env"
    BY <1>1, <2>1 DEF Hooks!CallsOf, Hooks!Nodes, Hooks!Main, Hooks!Phased
  <2>2. CASE s = "plugin"
    <3>1. 1 \in DOMAIN P
      BY <1>1, <2>2 DEF HooksTypes
    <3>2. P[1].name \in Hooks!Names(P)
      BY <3>1 DEF Hooks!Names
    <3> QED
      BY <1>1, <2>2, <3>2 DEF Hooks!CallsOf, Hooks!Nodes, Hooks!Main, Hooks!Phased,
         Hooks!PluginCommand, Hooks!Plugins
  <2>3. CASE s \notin {"env", "plugin"} /\ x \in {"pre", "post"}
    <3>1. C = Hooks!Refused \/ C = F
      BY <2>3 DEF Hooks!CallsOf, Hooks!Hooks, Hooks!Plugins, Hooks!Unresolved, Hooks!Phased, ScriptNames
    <3> HIDE DEF C, F, named
    <3> QED
      BY <2>3, <3>1
  <2>4. CASE s = "build" /\ x \notin {"pre", "post"}
    <3>1. C = <<IF Hooks!getOverride(P, "build", "none") = "none" THEN "host"
                ELSE Hooks!getOverride(P, "build", "none")>>
      BY <2>4 DEF Hooks!CallsOf, Hooks!Plugins, Hooks!None
    <3> HIDE DEF C
    <3> QED
      BY <1>1, <1>4, <2>4, <3>1
  <2>5. CASE s \notin {"env", "plugin", "build"} /\ x \notin {"pre", "post"}
    <3>1. C = Hooks!Refused \/ C = Hooks!Override(s)
      BY <2>5 DEF Hooks!CallsOf, Hooks!Unresolved, Hooks!Phased
    <3>2. Hooks!Override(s) = Hooks!Refused
          \/ /\ named # "throws" /\ Hooks!getOverride(P, s, named) \notin {"none", "throws"}
             /\ Hooks!Override(s) = <<Hooks!getOverride(P, s, named)>>
      BY DEF Hooks!Override, Hooks!Plugins, Hooks!None, Hooks!Throws
    <3> HIDE DEF C, named
    <3> QED
      BY <1>1, <1>4, <2>5, <3>1, <3>2
  <2> QED
    BY <2>1, <2>2, <2>3, <2>4, <2>5
<1>6. x \in Hooks!Main(s) => x \notin {"pre", "post"}
  BY InvocationAssumed DEF Hooks!Main
<1>7. s = "build" => x # "main"
  BY InvocationAssumed DEF Hooks!Nodes, Hooks!Main, Hooks!Phased
<1>8. Hooks!Refused \in Seq(Callees)
  BY <1>1 DEF Hooks!Refused, Hooks!Throws
<1> HIDE DEF C, named, F
<1>9. C \in Seq(Callees)
  <2>1. \A u \in Callees : <<u>> \in Seq(Callees)
    OBVIOUS
  <2> QED
    BY <1>3, <1>5, <1>8, <2>1
<1> QED
  BY <1>2, <1>5, <1>6, <1>7, <1>9 DEF C, named, F, Hooks!Phased

LEMMA CallsOfStay ==
  ASSUME project' = project, asked' = asked
  PROVE  \A s, x : Hooks!CallsOf(s, x)' = Hooks!CallsOf(s, x)
BY DEF Hooks!CallsOf, Hooks!Override, Hooks!Plugins, Hooks!Hooks, Hooks!PluginCommand, Hooks!Unresolved

-----------------------------------------------------------------------------
(* What a step that makes no call leaves as it was. *)

LEMMA QuietSteps ==
  ASSUME HooksInv, project' = project, asked' = asked, called' = called
  PROVE  /\ \A s, x : Hooks!CallsOf(s, x)' = Hooks!CallsOf(s, x)
         /\ \A s, x : Made(s, x)' = Made(s, x)
         /\ CallsAreOrdered'
         /\ scripts' = scripts => PastIsDone'
         /\ UNCHANGED <<cleanups, closing, closed, over>> => CleanupsAreSound'
<1>1. \A s, x : Hooks!CallsOf(s, x)' = Hooks!CallsOf(s, x)
  BY CallsOfStay
<1>2. \A s, x : Made(s, x)' = Made(s, x)
  BY DEF Made
<1>3. CallsAreOrdered'
  BY DEF HooksInv, CallsAreOrdered, Consecutive, Before
<1>4. scripts' = scripts => PastIsDone'
  BY <1>1, <1>2 DEF HooksInv, PastIsDone, Behind, Now
<1>5. UNCHANGED <<cleanups, closing, closed, over>> => CleanupsAreSound'
  BY DEF HooksInv, CleanupsAreSound, Mine
<1> QED
  BY <1>1, <1>2, <1>3, <1>4, <1>5

LEMMA ScriptsAre ==
  ASSUME HooksTypes
  PROVE  /\ Now \in ScriptNames /\ (Now = "plugin" => asked.command = "plugin")
         /\ Now \notin Behind(asked, scripts) /\ Behind(asked, scripts) \subseteq ScriptNames
         /\ scripts \in Seq(ScriptNames) /\ scripts # << >> /\ Len(scripts) \in Nat
BY ScriptsUnfold DEF HooksTypes, Now

LEMMA StartNodeKeepsHooks ==
  ASSUME HooksInv, NEW x, Hooks!StartNode(x)
  PROVE  HooksInv'
<1> DEFINE C == Hooks!CallsOf(Now, x)
<1>1. /\ over = "running" /\ x \in Hooks!Nodes(Now) /\ node[x] = "waiting" /\ error = "none"
      /\ \A y \in Hooks!Needs(Now, x) : node[y] = "done"
      /\ project' = project /\ asked' = asked /\ called' = called
      /\ scripts' = scripts /\ Now' = Now
      /\ UNCHANGED <<cleanups, closing, closed, over>>
  BY DEF HooksInv, HooksTypes, Hooks!StartNode, Hooks!Script, Now, Hooks!None
<1>2. \/ /\ C = Hooks!Refused /\ node' = [node EXCEPT ![x] = "failed"]
         /\ error' = "error" /\ todo' = todo
      \/ /\ C # Hooks!Refused /\ node' = [node EXCEPT ![x] = "running"]
         /\ error' = error /\ todo' = [todo EXCEPT ![x] = C]
  BY <1>1 DEF Hooks!StartNode, Hooks!Failed, Hooks!Script, Now, Hooks!None
<1>3. C \in Seq(Callees) /\ Len(C) \in Nat
  BY <1>1, ScriptsAre, CallsOfAre DEF HooksInv
<1>4. C' = C /\ \A y : Hooks!CallsOf(Now, y)' = Hooks!CallsOf(Now, y)
  BY <1>1, QuietSteps
<1>5. \A y : Made(Now, y)' = Made(Now, y)
  BY <1>1, QuietSteps
<1> HIDE DEF C
<1>6. /\ node' \in [Hooks!Nodes(Now) -> {"waiting", "running", "done", "failed"}]
      /\ todo' \in [Hooks!Nodes(Now) -> Seq(Callees)]
      /\ node'[x] \in {"failed", "running"}
      /\ \A y \in Hooks!Nodes(Now) \ {x} : node'[y] = node[y] /\ todo'[y] = todo[y]
  BY <1>1, <1>2, <1>3 DEF HooksInv, HooksTypes
<1>7. HooksTypes'
  BY <1>1, <1>2, <1>6 DEF HooksInv, HooksTypes
<1>8. \A y \in Hooks!Nodes(Now) : node[y] = "done" => node'[y] = "done"
  BY <1>1, <1>6
<1>9. ASSUME NEW y \in Hooks!Nodes(Now)
      PROVE  NodeIsSound(y)'
  <2>1. NodeIsSound(y) /\ Hooks!Needs(Now, y) \subseteq Hooks!Nodes(Now)
    BY NodesUnfold DEF HooksInv
  <2>2. CASE y # x
    <3>1. node'[y] = node[y] /\ todo'[y] = todo[y]
      BY <1>6, <2>2
    <3>2. error # "none" => error' # "none"
      BY <1>1
    <3> QED
      BY <1>1, <1>4, <1>5, <1>8, <2>1, <3>1, <3>2 DEF NodeIsSound
  <2>3. CASE y = x /\ C # Hooks!Refused
    <3>1. node'[x] = "running" /\ todo'[x] = C /\ Made(Now, x)' = {}
      BY <1>1, <1>2, <1>5, <2>1, <2>3 DEF NodeIsSound, HooksInv, HooksTypes
    <3>2. InTheMiddle(C, {}, C)
      <4>1. /\ 0 \in 0 .. Len(C) /\ {C[i] : i \in 1 .. 0} = {} /\ Len(C) - 0 = Len(C)
            /\ \A i \in 1 .. Len(C) - 0 : C[i] = C[0 + i]
        BY <1>3
      <4> QED
        BY <4>1 DEF InTheMiddle
    <3>3. C' # Hooks!Refused
      BY <1>4, <2>3
    <3>4. \A z \in Hooks!Needs(Now, x) : node'[z] = "done"
      BY <1>1, <1>8, <2>1, <2>3
    <3> QED
      BY <1>1, <1>4, <2>3, <3>1, <3>2, <3>3, <3>4 DEF NodeIsSound, C
  <2>4. CASE y = x /\ C = Hooks!Refused
    <3>1. node'[x] = "failed" /\ error' # "none"
      BY <1>1, <1>2, <2>4 DEF HooksInv, HooksTypes
    <3>2. \A z \in Hooks!Needs(Now, x) : node'[z] = "done"
      BY <1>1, <1>8, <2>1, <2>4
    <3> QED
      BY <1>1, <2>4, <3>1, <3>2 DEF NodeIsSound
  <2> QED
    BY <2>2, <2>3, <2>4
<1>10. \A i \in DOMAIN called : CallIsDue(called[i])'
  <2> SUFFICES ASSUME NEW i \in DOMAIN called PROVE CallIsDue(called[i])'
    OBVIOUS
  <2>1. CallIsDue(called[i]) /\ called[i].ok
    BY <1>1 DEF HooksInv, CallIsDue
  <2>2. Hooks!CallsOf(called[i].script, called[i].node)' = Hooks!CallsOf(called[i].script, called[i].node)
    BY <1>1, QuietSteps
  <2> QED
    BY <1>1, <2>1, <2>2 DEF CallIsDue, Behind, Now
<1>11. EndsAreSound'
  BY <1>1 DEF EndsAreSound
<1> QED
  BY <1>1, <1>7, <1>9, <1>10, <1>11, QuietSteps DEF HooksInv

LEMMA EndNodeKeepsHooks ==
  ASSUME HooksInv, NEW x, Hooks!EndNode(x)
  PROVE  HooksInv'
<1> DEFINE C == Hooks!CallsOf(Now, x)
<1>1. /\ over = "running" /\ x \in Hooks!Nodes(Now) /\ node[x] = "running" /\ todo[x] = << >>
      /\ project' = project /\ asked' = asked /\ called' = called
      /\ scripts' = scripts /\ Now' = Now /\ todo' = todo /\ error' = error
      /\ UNCHANGED <<cleanups, closing, closed, over>>
      /\ node' = [node EXCEPT ![x] = "done"]
  BY DEF HooksInv, HooksTypes, Hooks!EndNode, Hooks!Script, Now
<1>2. C \in Seq(Callees) /\ Len(C) \in Nat
  BY <1>1, ScriptsAre, CallsOfAre DEF HooksInv
<1>3. \A y : Hooks!CallsOf(Now, y)' = Hooks!CallsOf(Now, y)
  BY <1>1, QuietSteps
<1>4. \A y : Made(Now, y)' = Made(Now, y)
  BY <1>1, QuietSteps
<1> HIDE DEF C
<1>5. /\ node' \in [Hooks!Nodes(Now) -> {"waiting", "running", "done", "failed"}]
      /\ node'[x] = "done"
      /\ \A y \in Hooks!Nodes(Now) \ {x} : node'[y] = node[y]
  BY <1>1 DEF HooksInv, HooksTypes
<1>6. HooksTypes'
  BY <1>1, <1>5 DEF HooksInv, HooksTypes
<1>7. C # Hooks!Refused /\ Made(Now, x) = In(C)
  <2>1. NodeIsSound(x)
    BY <1>1 DEF HooksInv
  <2>2. C # Hooks!Refused
    BY <1>1, <2>1 DEF NodeIsSound, C
  <2>3. PICK k \in 0 .. Len(C) : Made(Now, x) = {C[i] : i \in 1 .. k} /\ Len(todo[x]) = Len(C) - k
    BY <1>1, <2>1 DEF NodeIsSound, InTheMiddle, C
  <2>4. k = Len(C)
    BY <1>1, <1>2, <2>3
  <2> QED
    BY <2>2, <2>3, <2>4 DEF In
<1>8. ASSUME NEW y \in Hooks!Nodes(Now)
      PROVE  NodeIsSound(y)'
  <2>1. NodeIsSound(y) /\ Hooks!Needs(Now, y) \subseteq Hooks!Nodes(Now)
    BY NodesUnfold DEF HooksInv
  <2>2. node[y] # "waiting" => \A z \in Hooks!Needs(Now, y) : node'[z] = "done"
    BY <1>5, <2>1 DEF NodeIsSound
  <2>3. CASE y # x
    <3>1. node'[y] = node[y] /\ todo'[y] = todo[y]
      BY <1>1, <1>5, <2>3
    <3> QED
      BY <1>1, <1>3, <1>4, <2>1, <2>2, <3>1 DEF NodeIsSound
  <2>4. CASE y = x
    BY <1>1, <1>3, <1>4, <1>5, <1>7, <2>2, <2>4 DEF NodeIsSound, C
  <2> QED
    BY <2>3, <2>4
<1>9. \A i \in DOMAIN called : CallIsDue(called[i])'
  <2> SUFFICES ASSUME NEW i \in DOMAIN called PROVE CallIsDue(called[i])'
    OBVIOUS
  <2>1. CallIsDue(called[i])
    BY DEF HooksInv
  <2>2. Hooks!CallsOf(called[i].script, called[i].node)' = Hooks!CallsOf(called[i].script, called[i].node)
    BY <1>1, QuietSteps
  <2>3. ~called[i].ok => node'[called[i].node] = "failed"
    BY <1>1, <1>5, <2>1 DEF CallIsDue
  <2> QED
    BY <1>1, <2>1, <2>2, <2>3 DEF CallIsDue, Behind, Now
<1>10. EndsAreSound'
  BY <1>1 DEF EndsAreSound
<1> QED
  BY <1>1, <1>6, <1>8, <1>9, <1>10, QuietSteps DEF HooksInv

LEMMA Appended ==
  ASSUME NEW S, NEW q \in Seq(S), NEW v \in S
  PROVE  /\ Append(q, v) \in Seq(S) /\ Len(q) \in Nat /\ DOMAIN q = 1 .. Len(q)
         /\ DOMAIN Append(q, v) = 1 .. Len(q) + 1 /\ Append(q, v)[Len(q) + 1] = v
         /\ \A i \in 1 .. Len(q) : Append(q, v)[i] = q[i] /\ i \in 1 .. Len(q) + 1
         /\ In(Append(q, v)) = In(q) \cup {v}
         /\ Hooks!IsInjective(q) /\ v \notin In(q) => Hooks!IsInjective(Append(q, v))
<1>1. /\ Append(q, v) \in Seq(S) /\ Len(q) \in Nat /\ DOMAIN q = 1 .. Len(q)
      /\ DOMAIN Append(q, v) = 1 .. Len(q) + 1 /\ Append(q, v)[Len(q) + 1] = v
      /\ Len(Append(q, v)) = Len(q) + 1
      /\ \A i \in 1 .. Len(q) : Append(q, v)[i] = q[i] /\ i \in 1 .. Len(q) + 1
  OBVIOUS
<1> DEFINE r == Append(q, v)
<1> HIDE DEF r
<1>2. In(r) = In(q) \cup {v}
  BY <1>1 DEF In, r
<1>3. Hooks!IsInjective(q) /\ v \notin In(q) => Hooks!IsInjective(r)
  BY <1>1 DEF In, Hooks!IsInjective, r
<1> QED
  BY <1>1, <1>2, <1>3 DEF r

\* What a call d of a plugin does, from a node whose calls are C.
IsCall(x, o, m, C, d) ==
  /\ over = "running" /\ x \in Hooks!Nodes(Now) /\ node[x] = "running"
  /\ C # Hooks!Refused /\ C \in Seq(Callees) /\ Len(C) \in Nat
  /\ project' = project /\ asked' = asked /\ scripts' = scripts
  /\ UNCHANGED <<closing, closed, over>>
  /\ called' = Append(called, d) /\ d \in CalledType
  /\ d.script = Now /\ d.node = x /\ d.ok = (o = "ok") /\ d.cleans = m
  /\ cleanups' = IF m THEN [cleanups EXCEPT ![d.runner] = Append(@, Len(called) + 1)]
                 ELSE cleanups
  /\ \E k \in 0 .. Len(C) - 1 :
       /\ Made(Now, x) = {C[i] : i \in 1 .. k} /\ d.plugin = C[k + 1]
       /\ IF o = "ok"
          THEN /\ node' = node /\ error' = error
               /\ \E t : /\ todo' = [todo EXCEPT ![x] = t] /\ t \in Seq(Callees)
                         /\ InTheMiddle(C, {C[i] : i \in 1 .. k} \cup {C[k + 1]}, t)
          ELSE /\ node' = [node EXCEPT ![x] = "failed"]
               /\ error' \in {"error", "output"}
               /\ todo' = [todo EXCEPT ![x] = << >>]

LEMMA CallIs ==
  ASSUME HooksInv, NEW x, NEW o \in {"ok", "error", "output"}, NEW m \in BOOLEAN,
         Hooks!Call(x, o, m)
  PROVE  IsCall(x, o, m, Hooks!CallsOf(Now, x), called'[Len(called')])
<1> DEFINE C == Hooks!CallsOf(Now, x)
           w == Head(todo[x])
           r == Hooks!RunnerOf(Now, asked)
           made == [script |-> Now, node |-> x, plugin |-> w, runner |-> r,
                   ok |-> o = "ok", cleans |-> m]
<1>1. /\ over = "running" /\ x \in Hooks!Nodes(Now) /\ node[x] = "running" /\ todo[x] # << >>
      /\ project' = project /\ asked' = asked /\ scripts' = scripts
      /\ UNCHANGED <<closing, closed, over>>
      /\ called' = Append(called, made)
      /\ cleanups' = IF m THEN [cleanups EXCEPT ![r] = Append(@, Len(called'))] ELSE cleanups
  BY DEF HooksInv, HooksTypes, Hooks!Call, Hooks!Script, Now
<1>2. IF o = "ok"
      THEN /\ node' = node /\ error' = error
           /\ todo' = [todo EXCEPT ![x] = Tail(todo[x])]
      ELSE /\ node' = [node EXCEPT ![x] = "failed"]
           /\ error' \in {"error", "output"}
           /\ todo' = [todo EXCEPT ![x] = << >>]
  BY <1>1 DEF HooksInv, HooksTypes, Hooks!Call, Hooks!Failed, Hooks!None
<1>3. C \in Seq(Callees) /\ Len(C) \in Nat
  BY <1>1, ScriptsAre, CallsOfAre DEF HooksInv
<1>4. C # Hooks!Refused /\ InTheMiddle(C, Made(Now, x), todo[x])
  BY <1>1 DEF HooksInv, NodeIsSound
<1> HIDE DEF C
<1>5. todo[x] \in Seq(Callees)
  BY <1>1 DEF HooksInv, HooksTypes
<1>6. PICK k \in 0 .. Len(C) : /\ Made(Now, x) = {C[i] : i \in 1 .. k}
                               /\ Len(todo[x]) = Len(C) - k
                               /\ \A i \in 1 .. Len(C) - k : todo[x][i] = C[k + i]
  BY <1>4 DEF InTheMiddle
<1>7. /\ k \in 0 .. Len(C) - 1 /\ k \in Nat /\ w = C[k + 1] /\ w \in Callees
      /\ Tail(todo[x]) \in Seq(Callees) /\ Len(Tail(todo[x])) = Len(C) - (k + 1)
      /\ \A i \in 1 .. Len(C) - (k + 1) : Tail(todo[x])[i] = todo[x][i + 1]
  <2>1. Len(todo[x]) > 0 /\ k \in 0 .. Len(C) - 1 /\ 1 \in 1 .. Len(C) - k
    BY <1>1, <1>3, <1>5, <1>6
  <2>2. w = todo[x][1]
    BY <1>5, <2>1
  <2> QED
    BY <1>3, <1>5, <1>6, <2>1, <2>2
<1>8. InTheMiddle(C, {C[i] : i \in 1 .. k} \cup {C[k + 1]}, Tail(todo[x]))
  <2>1. 1 .. k + 1 = 1 .. k \cup {k + 1} /\ k + 1 \in 0 .. Len(C)
    <3>1. k \in Nat /\ k + 1 \in 0 .. Len(C)
      BY <1>3, <1>7
    <3>2. 1 .. k + 1 = 1 .. k \cup {k + 1}
      BY <3>1
    <3> QED
      BY <3>1, <3>2
  <2>2. {C[i] : i \in 1 .. k + 1} = {C[i] : i \in 1 .. k} \cup {C[k + 1]}
    BY <2>1
  <2>3. \A i \in 1 .. Len(C) - (k + 1) : Tail(todo[x])[i] = C[(k + 1) + i]
    <3> TAKE i \in 1 .. Len(C) - (k + 1)
    <3>1. i + 1 \in 1 .. Len(C) - k /\ k + (i + 1) = (k + 1) + i
      BY <1>3, <1>7
    <3> QED
      BY <1>6, <1>7, <3>1
  <2> QED
    BY <1>7, <2>1, <2>2, <2>3 DEF InTheMiddle
<1>9. made \in CalledType
  <2>1. Now \in ScriptNames /\ x \in NodeNames /\ r \in {"main", "dependency"}
    BY <1>1, ScriptsAre, NodesUnfold DEF HooksInv, Hooks!RunnerOf
  <2> HIDE DEF w, r
  <2> QED
    BY <1>7, <2>1 DEF CalledType
<1> HIDE DEF made
<1>10. called \in Seq(CalledType)
  BY DEF HooksInv, HooksTypes
<1>11. Len(called') = Len(called) + 1 /\ called'[Len(called')] = made
  BY <1>1, <1>9, <1>10
<1>12. /\ made.script = Now /\ made.node = x /\ made.ok = (o = "ok") /\ made.cleans = m
       /\ made.runner = r /\ made.plugin = w
  BY DEF made
<1> HIDE DEF w, r
<1> QED
  BY <1>1, <1>2, <1>3, <1>4, <1>6, <1>7, <1>8, <1>9, <1>11, <1>12 DEF C, IsCall

LEMMA CallKeepsHooks ==
  ASSUME HooksInv, NEW x, NEW o \in {"ok", "error", "output"}, NEW m \in BOOLEAN,
         Hooks!Call(x, o, m)
  PROVE  HooksInv'
<1> DEFINE N == Len(called)
<1>1. PICK C : C = Hooks!CallsOf(Now, x)
  OBVIOUS
<1>2. PICK d : d = called'[Len(called')]
  OBVIOUS
<1>3. /\ over = "running" /\ x \in Hooks!Nodes(Now) /\ node[x] = "running"
      /\ C # Hooks!Refused /\ C \in Seq(Callees) /\ Len(C) \in Nat
      /\ project' = project /\ asked' = asked /\ scripts' = scripts
      /\ UNCHANGED <<closing, closed, over>>
      /\ called' = Append(called, d) /\ d \in CalledType
      /\ d.script = Now /\ d.node = x /\ d.ok = (o = "ok") /\ d.cleans = m
      /\ cleanups' = IF m THEN [cleanups EXCEPT ![d.runner] = Append(@, N + 1)]
                     ELSE cleanups
  <2>1. IsCall(x, o, m, C, d)
    BY <1>1, <1>2, CallIs
  <2> QED
    BY <2>1 DEF IsCall, N
<1>0. Now' = Now
  BY <1>3 DEF Now
<1>4. PICK k \in 0 .. Len(C) - 1 :
         /\ Made(Now, x) = {C[i] : i \in 1 .. k} /\ d.plugin = C[k + 1]
         /\ IF o = "ok"
            THEN /\ node' = node /\ error' = error
                 /\ \E t : /\ todo' = [todo EXCEPT ![x] = t] /\ t \in Seq(Callees)
                           /\ InTheMiddle(C, {C[i] : i \in 1 .. k} \cup {C[k + 1]}, t)
            ELSE /\ node' = [node EXCEPT ![x] = "failed"]
                 /\ error' \in {"error", "output"}
                 /\ todo' = [todo EXCEPT ![x] = << >>]
  <2>1. IsCall(x, o, m, C, d)
    BY <1>1, <1>2, CallIs
  <2> QED
    BY <2>1 DEF IsCall
<1>5. /\ called \in Seq(CalledType) /\ called' \in Seq(CalledType) /\ N \in Nat
      /\ DOMAIN called = 1 .. N /\ DOMAIN called' = 1 .. N + 1
      /\ called'[N + 1] = d /\ \A i \in 1 .. N : called'[i] = called[i]
  BY <1>3, Appended DEF HooksInv, HooksTypes
<1> HIDE DEF N
<1>6. \A s, y : Hooks!CallsOf(s, y)' = Hooks!CallsOf(s, y)
  BY <1>3, CallsOfStay
<1>7. /\ Made(Now, x)' = Made(Now, x) \cup {C[k + 1]}
      /\ \A s, y : s # Now \/ y # x => Made(s, y)' = Made(s, y)
  <2>1. ASSUME NEW s, NEW y
        PROVE  Made(s, y)' = Made(s, y) \cup (IF s = Now /\ y = x THEN {C[k + 1]} ELSE {})
    <3>1. Made(s, y)' = {called'[i].plugin : i \in {j \in 1 .. N + 1 : called'[j].script = s /\ called'[j].node = y}}
      BY <1>5 DEF Made
    <3>2. Made(s, y) = {called[i].plugin : i \in {j \in 1 .. N : called[j].script = s /\ called[j].node = y}}
      BY <1>5 DEF Made
    <3>3. 1 .. N + 1 = 1 .. N \cup {N + 1}
      BY <1>5
    <3>4. d.script = Now /\ d.node = x /\ d.plugin = C[k + 1]
      BY <1>3, <1>4
    <3> QED
      BY <1>5, <3>1, <3>2, <3>3, <3>4
  <2> QED
    BY <1>0, <2>1
<1>8. /\ \A y \in Hooks!Nodes(Now) : y # x => node'[y] = node[y] /\ todo'[y] = todo[y]
      /\ node' \in [Hooks!Nodes(Now) -> {"waiting", "running", "done", "failed"}]
      /\ todo' \in [Hooks!Nodes(Now) -> Seq(Callees)]
      /\ o # "ok" => node'[x] = "failed"
      /\ error' \in {"none", "error", "output"}
      /\ error # "none" \/ o # "ok" => error' # "none"
  <2>1. /\ node \in [Hooks!Nodes(Now) -> {"waiting", "running", "done", "failed"}]
        /\ todo \in [Hooks!Nodes(Now) -> Seq(Callees)] /\ error \in {"none", "error", "output"}
    BY DEF HooksInv, HooksTypes
  <2>2. CASE o = "ok"
    <3>1. PICK t \in Seq(Callees) : todo' = [todo EXCEPT ![x] = t]
      BY <1>4, <2>2
    <3> QED
      BY <1>3, <1>4, <2>1, <2>2, <3>1
  <2>3. CASE o # "ok"
    <3>1. << >> \in Seq(Callees)
      OBVIOUS
    <3> QED
      BY <1>3, <1>4, <2>1, <2>3, <3>1
  <2> QED
    BY <2>2, <2>3
<1>9. HooksTypes'
  BY <1>0, <1>3, <1>5, <1>8 DEF HooksInv, HooksTypes
<1>10. \A y \in Hooks!Nodes(Now) : node[y] = "done" => node'[y] = "done"
  BY <1>3, <1>8
<1>11. ASSUME NEW y \in Hooks!Nodes(Now)
       PROVE  NodeIsSound(y)'
  <2>1. NodeIsSound(y) /\ Hooks!Needs(Now, y) \subseteq Hooks!Nodes(Now)
    BY NodesUnfold DEF HooksInv
  <2>2. node[y] # "waiting" => \A z \in Hooks!Needs(Now, y) : node'[z] = "done"
    BY <1>10, <2>1 DEF NodeIsSound
  <2>3. CASE y # x
    <3>1. node'[y] = node[y] /\ todo'[y] = todo[y] /\ Made(Now, y)' = Made(Now, y)
      BY <1>0, <1>7, <1>8, <2>3
    <3> QED
      BY <1>0, <1>3, <1>6, <1>8, <2>1, <2>2, <3>1 DEF NodeIsSound
  <2>4. CASE y = x /\ o = "ok"
    <3>1. PICK t : /\ todo' = [todo EXCEPT ![x] = t]
                   /\ InTheMiddle(C, {C[i] : i \in 1 .. k} \cup {C[k + 1]}, t)
      BY <1>4, <2>4
    <3>2. node'[x] = "running" /\ todo'[x] = t
      BY <1>3, <1>4, <2>4, <3>1 DEF HooksInv, HooksTypes
    <3>3. InTheMiddle(C, Made(Now, x)', todo'[x])
      BY <1>0, <1>4, <1>7, <3>1, <3>2
    <3>4. Hooks!CallsOf(Now, x)' = C
      BY <1>0, <1>1, <1>6
    <3> QED
      BY <1>0, <1>3, <2>2, <2>4, <3>2, <3>3, <3>4 DEF NodeIsSound
  <2>5. CASE y = x /\ o # "ok"
    BY <1>0, <1>3, <1>8, <2>2, <2>5 DEF NodeIsSound
  <2> QED
    BY <2>3, <2>4, <2>5
<1>12. ASSUME NEW i \in DOMAIN called'
       PROVE  CallIsDue(called[i])'
  <2>1. CASE i \in 1 .. N
    <3>1. PICK c : c = called[i] /\ c = called'[i]
      BY <1>5, <2>1
    <3>2. CallIsDue(c)
      BY <1>5, <2>1, <3>1 DEF HooksInv
    <3>3. ~c.ok => error' # "none" /\ node'[c.node] = "failed"
      BY <1>3, <1>8, <3>2 DEF CallIsDue
    <3>4. Hooks!CallsOf(c.script, c.node)' = Hooks!CallsOf(c.script, c.node)
      BY <1>6
    <3>5. CallIsDue(c)'
      BY <1>0, <1>3, <3>2, <3>3, <3>4 DEF CallIsDue, Behind, Now
    <3> QED
      BY <3>1, <3>5 DEF CallIsDue
  <2>2. CASE i = N + 1
    <3>1. k + 1 \in 1 .. Len(C)
      BY <1>3
    <3>2. d.plugin \in In(C)
      BY <1>4, <3>1 DEF In
    <3>3. Hooks!CallsOf(Now, x)' = C
      BY <1>0, <1>1, <1>6
    <3>4. CallIsDue(d)'
      BY <1>0, <1>3, <1>8, <3>2, <3>3 DEF CallIsDue
    <3> QED
      BY <1>5, <2>2, <3>4 DEF CallIsDue
  <2> QED
    BY <1>5, <2>1, <2>2
<1>13. PastIsDone'
  <2> SUFFICES ASSUME NEW s \in Behind(asked, scripts), NEW y \in Hooks!Nodes(s)
               PROVE  Hooks!CallsOf(s, y) # Hooks!Refused /\ Made(s, y)' = In(Hooks!CallsOf(s, y))
    BY <1>3, <1>6 DEF PastIsDone, Behind
  <2>1. Made(s, y)' = Made(s, y)
    BY <1>7, ScriptsAre DEF HooksInv
  <2> QED
    BY <2>1 DEF HooksInv, PastIsDone
<1>14. ASSUME NEW i \in 1 .. N
       PROVE  Consecutive(called[i], d)
  <2>1. PICK c : c = called[i]
    OBVIOUS
  <2>2. CallIsDue(c)
    BY <1>5, <2>1 DEF HooksInv
  <2>3. CASE c.script = Now
    <3>1. /\ c.node \in Hooks!Nodes(Now) /\ c.plugin \in Made(Now, c.node)
      BY <1>5, <2>1, <2>2, <2>3 DEF CallIsDue, Made
    <3>2. node[c.node] # "waiting"
      BY <3>1 DEF HooksInv, NodeIsSound
    <3>3. \A y \in Hooks!Nodes(Now) :
            node[y] # "waiting" => \A z \in Hooks!Needs(Now, y) : node[z] = "done"
      BY DEF HooksInv, NodeIsSound
    <3>4. /\ Hooks!PhaseRank(x) < Hooks!PhaseRank(c.node) => node[x] = "done"
          /\ Hooks!PhaseRank(x) \in Nat
      BY <1>3, <3>1, <3>2, <3>3, EarlierIsDone
    <3>5. /\ Hooks!PhaseRank(c.node) < Hooks!PhaseRank(x) => node[c.node] = "done"
          /\ Hooks!PhaseRank(c.node) \in Nat
          /\ c.node # x /\ Hooks!PhaseRank(c.node) = Hooks!PhaseRank(x) =>
               Now = "build" /\ {c.node, x} \subseteq BuildTargets
      BY <1>3, <3>1, <3>2, <3>3, EarlierIsDone
    <3>6. Hooks!PhaseRank(c.node) <= Hooks!PhaseRank(x)
      BY <1>3, <3>4, <3>5
    <3>7. c.node = x => \E l \in 1 .. k : c.plugin = C[l]
      BY <1>4, <3>1
    <3>8. /\ x \in {"pre", "post"} => FiredUpTo(project.refs, Len(project.refs), Now, x, C)
          /\ x \in Hooks!Main(Now) => Len(C) = 1
      BY <1>1, <1>3, ScriptsAre, CallsOfAre DEF HooksInv
    <3>9. ASSUME c.node = x, x \in {"pre", "post"}
          PROVE  Before(c.plugin, d.plugin)
      <4>1. PICK l \in 1 .. k : c.plugin = C[l]
        BY <3>7, <3>9
      <4>2. l < k + 1 /\ l \in 1 .. Len(C) /\ k + 1 \in 1 .. Len(C)
        BY <1>3
      <4>3. PICK u, v \in 1 .. Len(project.refs) :
              u < v /\ project.refs[u].name = C[l] /\ project.refs[v].name = C[k + 1]
        BY <3>8, <3>9, <4>2 DEF FiredUpTo, Rising
      <4>4. u \in DOMAIN project.refs /\ v \in DOMAIN project.refs
        BY <4>3, InvocationAssumed DEF HooksInv, HooksTypes
      <4> QED
        BY <1>4, <4>1, <4>3, <4>4 DEF Before
    <3>10. ~(c.node = "main" /\ x = "main")
      <4> SUFFICES ASSUME c.node = "main", x = "main" PROVE FALSE
        OBVIOUS
      <4>1. x \in Hooks!Main(Now)
        BY <1>3, NodesUnfold
      <4>2. Len(C) = 1
        BY <3>8, <4>1
      <4>3. PICK l \in 1 .. k : TRUE
        BY <3>7
      <4> QED
        BY <4>2, <4>3
    <3>11. ~c.ok => Now = "build" /\ {c.node, x} \subseteq BuildTargets
      <4> SUFFICES ASSUME ~c.ok PROVE Now = "build" /\ {c.node, x} \subseteq BuildTargets
        OBVIOUS
      <4>1. node[c.node] = "failed" /\ c.node # x
        BY <1>3, <2>2 DEF CallIsDue
      <4>2. ~(Hooks!PhaseRank(c.node) < Hooks!PhaseRank(x))
        BY <3>5, <4>1
      <4> QED
        BY <3>4, <3>5, <3>6, <4>1, <4>2
    <3> QED
      BY <1>3, <2>1, <2>3, <3>6, <3>9, <3>10, <3>11 DEF Consecutive
  <2>4. CASE c.script # Now
    <3>1. c.ok /\ c.script \in Behind(asked, scripts)
      BY <2>2, <2>4 DEF CallIsDue
    <3>2. Now = "build" => "up" \notin Behind(asked, scripts)
      BY ScriptsUnfold DEF HooksInv, HooksTypes, Now
    <3> QED
      BY <1>3, <2>1, <2>4, <3>1, <3>2 DEF Consecutive
  <2> QED
    BY <2>3, <2>4
<1>15. CallsAreOrdered'
  <2>1. \A c, f : Consecutive(c, f)' = Consecutive(c, f)
    BY <1>3 DEF Consecutive, Before
  <2> SUFFICES ASSUME NEW i \in 1 .. N + 1, NEW j \in 1 .. N + 1, i < j
               PROVE  Consecutive(called'[i], called'[j])
    BY <1>5, <2>1 DEF CallsAreOrdered
  <2>2. i \in 1 .. N
    BY <1>5
  <2>3. CASE j \in 1 .. N
    BY <1>5, <2>2, <2>3 DEF HooksInv, CallsAreOrdered
  <2>4. CASE j = N + 1
    BY <1>5, <1>14, <2>2, <2>4
  <2> QED
    BY <1>5, <2>3, <2>4
<1>16. EndsAreSound'
  BY <1>3 DEF EndsAreSound
<1>17. CleanupsAreSound'
  <2>1. /\ cleanups \in [{"main", "dependency"} -> Seq(Nat)]
        /\ closing = << >> /\ closed = << >> /\ Hooks!IsInjective(closing \o closed)
        /\ Hooks!IsInjective(cleanups["main"])
        /\ In(cleanups["main"]) \subseteq 1 .. N /\ Mine \subseteq In(cleanups["main"])
    BY <1>3 DEF HooksInv, CleanupsAreSound, N
  <2>2. Mine' = Mine \cup (IF m /\ d.runner = "main" THEN {N + 1} ELSE {})
    <3>1. 1 .. N + 1 = 1 .. N \cup {N + 1}
      BY <1>5
    <3> QED
      BY <1>3, <1>5, <3>1 DEF Mine
  <2>3. Len(called') = N + 1 /\ N + 1 \in Nat /\ 1 .. N \subseteq 1 .. N + 1
        /\ N + 1 \in 1 .. N + 1 /\ N + 1 \notin 1 .. N
    BY <1>3, <1>5 DEF N
  <2>4. d.runner \in {"main", "dependency"}
    BY <1>3 DEF CalledType
  <2>5. cleanups' \in [{"main", "dependency"} -> Seq(Nat)]
    BY <1>3, <2>1, <2>3, <2>4
  <2>6. CASE m /\ d.runner = "main"
    <3>1. PICK q \in Seq(Nat) : q = cleanups["main"]
      BY <2>1
    <3>2. cleanups'["main"] = Append(q, N + 1)
      BY <1>3, <2>1, <2>6, <3>1
    <3>3. /\ Hooks!IsInjective(Append(q, N + 1)) /\ In(Append(q, N + 1)) = In(q) \cup {N + 1}
      BY <2>1, <2>3, <3>1, Appended
    <3> QED
      BY <1>3, <2>1, <2>2, <2>3, <2>5, <2>6, <3>1, <3>2, <3>3 DEF CleanupsAreSound
  <2>7. CASE ~(m /\ d.runner = "main")
    <3>1. cleanups'["main"] = cleanups["main"]
      BY <1>3, <2>1, <2>4, <2>7
    <3> QED
      BY <1>3, <2>1, <2>2, <2>3, <2>5, <2>7, <3>1 DEF CleanupsAreSound
  <2> QED
    BY <2>6, <2>7
<1> QED
  BY <1>0, <1>3, <1>9, <1>11, <1>12, <1>13, <1>15, <1>16, <1>17 DEF HooksInv

-----------------------------------------------------------------------------
(* The ends of the scripts, of the cleanups and of the invocation.           *)

LEMMA Reversed ==
  ASSUME NEW q \in Seq(Nat)
  PROVE  /\ Hooks!Reverse(q) \in Seq(Nat) /\ In(Hooks!Reverse(q)) = In(q)
         /\ Hooks!IsInjective(q) => Hooks!IsInjective(Hooks!Reverse(q))
<1> DEFINE r == Hooks!Reverse(q)
<1>1. /\ r \in Seq(Nat) /\ Len(q) \in Nat /\ Len(r) = Len(q)
      /\ DOMAIN r = 1 .. Len(q) /\ DOMAIN q = 1 .. Len(q)
      /\ \A i \in 1 .. Len(q) : (Len(q) - i) + 1 \in 1 .. Len(q) /\ r[i] = q[(Len(q) - i) + 1]
  BY DEF Hooks!Reverse
<1> HIDE DEF r
<1>2. ASSUME NEW i \in 1 .. Len(q) PROVE \E j \in 1 .. Len(q) : r[j] = q[i]
  <2>1. (Len(q) - i) + 1 \in 1 .. Len(q) /\ (Len(q) - ((Len(q) - i) + 1)) + 1 = i
    BY <1>1
  <2> QED
    BY <1>1, <2>1
<1>3. In(r) = In(q)
  <2>1. \A i \in 1 .. Len(q) : r[i] \in In(q)
    BY <1>1 DEF In
  <2>2. \A i \in 1 .. Len(q) : q[i] \in In(r)
    BY <1>1, <1>2 DEF In
  <2> QED
    BY <1>1, <2>1, <2>2 DEF In
<1>4. Hooks!IsInjective(q) => Hooks!IsInjective(r)
  <2> SUFFICES ASSUME Hooks!IsInjective(q), NEW i \in 1 .. Len(q), NEW j \in 1 .. Len(q), r[i] = r[j]
               PROVE  i = j
    BY <1>1 DEF Hooks!IsInjective
  <2>1. (Len(q) - i) + 1 = (Len(q) - j) + 1
    BY <1>1 DEF Hooks!IsInjective
  <2> QED
    BY <1>1, <2>1
<1> QED
  BY <1>1, <1>3, <1>4 DEF r

LEMMA JoinedApart ==
  ASSUME NEW q \in Seq(Nat), NEW r \in Seq(Nat)
  PROVE  Hooks!IsInjective(q \o r) <=>
           Hooks!IsInjective(q) /\ Hooks!IsInjective(r) /\ In(q) \cap In(r) = {}
<1> DEFINE t == q \o r
<1>1. /\ Len(q) \in Nat /\ Len(r) \in Nat
      /\ DOMAIN q = 1 .. Len(q) /\ DOMAIN r = 1 .. Len(r) /\ DOMAIN t = 1 .. Len(q) + Len(r)
      /\ \A i \in 1 .. Len(q) : t[i] = q[i]
      /\ \A i \in 1 .. Len(r) : t[Len(q) + i] = r[i]
  OBVIOUS
<1> HIDE DEF t
<1>2. ASSUME Hooks!IsInjective(t)
      PROVE  Hooks!IsInjective(q) /\ Hooks!IsInjective(r) /\ In(q) \cap In(r) = {}
  <2>1. \A i, j \in 1 .. Len(q) + Len(r) : t[i] = t[j] => i = j
    BY <1>1, <1>2 DEF Hooks!IsInjective
  <2>2. 1 .. Len(q) \subseteq 1 .. Len(q) + Len(r)
        /\ \A i \in 1 .. Len(r) : Len(q) + i \in 1 .. Len(q) + Len(r)
    BY <1>1
  <2>3. Hooks!IsInjective(q)
    BY <1>1, <2>1, <2>2 DEF Hooks!IsInjective
  <2>4. Hooks!IsInjective(r)
    <3> SUFFICES ASSUME NEW i \in 1 .. Len(r), NEW j \in 1 .. Len(r), r[i] = r[j] PROVE i = j
      BY <1>1 DEF Hooks!IsInjective
    <3>1. Len(q) + i = Len(q) + j
      BY <1>1, <2>1, <2>2
    <3> QED
      BY <1>1, <3>1
  <2>5. In(q) \cap In(r) = {}
    <3> SUFFICES ASSUME NEW i \in 1 .. Len(q), NEW j \in 1 .. Len(r), q[i] = r[j] PROVE FALSE
      BY DEF In
    <3>1. i = Len(q) + j
      BY <1>1, <2>1, <2>2
    <3> QED
      BY <1>1, <3>1
  <2> QED
    BY <2>3, <2>4, <2>5
<1>3. ASSUME Hooks!IsInjective(q), Hooks!IsInjective(r), In(q) \cap In(r) = {}
      PROVE  Hooks!IsInjective(t)
  <2>1. ASSUME NEW i \in 1 .. Len(q) + Len(r)
        PROVE  \/ i \in 1 .. Len(q) /\ t[i] = q[i] /\ t[i] \in In(q)
               \/ \E k \in 1 .. Len(r) : i = Len(q) + k /\ t[i] = r[k] /\ t[i] \in In(r)
    <3>1. CASE i \in 1 .. Len(q)
      BY <1>1, <3>1 DEF In
    <3>2. CASE i \notin 1 .. Len(q)
      <4>1. i - Len(q) \in 1 .. Len(r) /\ i = Len(q) + (i - Len(q))
        BY <1>1, <3>2
      <4> QED
        BY <1>1, <4>1 DEF In
    <3> QED
      BY <3>1, <3>2
  <2> SUFFICES ASSUME NEW i \in 1 .. Len(q) + Len(r), NEW j \in 1 .. Len(q) + Len(r), t[i] = t[j]
               PROVE  i = j
    BY <1>1 DEF Hooks!IsInjective
  <2>2. CASE i \in 1 .. Len(q) /\ t[i] = q[i] /\ t[i] \in In(q)
    BY <1>1, <1>3, <2>1, <2>2 DEF Hooks!IsInjective
  <2>3. CASE \E k \in 1 .. Len(r) : i = Len(q) + k /\ t[i] = r[k] /\ t[i] \in In(r)
    BY <1>1, <1>3, <2>1, <2>3 DEF Hooks!IsInjective
  <2> QED
    BY <2>1, <2>2, <2>3
<1> QED
  BY <1>2, <1>3 DEF t

LEMMA Moved ==
  ASSUME NEW q \in Seq(Nat), NEW r \in Seq(Nat), NEW i \in DOMAIN q,
         Hooks!IsInjective(q \o r)
  PROVE  LET w == Hooks!RemoveAt(q, i)
             z == Append(r, q[i])
         IN  /\ w \in Seq(Nat) /\ z \in Seq(Nat) /\ Hooks!IsInjective(w \o z)
             /\ In(w) \cup In(z) = In(q) \cup In(r)
<1> DEFINE w == Hooks!RemoveAt(q, i)
           z == Append(r, q[i])
           N == Len(q)
<1>1. N \in Nat /\ DOMAIN q = 1 .. N /\ i \in 1 .. N /\ q[i] \in Nat
  OBVIOUS
<1>2. /\ w \in Seq(Nat) /\ Len(w) = N - 1 /\ DOMAIN w = 1 .. N - 1
      /\ \A j \in 1 .. N - 1 : w[j] = q[IF j < i THEN j ELSE j + 1]
  <2> DEFINE u == SubSeq(q, 1, i - 1)
             v == SubSeq(q, i + 1, N)
  <2>1. /\ u \in Seq(Nat) /\ Len(u) = i - 1
        /\ \A j \in 1 .. i - 1 : u[j] = q[j]
    BY <1>1
  <2>2. /\ v \in Seq(Nat) /\ Len(v) = N - i
        /\ \A j \in 1 .. N - i : v[j] = q[i + j]
    <3>1. i + 1 \in Int /\ N \in Int /\ \A j \in i + 1 .. N : q[j] \in Nat
      BY <1>1
    <3>2. /\ v \in Seq(Nat) /\ Len(v) = IF i + 1 <= N THEN N - (i + 1) + 1 ELSE 0
          /\ \A j \in 1 .. N - (i + 1) + 1 : v[j] = q[(i + 1) + j - 1]
      <4> HIDE DEF N
      <4> QED
        BY <3>1, SubSeqProperties
    <3>3. N - (i + 1) + 1 = N - i /\ \A j \in 1 .. N - i : (i + 1) + j - 1 = i + j
      BY <1>1
    <3> HIDE DEF v, N
    <3>4. Len(v) = N - i
      BY <1>1, <3>2
    <3> QED
      BY <3>2, <3>3, <3>4
  <2>3. w = u \o v
    BY DEF Hooks!RemoveAt
  <2> HIDE DEF u, v, w, N
  <2>4. (i - 1) + (N - i) = N - 1
    BY <1>1
  <2>5. /\ w \in Seq(Nat) /\ Len(w) = N - 1 /\ DOMAIN w = 1 .. N - 1
        /\ \A j \in 1 .. N - 1 : w[j] = IF j <= i - 1 THEN u[j] ELSE v[j - (i - 1)]
    <3>1. /\ w \in Seq(Nat) /\ Len(w) = Len(u) + Len(v)
          /\ \A j \in 1 .. Len(u) + Len(v) : w[j] = IF j <= Len(u) THEN u[j] ELSE v[j - Len(u)]
      BY <2>1, <2>2, <2>3, ConcatProperties
    <3>2. Len(u) + Len(v) = N - 1
      BY <2>1, <2>2, <2>4
    <3> QED
      BY <2>1, <3>1, <3>2
  <2>6. ASSUME NEW j \in 1 .. N - 1 PROVE w[j] = q[IF j < i THEN j ELSE j + 1]
    <3>1. CASE j < i
      <4>1. j \in 1 .. Len(u) /\ j \in 1 .. i - 1
        BY <1>1, <2>1, <3>1
      <4> QED
        BY <2>1, <2>2, <2>3, <3>1, <4>1
    <3>2. CASE ~(j < i)
      <4>1. j - (i - 1) \in 1 .. N - i /\ i + (j - (i - 1)) = j + 1
        BY <1>1, <3>2
      <4>2. w[j] = v[j - (i - 1)]
        <5>1. ~(j <= i - 1)
          BY <1>1, <3>2
        <5> QED
          BY <2>5, <5>1
      <4> QED
        BY <2>2, <3>2, <4>1, <4>2
    <3> QED
      BY <3>1, <3>2
  <2> QED
    BY <2>5, <2>6
<1>3. /\ Hooks!IsInjective(q) /\ Hooks!IsInjective(r) /\ In(q) \cap In(r) = {}
  BY JoinedApart
<1> HIDE DEF w, N
<1>4. Hooks!IsInjective(w) /\ q[i] \notin In(w) /\ In(w) \subseteq In(q)
  <2>1. \A j, k \in 1 .. N : q[j] = q[k] => j = k
    BY <1>1, <1>3 DEF Hooks!IsInjective
  <2>2. ASSUME NEW j \in 1 .. N - 1
        PROVE  \E k \in 1 .. N : k # i /\ w[j] = q[k] /\ (k < i <=> j < i) /\ k \in {j, j + 1}
                                 /\ (j < i <=> k = j)
    <3>1. CASE j < i
      <4>1. j \in 1 .. N /\ j # i /\ w[j] = q[j]
        BY <1>1, <1>2, <3>1
      <4> QED
        BY <3>1, <4>1
    <3>2. CASE ~(j < i)
      <4>1. j + 1 \in 1 .. N /\ j + 1 # i /\ w[j] = q[j + 1] /\ ~(j + 1 < i) /\ j # j + 1
        BY <1>1, <1>2, <3>2
      <4> QED
        BY <3>2, <4>1
    <3> QED
      BY <3>1, <3>2
  <2>3. q[i] \notin In(w) /\ In(w) \subseteq In(q)
    <3> SUFFICES ASSUME NEW j \in 1 .. N - 1 PROVE w[j] # q[i] /\ w[j] \in In(q)
      BY <1>2 DEF In
    <3>1. PICK k \in 1 .. N : k # i /\ w[j] = q[k]
      BY <2>2
    <3> QED
      BY <1>1, <2>1, <3>1 DEF In, N
  <2>4. Hooks!IsInjective(w)
    <3> SUFFICES ASSUME NEW j \in 1 .. N - 1, NEW l \in 1 .. N - 1, w[j] = w[l] PROVE j = l
      BY <1>2 DEF Hooks!IsInjective
    <3>1. PICK k \in 1 .. N : w[j] = q[k] /\ (k < i <=> j < i) /\ k \in {j, j + 1} /\ (j < i <=> k = j)
      BY <2>2
    <3>2. PICK m \in 1 .. N : w[l] = q[m] /\ (m < i <=> l < i) /\ m \in {l, l + 1} /\ (l < i <=> m = l)
      BY <2>2
    <3>3. k = m
      BY <2>1, <3>1, <3>2
    <3>4. j \in Nat /\ l \in Nat /\ k \in Nat
      BY <1>1
    <3> QED
      BY <3>1, <3>2, <3>3, <3>4
  <2> QED
    BY <2>3, <2>4
<1>5. In(w) \cup {q[i]} = In(q)
  <2> SUFFICES ASSUME NEW k \in 1 .. N, k # i PROVE \E j \in 1 .. N - 1 : w[j] = q[k]
    <3>1. \A k \in 1 .. N : k # i => q[k] \in In(w)
      BY <1>2 DEF In
    <3>2. \A k \in 1 .. N : q[k] \in In(w) \cup {q[i]}
      BY <3>1
    <3> QED
      BY <1>1, <1>4, <3>2 DEF In, N
  <2>1. CASE k < i
    <3>1. k \in 1 .. N - 1 /\ w[k] = q[k]
      BY <1>1, <1>2, <2>1
    <3> QED
      BY <3>1
  <2>2. CASE ~(k < i)
    <3>1. k - 1 \in 1 .. N - 1 /\ ~(k - 1 < i) /\ (k - 1) + 1 = k
      BY <1>1, <2>2
    <3> QED
      BY <1>2, <3>1
  <2> QED
    BY <2>1, <2>2
<1>6. q[i] \notin In(r)
  BY <1>1, <1>3, <1>5
<1>7. z \in Seq(Nat) /\ In(z) = In(r) \cup {q[i]} /\ Hooks!IsInjective(z)
  BY <1>1, <1>3, <1>6, Appended
<1> HIDE DEF z
<1>8. In(w) \cap In(z) = {}
  BY <1>3, <1>4, <1>7
<1>9. Hooks!IsInjective(w \o z)
  BY <1>2, <1>4, <1>7, <1>8, JoinedApart
<1> QED
  BY <1>2, <1>5, <1>7, <1>9 DEF w, z

LEMMA ScriptEndsKeepsHooks ==
  ASSUME HooksInv, Hooks!ScriptEnds
  PROVE  HooksInv'
<1>1. /\ over = "running" /\ project' = project /\ asked' = asked
      /\ error' = error /\ called' = called /\ closed' = closed
      /\ error = "none" => \A x \in Hooks!Nodes(Now) : node[x] = "done"
  BY DEF HooksInv, HooksTypes, Hooks!ScriptEnds, Hooks!None
<1>2. /\ Len(scripts) \in Nat /\ scripts # << >> /\ scripts \in Seq(ScriptNames)
      /\ Now \notin Behind(asked, scripts)
  BY ScriptsAre DEF HooksInv
<1>3. \A s, y : Hooks!CallsOf(s, y)' = Hooks!CallsOf(s, y)
  BY <1>1, QuietSteps
<1>4. \A s, y : Made(s, y)' = Made(s, y)
  BY <1>1, QuietSteps
<1>5. CASE error = "none" /\ Len(scripts) > 1
  <2>1. PICK s : s = Head(Tail(scripts))
    OBVIOUS
  <2>2. /\ ScriptsLeft(asked, Tail(scripts)) /\ s = scripts[2]
        /\ Behind(asked, Tail(scripts)) = Behind(asked, scripts) \cup {Now}
    BY <1>5, <2>1, ScriptsUnfold DEF HooksInv, HooksTypes, Now
  <2>3. s \notin Behind(asked, Tail(scripts))
    BY <2>1, <2>2, ScriptsUnfold DEF HooksInv, HooksTypes
  <2>4. /\ scripts' = Tail(scripts) /\ Now' = s
        /\ node' = [x \in Hooks!Nodes(s) |-> "waiting"]
        /\ todo' = [x \in Hooks!Nodes(s) |-> << >>]
        /\ UNCHANGED <<cleanups, closing, over>>
    BY <1>5, <2>1, <2>2 DEF Hooks!ScriptEnds, Hooks!Begin, Hooks!None, Now
  <2>5. HooksTypes'
    <3>1. \A x \in Hooks!Nodes(s) : << >> \in Seq(Callees)
      OBVIOUS
    <3>2. /\ node' \in [Hooks!Nodes(s) -> {"waiting", "running", "done", "failed"}]
          /\ todo' \in [Hooks!Nodes(s) -> Seq(Callees)]
      BY <2>4, <3>1
    <3> QED
      BY <1>1, <2>2, <2>4, <3>2 DEF HooksInv, HooksTypes
  <2>6. \A i \in DOMAIN called : /\ CallIsDue(called[i]) /\ called[i].ok
                                 /\ called[i].script \in Behind(asked, Tail(scripts))
    BY <1>5, <2>2 DEF HooksInv, CallIsDue
  <2>7. ASSUME NEW x \in Hooks!Nodes(s)
        PROVE  NodeIsSound(x)'
    <3>1. Made(s, x) = {}
      BY <2>3, <2>6 DEF Made
    <3>2. node'[x] = "waiting" /\ Made(s, x)' = {}
      BY <1>4, <2>4, <3>1
    <3> QED
      BY <2>4, <3>2 DEF NodeIsSound
  <2>8. ASSUME NEW i \in DOMAIN called
        PROVE  CallIsDue(called[i])'
    <3>1. Hooks!CallsOf(called[i].script, called[i].node)' = Hooks!CallsOf(called[i].script, called[i].node)
      BY <1>1, <1>3
    <3> QED
      BY <1>1, <2>4, <2>6, <3>1 DEF CallIsDue, Behind
  <2>9. PastIsDone'
    <3> SUFFICES ASSUME NEW u \in Behind(asked, scripts) \cup {Now}, NEW x \in Hooks!Nodes(u)
                 PROVE  Hooks!CallsOf(u, x) # Hooks!Refused /\ Made(u, x) = In(Hooks!CallsOf(u, x))
      BY <1>1, <1>3, <1>4, <2>2, <2>4 DEF PastIsDone, Behind
    <3>1. CASE u \in Behind(asked, scripts)
      BY <3>1 DEF HooksInv, PastIsDone
    <3>2. CASE u = Now
      BY <1>1, <1>5, <3>2 DEF HooksInv, NodeIsSound
    <3> QED
      BY <3>1, <3>2
  <2>10. EndsAreSound'
    BY <1>1, <2>4 DEF EndsAreSound
  <2>11. CallsAreOrdered' /\ CleanupsAreSound'
    BY <1>1, <2>4, QuietSteps
  <2> QED
    BY <1>1, <2>4, <2>5, <2>7, <2>8, <2>9, <2>10, <2>11 DEF HooksInv
<1>6. CASE ~(error = "none" /\ Len(scripts) > 1)
  <2>1. /\ scripts' = scripts /\ Now' = Now /\ node' = node /\ todo' = todo
        /\ \/ over' = "child's" /\ error # "none" /\ UNCHANGED <<cleanups, closing>>
           \/ Hooks!dispose
    BY <1>1, <1>6 DEF Hooks!ScriptEnds, Hooks!None, Now
  <2>2. over' \in {"child's", "disposing"}
    BY <2>1 DEF Hooks!dispose
  <2>3. HooksTypes'
    BY <1>1, <2>1, <2>2 DEF HooksInv, HooksTypes
  <2>4. ASSUME NEW x \in Hooks!Nodes(Now)
        PROVE  NodeIsSound(x)'
    BY <1>1, <1>3, <1>4, <2>1 DEF HooksInv, NodeIsSound
  <2>5. ASSUME NEW i \in DOMAIN called
        PROVE  CallIsDue(called[i])'
    <3>1. Hooks!CallsOf(called[i].script, called[i].node)' = Hooks!CallsOf(called[i].script, called[i].node)
      BY <1>1, <1>3
    <3> QED
      BY <1>1, <2>1, <3>1 DEF HooksInv, CallIsDue, Behind
  <2>6. EndsAreSound'
    <3>1. error = "none" => Len(scripts) = 1
      BY <1>2, <1>6
    <3> QED
      BY <1>1, <2>1, <2>2, <3>1 DEF EndsAreSound
  <2>7. /\ cleanups \in [{"main", "dependency"} -> Seq(Nat)]
        /\ closing = << >> /\ closed = << >> /\ Hooks!IsInjective(closing \o closed)
        /\ Hooks!IsInjective(cleanups["main"]) /\ Mine \subseteq In(cleanups["main"])
    BY <1>1 DEF HooksInv, CleanupsAreSound
  <2>8. Mine' = Mine
    BY <1>1 DEF Mine
  <2>9. CleanupsAreSound'
    <3>1. CASE over' = "child's" /\ error # "none" /\ UNCHANGED <<cleanups, closing>>
      BY <1>1, <2>7, <3>1 DEF CleanupsAreSound
    <3>2. CASE Hooks!dispose
      <4>1. PICK q \in Seq(Nat) : q = cleanups["main"]
        BY <2>7
      <4>2. PICK r : r = Hooks!Reverse(q)
        OBVIOUS
      <4>3. /\ closing' = r /\ over' = "disposing"
            /\ cleanups' = [cleanups EXCEPT !["main"] = << >>]
        BY <3>2, <4>1, <4>2 DEF Hooks!dispose
      <4>4. r \in Seq(Nat) /\ In(r) = In(q) /\ Hooks!IsInjective(r)
        BY <2>7, <4>1, <4>2, Reversed
      <4>5. r \o << >> = r
        BY <4>4, ConcatEmptySeq
      <4>6. << >> \in Seq(Nat) /\ cleanups' \in [{"main", "dependency"} -> Seq(Nat)]
        BY <2>7, <4>3
      <4>7. Mine \subseteq In(r)
        BY <2>7, <4>1, <4>4
      <4> QED
        BY <1>1, <2>7, <2>8, <4>3, <4>4, <4>5, <4>6, <4>7 DEF CleanupsAreSound
    <3> QED
      BY <2>1, <3>1, <3>2
  <2>10. CallsAreOrdered' /\ PastIsDone'
    BY <1>1, <2>1, QuietSteps
  <2> QED
    BY <1>1, <2>1, <2>3, <2>4, <2>5, <2>6, <2>9, <2>10 DEF HooksInv
<1> QED
  BY <1>5, <1>6

\* What is left of the invariant after the scripts.
LEMMA EndingKeepsHooks ==
  ASSUME HooksInv, over = "disposing", over' \in {"disposing", "0", "1"},
         UNCHANGED <<project, asked, scripts, node, todo, error, called, cleanups>>,
         over' = "0" => error = "none", CleanupsAreSound'
  PROVE  HooksInv'
<1>1. HooksTypes'
  BY DEF HooksInv, HooksTypes, Now
<1>2. \A s, y : Hooks!CallsOf(s, y)' = Hooks!CallsOf(s, y)
  BY QuietSteps
<1>3. \A s, y : Made(s, y)' = Made(s, y)
  BY QuietSteps
<1>4. Now' = Now
  BY DEF Now
<1>5. ASSUME NEW x \in Hooks!Nodes(Now)
      PROVE  NodeIsSound(x)'
  BY <1>2, <1>3, <1>4 DEF HooksInv, NodeIsSound
<1>6. ASSUME NEW i \in DOMAIN called
      PROVE  CallIsDue(called[i])'
  <2>1. Hooks!CallsOf(called[i].script, called[i].node)' = Hooks!CallsOf(called[i].script, called[i].node)
    BY <1>2
  <2> QED
    BY <1>4, <2>1 DEF HooksInv, CallIsDue, Behind
<1>7. EndsAreSound'
  BY <1>4 DEF HooksInv, EndsAreSound
<1>8. CallsAreOrdered' /\ PastIsDone'
  BY QuietSteps
<1> QED
  BY <1>1, <1>4, <1>5, <1>6, <1>7, <1>8 DEF HooksInv

LEMMA ClosesKeepsHooks ==
  ASSUME HooksInv, NEW i \in DOMAIN closing, Hooks!Closes(i)
  PROVE  HooksInv'
<1>1. PICK q, r : q = closing /\ r = closed
  OBVIOUS
<1>2. PICK w, z : w = Hooks!RemoveAt(q, i) /\ z = Append(r, q[i])
  OBVIOUS
<1>3. /\ over = "disposing" /\ over' = over /\ closing' = w /\ closed' = z
      /\ UNCHANGED <<project, asked, scripts, node, todo, error, called, cleanups>>
  BY <1>1, <1>2 DEF Hooks!Closes
<1>4. /\ cleanups \in [{"main", "dependency"} -> Seq(Nat)]
      /\ q \in Seq(Nat) /\ r \in Seq(Nat) /\ Hooks!IsInjective(q \o r)
      /\ Mine \subseteq In(q) \cup In(r)
  BY <1>1, <1>3 DEF HooksInv, CleanupsAreSound
<1>5. /\ w \in Seq(Nat) /\ z \in Seq(Nat) /\ Hooks!IsInjective(w \o z)
      /\ In(w) \cup In(z) = In(q) \cup In(r)
  BY <1>1, <1>2, <1>4, Moved
<1>6. Mine' = Mine
  BY <1>3 DEF Mine
<1>7. CleanupsAreSound'
  BY <1>3, <1>4, <1>5, <1>6 DEF CleanupsAreSound
<1> QED
  BY <1>3, <1>7, EndingKeepsHooks

LEMMA ExitKeepsHooks ==
  ASSUME HooksInv, Hooks!Exit
  PROVE  HooksInv'
<1>1. /\ over = "disposing" /\ closing = << >> /\ over' \in {"0", "1"}
      /\ over' = "0" => error = "none"
      /\ UNCHANGED <<project, asked, scripts, node, todo, error, called, cleanups, closing, closed>>
  BY DEF Hooks!Exit, Hooks!None
<1>2. Mine' = Mine
  BY <1>1 DEF Mine
<1>3. CleanupsAreSound'
  BY <1>1, <1>2 DEF HooksInv, CleanupsAreSound
<1> QED
  BY <1>1, <1>3, EndingKeepsHooks

LEMMA HooksNext ==
  ASSUME HooksInv, Hooks!Next
  PROVE  HooksInv'
BY StartNodeKeepsHooks, EndNodeKeepsHooks, CallKeepsHooks, ScriptEndsKeepsHooks,
   ClosesKeepsHooks, ExitKeepsHooks DEF Hooks!Next, Hooks!Step, Hooks!Outcomes

LEMMA HooksStart ==
  ASSUME Hooks!Init
  PROVE  HooksInv
<1>1. /\ project \in PluginProjects /\ Hooks!loadPlugins(project)
      /\ asked \in CommandLines /\ (asked.command = "plugin" => project.refs # << >>)
      /\ scripts = Hooks!ScriptsOf(asked)
      /\ node = [x \in Hooks!Nodes(Now) |-> "waiting"]
      /\ todo = [x \in Hooks!Nodes(Now) |-> << >>]
      /\ error = "none" /\ called = << >>
      /\ cleanups = [r \in {"main", "dependency"} |-> << >>]
      /\ closing = << >> /\ closed = << >> /\ over = "running"
  BY DEF Hooks!Init, Hooks!Plugins, Hooks!None, Now
<1>2. HooksTypes
  <2>1. \A x \in Hooks!Nodes(Now) : << >> \in Seq(Callees)
    OBVIOUS
  <2>2. ScriptsLeft(asked, scripts)
    BY <1>1 DEF ScriptsLeft
  <2> QED
    BY <1>1, <2>1, <2>2 DEF HooksTypes
<1>3. DOMAIN called = {} /\ Mine = {} /\ \A s, x : Made(s, x) = {}
  BY <1>1 DEF Made, Mine
<1>4. \A x \in Hooks!Nodes(Now) : NodeIsSound(x)
  BY <1>1, <1>3 DEF NodeIsSound
<1>5. Behind(asked, scripts) = {}
  <2>1. Head(scripts) \in {"env", "plugin"}
    BY <1>1, InvocationAssumed DEF Hooks!ScriptsOf
  <2> QED
    BY <2>1 DEF Behind
<1>6. PastIsDone /\ CallsAreOrdered /\ EndsAreSound
  BY <1>1, <1>3, <1>5 DEF PastIsDone, CallsAreOrdered, EndsAreSound
<1>7. CleanupsAreSound
  <2>1. << >> \in Seq(Nat) /\ << >> \o << >> = << >> /\ Hooks!IsInjective(<< >>) /\ In(<< >>) = {}
    BY DEF Hooks!IsInjective, In
  <2> QED
    BY <1>1, <1>3, <2>1 DEF CleanupsAreSound
<1> QED
  BY <1>2, <1>3, <1>4, <1>6, <1>7 DEF HooksInv

LEMMA HooksUndisturbed ==
  ASSUME HooksInv, UNCHANGED <<project, asked, scripts, node, todo, error, called, cleanups,
                               closing, closed, over>>
  PROVE  HooksInv'
<1>1. \A s, y : Hooks!CallsOf(s, y)' = Hooks!CallsOf(s, y)
  BY QuietSteps
<1>2. \A s, y : Made(s, y)' = Made(s, y)
  BY QuietSteps
<1>3. Now' = Now /\ HooksTypes'
  BY DEF HooksInv, HooksTypes, Now
<1>4. ASSUME NEW x \in Hooks!Nodes(Now)
      PROVE  NodeIsSound(x)'
  BY <1>1, <1>2, <1>3 DEF HooksInv, NodeIsSound
<1>5. ASSUME NEW i \in DOMAIN called
      PROVE  CallIsDue(called[i])'
  <2>1. Hooks!CallsOf(called[i].script, called[i].node)' = Hooks!CallsOf(called[i].script, called[i].node)
    BY <1>1
  <2> QED
    BY <1>3, <2>1 DEF HooksInv, CallIsDue, Behind
<1>6. EndsAreSound'
  BY <1>3 DEF HooksInv, EndsAreSound
<1>7. CallsAreOrdered' /\ PastIsDone' /\ CleanupsAreSound'
  BY QuietSteps
<1> QED
  BY <1>3, <1>4, <1>5, <1>6, <1>7 DEF HooksInv

-----------------------------------------------------------------------------
(* What the invariant says of the calls.                                     *)

LEMMA HooksInOrder ==
  ASSUME HooksInv
  PROVE  Hooks!InOrder /\ Hooks!NothingAfterFailure
<1>1. \A i, j \in DOMAIN called : i < j => Consecutive(called[i], called[j])
  BY DEF HooksInv, CallsAreOrdered
<1>2. \A k, m \in DOMAIN project.refs :
        /\ k \in Nat /\ m \in Nat
        /\ project.refs[k].name = project.refs[m].name => k = m
  <2>1. DOMAIN project.refs \subseteq Nat
    BY InvocationAssumed DEF HooksInv, HooksTypes
  <2>2. \A k, m \in DOMAIN project.refs : k < m => project.refs[k].name # project.refs[m].name
    BY DEF HooksInv, HooksTypes, Hooks!loadPlugins, Hooks!PairsFit
  <2> QED
    BY <2>1, <2>2
<1>3. ASSUME NEW k \in DOMAIN project.refs
      PROVE  Hooks!PluginRank(project.refs[k].name) = k /\ project.refs[k].name \in Hooks!Names(project.refs)
  BY <1>2 DEF Hooks!PluginRank, Hooks!Plugins, Hooks!Names
<1>4. ASSUME NEW c, NEW d, Before(c.plugin, d.plugin)
      PROVE  Hooks!Rank(c) < Hooks!Rank(d)
  <2>1. PICK k, m \in DOMAIN project.refs :
          k < m /\ project.refs[k].name = c.plugin /\ project.refs[m].name = d.plugin
    BY <1>4 DEF Before
  <2>2. Hooks!Rank(c) = k /\ Hooks!Rank(d) = m
    BY <1>3, <2>1 DEF Hooks!Rank, Hooks!Plugins
  <2> QED
    BY <2>1, <2>2
<1>5. Hooks!InOrder
  BY <1>1, <1>4 DEF Hooks!InOrder, Consecutive
<1>6. Hooks!NothingAfterFailure
  BY <1>1 DEF Hooks!NothingAfterFailure, Consecutive
<1> QED
  BY <1>5, <1>6

LEMMA ZeroIsDone ==
  ASSUME HooksInv
  PROVE  Hooks!ZeroMeansDone
<1> SUFFICES ASSUME over = "0"
             PROVE  /\ \A i \in DOMAIN called : called[i].ok
                    /\ asked.command \in Hooks!Phased =>
                         /\ \A s \in {asked.command} \cup (IF Hooks!NeedsBuild(asked) THEN {"build"} ELSE {}) :
                              /\ \A x \in {"pre", "post"} : Hooks!Called(s, x) =
                                   {p.name : p \in {q \in Hooks!Range(Hooks!Plugins) : <<x, s>> \in q.hooks}}
                              /\ \A x \in Hooks!Main(s) : Hooks!Called(s, x) # {}
                         /\ \A i, j \in DOMAIN called :
                              called[i].script = "build" /\ called[j].script = "up" => i < j
  BY DEF Hooks!ZeroMeansDone
<1>1. error = "none" /\ Len(scripts) = 1 /\ \A x \in Hooks!Nodes(Now) : node[x] = "done"
  BY DEF HooksInv, EndsAreSound
<1>2. \A i \in DOMAIN called : called[i].ok
  BY <1>1 DEF HooksInv, CallIsDue
<1>3. \A s, x : Hooks!Called(s, x) = Made(s, x)
  BY <1>2 DEF Hooks!Called, Made
<1>4. ASSUME asked.command \in Hooks!Phased,
             NEW s \in {asked.command} \cup (IF Hooks!NeedsBuild(asked) THEN {"build"} ELSE {})
      PROVE  /\ \A x \in {"pre", "post"} : Hooks!Called(s, x) =
                  {p.name : p \in {q \in Hooks!Range(Hooks!Plugins) : <<x, s>> \in q.hooks}}
             /\ \A x \in Hooks!Main(s) : Hooks!Called(s, x) # {}
  <2>1. s = Now \/ s \in Behind(asked, scripts)
    BY <1>1, <1>4, ScriptsUnfold DEF HooksInv, HooksTypes, Now, Hooks!Phased
  <2>2. s \in Hooks!Phased /\ s \in ScriptNames /\ s # "plugin"
    BY <1>4 DEF Hooks!Phased, ScriptNames
  <2>3. ASSUME NEW x \in Hooks!Nodes(s)
        PROVE  Hooks!CallsOf(s, x) # Hooks!Refused /\ Made(s, x) = In(Hooks!CallsOf(s, x))
    <3>1. CASE s = Now
      BY <1>1, <3>1 DEF HooksInv, NodeIsSound
    <3>2. CASE s \in Behind(asked, scripts)
      BY <3>2 DEF HooksInv, PastIsDone
    <3> QED
      BY <2>1, <3>1, <3>2
  <2>4. ASSUME NEW x \in {"pre", "post"}
        PROVE  Hooks!Called(s, x) =
                  {p.name : p \in {q \in Hooks!Range(Hooks!Plugins) : <<x, s>> \in q.hooks}}
    <3>1. x \in Hooks!Nodes(s)
      BY <2>2 DEF Hooks!Nodes
    <3>2. FiredUpTo(project.refs, Len(project.refs), s, x, Hooks!CallsOf(s, x))
      BY <2>2, <2>3, <3>1, CallsOfAre DEF HooksInv
    <3>3. Hooks!Called(s, x) = Having(project.refs, Len(project.refs), s, x)
      BY <1>3, <2>3, <3>1, <3>2 DEF FiredUpTo
    <3>4. DOMAIN project.refs = 1 .. Len(project.refs)
      BY InvocationAssumed DEF HooksInv, HooksTypes
    <3> QED
      BY <3>3, <3>4 DEF Having, Hooks!Range, Hooks!Plugins
  <2>5. ASSUME NEW x \in Hooks!Main(s)
        PROVE  Hooks!Called(s, x) # {}
    <3>1. x \in Hooks!Nodes(s)
      BY DEF Hooks!Nodes
    <3>2. Len(Hooks!CallsOf(s, x)) = 1
      BY <2>2, <2>3, <3>1, CallsOfAre DEF HooksInv
    <3>3. Hooks!CallsOf(s, x)[1] \in In(Hooks!CallsOf(s, x))
      BY <3>2 DEF In
    <3> QED
      BY <1>3, <2>3, <3>1, <3>3
  <2> QED
    BY <2>4, <2>5
<1>5. ASSUME NEW i \in DOMAIN called, NEW j \in DOMAIN called,
             called[i].script = "build", called[j].script = "up"
      PROVE  i < j
  <2>1. i \in Nat /\ j \in Nat /\ i # j
    BY <1>5 DEF HooksInv, HooksTypes
  <2>2. ~(j < i)
    BY <1>5 DEF HooksInv, CallsAreOrdered, Consecutive
  <2> QED
    BY <2>1, <2>2
<1> QED
  BY <1>2, <1>4, <1>5

LEMMA OwnersAct ==
  ASSUME HooksInv
  PROVE  Hooks!RuntimesOwnerActs
<1> DEFINE named == Hooks!resolveRuntimePlugin(project, asked.runtime)
<1> SUFFICES ASSUME NEW i \in DOMAIN called, called[i].node = "main", called[i].script \in Hooks!Phased
             PROVE  /\ named # "throws" /\ (named # "none" => called[i].plugin = named)
                    /\ \A j \in DOMAIN called :
                         called[j].script = called[i].script /\ called[j].node = "main" => j = i
  BY DEF Hooks!RuntimesOwnerActs, Hooks!None, Hooks!Throws
<1>1. PICK s, u : s = called[i].script /\ u = called[i].plugin
  OBVIOUS
<1>2. PICK C : C = Hooks!CallsOf(s, "main")
  OBVIOUS
<1>3. "main" \in Hooks!Nodes(s) /\ C # Hooks!Refused /\ u \in In(C)
  BY <1>1, <1>2 DEF HooksInv, CallIsDue
<1>4. "main" \in Hooks!Main(s) /\ s \in ScriptNames /\ s # "plugin" /\ s \in Hooks!Phased
  BY <1>1, <1>3, NodesUnfold DEF Hooks!Phased, ScriptNames
<1>5. Len(C) = 1 /\ named # "throws" /\ (named # "none" => C[1] = named)
  BY <1>2, <1>3, <1>4, CallsOfAre DEF HooksInv
<1>6. u = C[1]
  BY <1>3, <1>5 DEF In
<1>7. ASSUME NEW j \in DOMAIN called, called[j].script = s, called[j].node = "main", j # i
      PROVE  FALSE
  <2>1. i \in Nat /\ j \in Nat
    BY DEF HooksInv, HooksTypes
  <2>2. i < j \/ j < i
    BY <1>7, <2>1
  <2> QED
    BY <1>1, <1>7, <2>2 DEF HooksInv, CallsAreOrdered, Consecutive
<1> QED
  BY <1>1, <1>5, <1>6, <1>7

LEMMA CleanedOnce ==
  ASSUME HooksInv
  PROVE  Hooks!CleansOnce
<1>1. /\ closing \in Seq(Nat) /\ closed \in Seq(Nat) /\ Hooks!IsInjective(closing \o closed)
      /\ over \in {"0", "1"} => closing = << >> /\ Mine \subseteq In(closing) \cup In(closed)
  BY DEF HooksInv, CleanupsAreSound
<1>2. In(<< >>) = {} /\ In(closed) = Hooks!Range(closed)
  <2>1. Len(<< >>) = 0 /\ 1 .. 0 = {} /\ DOMAIN closed = 1 .. Len(closed)
    BY <1>1
  <2> QED
    BY <2>1 DEF In, Hooks!Range
<1>3. over \in {"0", "1"} => Mine \subseteq Hooks!Range(closed)
  BY <1>1, <1>2
<1> QED
  BY <1>1, <1>3 DEF Hooks!CleansOnce, Mine

LEMMA HooksAreKept ==
  ASSUME HooksInv
  PROVE  /\ Hooks!TypeOK /\ Hooks!InOrder /\ Hooks!NothingAfterFailure
         /\ Hooks!ZeroMeansDone /\ Hooks!RuntimesOwnerActs /\ Hooks!CleansOnce
<1>1. Hooks!TypeOK
  BY DEF HooksInv, HooksTypes, Hooks!TypeOK, Hooks!Script, Hooks!None, Now
<1> QED
  BY <1>1, HooksInOrder, ZeroIsDone, OwnersAct, CleanedOnce

-----------------------------------------------------------------------------
(* Together. *)

\* The other parts of MCCommand do not run in a behaviour of these.
CommandInv ==
  /\ part = "crowd" => CrowdInv
  /\ part = "decision" => DecisionInv
  /\ part = "vitest" => SessionInv
  /\ part = "hooks" => HooksInv

LEMMA CommandsAlways == Spec => []CommandInv
<1>1. Init => CommandInv
  BY CrowdInit, DecisionInit, SessionInit, HooksStart DEF Init, CommandInv
<1>2. CommandInv /\ [Next]_vars => CommandInv'
  <2> SUFFICES ASSUME CommandInv, [Next]_vars PROVE CommandInv'
    OBVIOUS
  <2>0. ASSUME part' = "crowd" PROVE CrowdInv'
    <3>1. CASE Next
      BY <2>0, <3>1, CrowdNext DEF Next, CommandInv
    <3>2. CASE UNCHANGED vars
      <4>1. CrowdInv
        BY <2>0, <3>2 DEF vars, CommandInv
      <4>2. CrowdTypes'
        BY <3>2, <4>1 DEF vars, CrowdInv, CrowdTypes, PP!Sound
      <4>3. ASSUME NEW c \in Crowd PROVE Books(c)'
        BY <3>2, <4>1, OthersKept DEF vars, CrowdInv
      <4> QED
        BY <4>2, <4>3 DEF CrowdInv
    <3> QED
      BY <3>1, <3>2
  <2>1. ASSUME part' = "decision" PROVE DecisionInv'
    <3>1. CASE Next
      BY <2>1, <3>1, DecisionNext DEF Next, CommandInv
    <3>2. CASE UNCHANGED vars
      BY <2>1, <3>2 DEF vars, CommandInv, DecisionInv, Admitted, Waiting
    <3> QED
      BY <3>1, <3>2
  <2>2. ASSUME part' = "vitest" PROVE SessionInv'
    <3>1. CASE Next
      BY <2>2, <3>1, SessionNext DEF Next, CommandInv
    <3>2. CASE UNCHANGED vars
      BY <2>2, <3>2 DEF vars, CommandInv, SessionInv, SessionTypes, QueueIsSound,
         OneMessage, Unsent, Sent, Busy, Told, Nobox, Failing, Exited, Aborted
    <3> QED
      BY <3>1, <3>2
  <2>3. ASSUME part' = "hooks" PROVE HooksInv'
    <3>1. CASE Next
      BY <2>3, <3>1, HooksNext DEF Next, CommandInv
    <3>2. CASE UNCHANGED vars
      <4>1. HooksInv /\ UNCHANGED <<project, asked, scripts, node, todo, error, called, cleanups,
                                    closing, closed, over>>
        BY <2>3, <3>2 DEF vars, CommandInv
      <4> QED
        BY <4>1, HooksUndisturbed
    <3> QED
      BY <3>1, <3>2
  <2> QED
    BY <2>0, <2>1, <2>2, <2>3 DEF CommandInv
<1> QED
  BY <1>1, <1>2, PTL DEF Spec

\* Of every crowd of commands: slots are held by the living, the workers of all
\* of them fit the budget while nobody is stopped, code 0 means that every step
\* passed, and a timeout reaches every child (packages/nopo/src/index.ts, io.ts,
\* child-registry.ts).
THEOREM CommandsKeepToBudget == Spec => []CommandsStayInBudget
<1>1. CommandInv => CommandsStayInBudget
  BY CrowdInvGives DEF CommandInv, CommandsStayInBudget
<1> QED
  BY <1>1, CommandsAlways, PTL

\* Of every decision client: its places are the calls that wait, the service sees
\* no more requests than the limits say, and what it accepts answers everything
\* (decisions/index.ts).
THEOREM DecisionsStayBounded == Spec => []AnswersAreBounded
<1>1. CommandInv => AnswersAreBounded
  BY DecisionInvGives DEF CommandInv, AnswersAreBounded
<1> QED
  BY <1>1, CommandsAlways, PTL

\* Of every coordinator: its process has one request at a time and each waiting
\* request is kept, however often the process ends (session.ts,
\* session-worker.mjs).
THEOREM SessionsRunOneByOne == Spec => []OneRunAtATime
<1>1. CommandInv => OneRunAtATime
  BY SessionInvGives DEF CommandInv, OneRunAtATime
<1> QED
  BY <1>1, CommandsAlways, PTL

\* Of every invocation, whatever its projects, plugins, targets and command lines:
\* hooks run in the order of phases and of declaration, nothing is called after a
\* failure, code 0 means that everything was called, the runtime's plugin alone
\* acts, and each cleanup runs once (lib.ts, config/index.ts).
THEOREM HooksStayInOrder == Spec => []HooksRunInOrder
<1>1. CommandInv => HooksRunInOrder
  BY HooksAreKept DEF CommandInv, HooksRunInOrder
<1> QED
  BY <1>1, CommandsAlways, PTL

\* Of a decision client and a coordinator: what comes after a timeout or an abort changes nothing.
THEOREM LateNewsNeverCounts == Spec => LateNewsIsIgnored
<1>1. CommandInv /\ [Next]_vars =>
        [/\ part = "decision" => Decisions!NothingSentLate /\ Decisions!FirstResultStands
         /\ part = "vitest" => Vitest!AbortedNeverSent]_vars
  BY DecisionSteps, SessionSteps DEF CommandInv, Next
<1> QED
  BY <1>1, CommandsAlways, PTL DEF Spec, LateNewsIsIgnored

=============================================================================
