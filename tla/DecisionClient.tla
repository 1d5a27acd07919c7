--------------------------- MODULE DecisionClient ---------------------------
(***************************************************************************)
(* The decision client (decisions/index.ts): concurrent calls of evaluate  *)
(* on one instance, which share its budget of requests and its limit of    *)
(* calls at a time.  Each admitted call is a race between its work (find a *)
(* token, send the request, read and validate the answer) and a timer that *)
(* aborts the request; the loser goes on running, and its result is        *)
(* dropped.                                                                *)
(*                                                                         *)
(* A question is [type, options]: the options of a choice, the positions   *)
(* of a score, none for a noul.  An answer is [type, value, probabilities, *)
(* legend] with the probabilities in thousandths.                          *)
(***************************************************************************)
EXTENDS Integers, FiniteSets, Functions

CONSTANTS
    Calls,            \* the calls made of the client
    Requests,         \* what callers ask: a function from ids to questions, or Malformed
    Malformed,        \* a request that the schema or the size limit refuses
    Bodies,           \* what the service may answer: a function from ids to answers
    Settings,         \* the configurations: [configured, token, secret, fixture]
    maxRequests,
    maxConcurrency

VARIABLES
    config,           \* the setting this client was made with
    requests, active, \* the client's two counters
    call              \* each call's work, the winner of its race and its result

vars == <<config, requests, active, call>>

None == "none"
Unavailable == {"disabled", "request", "budget", "busy", "credentials",
                "timeout", "network", "response", "mock-miss"}
Idle == [request |-> Malformed, work |-> "none", race |-> None, result |-> None,
         aborted |-> FALSE, sent |-> FALSE, body |-> <<>>]

(* ------------------------------ answers ------------------------------- *)

Options(question) == IF question.type = "noul" THEN {} ELSE question.options

Valid(question, answer) ==
    /\ answer.type = question.type
    /\ question.type # "noul" =>
        /\ DOMAIN answer.probabilities = Options(question)
        /\ FoldFunction(+, 0, answer.probabilities) \in 999 .. 1001
    /\ question.type = "choice" => answer.value \in Options(question)
    /\ question.type = "score" =>
        /\ answer.value \in 0 .. (Cardinality(Options(question)) - 1)
        /\ answer.legend = Options(question)

\* True when validateAnswers returns the response instead of throwing.
validateAnswers(request, body) ==
    /\ DOMAIN body = DOMAIN request
    /\ \A id \in DOMAIN request : Valid(request[id], body[id])

(* ------------------------------- a call ------------------------------- *)

\* One side of the race ends; the other's result is dropped.
\* Broken: the last of the two results stands.
ResolveLast(c, result, work, body) ==
    call' = [call EXCEPT ![c].race = result, ![c].work = work, ![c].body = body]

Resolve(c, result, work, body) ==
    call' = IF call[c].race = None
            THEN [call EXCEPT ![c].race = result, ![c].work = work, ![c].body = body]
            ELSE [call EXCEPT ![c].work = work]

Over(c, result) == Resolve(c, result, "over", <<>>)

Refuse(c, r, reason) ==
    /\ call' = [call EXCEPT ![c] = [@ EXCEPT !.request = r, !.work = "over",
                                            !.race = reason, !.result = reason]]
    /\ UNCHANGED <<requests, active>>

\* The work runs up to its first await: with a fixture, or without any token,
\* it is over by then.
Work(r, state) == [Idle EXCEPT !.request = r, !.work = state, !.sent = (state = "fetch")]
Ended(r, result, body) == [Work(r, "over") EXCEPT !.race = result, !.body = body]

Started(r) ==
    CASE config.fixture = "empty" -> {Ended(r, "mock-miss", <<>>)}
      [] config.fixture = "full"  ->
            {Ended(r, IF validateAnswers(r, body) THEN "ok" ELSE "response",
                   body) : body \in Bodies}
      [] config.fixture = "none" /\ config.token -> {Work(r, "fetch")}
      [] config.fixture = "none" /\ ~config.token /\ config.secret -> {Work(r, "secret")}
      [] OTHER -> {Ended(r, "credentials", <<>>)}

Admit(c, r) ==
    /\ requests' = requests + 1
    /\ active' = active + 1
    /\ \E started \in Started(r) : call' = [call EXCEPT ![c] = started]

evaluate(c, r) ==
    /\ call[c].work = "none"
    /\ IF ~config.configured THEN Refuse(c, r, "disabled")
       ELSE IF r = Malformed THEN Refuse(c, r, "request")
       ELSE IF requests >= maxRequests THEN Refuse(c, r, "budget")
       ELSE IF active >= maxConcurrency THEN Refuse(c, r, "busy")
       ELSE Admit(c, r)
    /\ UNCHANGED config

\* The secret's promise settles: with a value, or without one, or it throws.
secret(c, found) ==
    /\ call[c].work = "secret"
    /\ IF ~found THEN Over(c, "credentials")
       ELSE IF call[c].aborted THEN Over(c, "timeout")
       ELSE call' = [call EXCEPT ![c].work = "fetch", ![c].sent = TRUE]
    /\ UNCHANGED <<config, requests, active>>

\* The fetch fails, or the service answers something other than a success.
fetchFails(c) ==
    /\ call[c].work = "fetch"
    /\ Over(c, IF call[c].aborted THEN "timeout" ELSE "network")
    /\ UNCHANGED <<config, requests, active>>

\* A success arrives.  An aborted fetch only rejects.
fetched(c) ==
    /\ call[c].work = "fetch"
    /\ ~call[c].aborted
    /\ call' = [call EXCEPT ![c].work = "body"]
    /\ UNCHANGED <<config, requests, active>>

\* The body is read: an answer, or a stream that is cut off, is too long or
\* is not JSON (<<>>).  The stream of an aborted request only rejects.
boundedResponse(c, body) ==
    /\ call[c].work = "body"
    /\ call[c].aborted => body = <<>>
    /\ IF body # <<>> /\ validateAnswers(call[c].request, body)
       THEN Resolve(c, "ok", "over", body)
       ELSE Over(c, "response")
    /\ UNCHANGED <<config, requests, active>>

\* The timer fires; once the race is decided clearTimeout has stopped it.
timeout(c) ==
    /\ call[c].work \notin {"none", "over"}
    /\ call[c].race = None
    /\ call' = [call EXCEPT ![c].race = "timeout", ![c].aborted = TRUE]
    /\ UNCHANGED <<config, requests, active>>

\* Broken: the place is not given back by a call that timed out.
returnsKept(c) ==
    /\ call[c].race # None
    /\ call[c].result = None
    /\ active' = IF call[c].aborted THEN active ELSE active - 1
    /\ call' = [call EXCEPT ![c].result = call[c].race]
    /\ UNCHANGED <<config, requests>>

\* The caller's await ends, after the finally block has given the place back.
\* Calls that are made before that, in the same turn of the event loop, still
\* find the place taken, even when a fixture has answered.
returns(c) ==
    /\ call[c].race # None
    /\ call[c].result = None
    /\ active' = active - 1
    /\ call' = [call EXCEPT ![c].result = call[c].race]
    /\ UNCHANGED <<config, requests>>

Init ==
    /\ config \in Settings
    /\ requests = 0
    /\ active = 0
    /\ call = [c \in Calls |-> Idle]

Next ==
    \E c \in Calls :
        \/ \E r \in Requests \cup {Malformed} : evaluate(c, r)
        \/ \E found \in BOOLEAN : secret(c, found)
        \/ fetchFails(c)
        \/ fetched(c)
        \/ \E body \in Bodies \cup {<<>>} : boundedResponse(c, body)
        \/ timeout(c)
        \/ returns(c)

Spec == Init /\ [][Next]_vars

(* ----------------------------- properties ----------------------------- *)

Pending(c) == call[c].work # "none" /\ call[c].result = None

TypeOK ==
    /\ requests \in 0 .. maxRequests
    /\ active \in 0 .. maxConcurrency
    /\ \A c \in Calls :
        /\ call[c].work \in {"none", "secret", "fetch", "body", "over"}
        /\ call[c].race \in Unavailable \cup {"ok", None}
        /\ call[c].result \in {call[c].race, None}

\* The places in use are the calls that wait for their result: none is kept
\* by a call that timed out while its work goes on, and none is given back
\* twice when that work ends.
PlacesArePending == active = Cardinality({c \in Calls : Pending(c)})

\* No more requests are open to the service than calls are allowed at a time,
\* though the work of calls that timed out goes on next to that of new ones.
RequestsAreBounded ==
    Cardinality({c \in Calls : call[c].work \in {"fetch", "body"} /\ ~call[c].aborted})
        <= maxConcurrency

\* One instance sends no more requests than its budget, timed out or not.
BudgetIsSpent == Cardinality({c \in Calls : call[c].sent}) <= maxRequests

\* Nothing is sent for a call that has timed out: a secret that takes longer
\* than the timeout is found for nothing.
NothingSentLate ==
    \A c \in Calls : call'[c].sent /\ ~call[c].sent => call[c].race = None

\* The first result is the caller's: an answer that comes after the timeout
\* never replaces it, nor a timeout the answer.
FirstResultStands ==
    \A c \in Calls : call[c].race # None =>
         call'[c].race = call[c].race /\ call'[c].body = call[c].body

\* The answers of a call are to the questions it asked, every one of them, and
\* each names an option that question has.
AnswersFit ==
    \A c \in Calls : call[c].result = "ok" =>
        /\ DOMAIN call[c].body = DOMAIN call[c].request
        /\ \A id \in DOMAIN call[c].request :
            call[c].request[id].type = "choice" =>
                call[c].body[id].value \in call[c].request[id].options

\* Every call that was made has its result.
NobodyWaits == \A c \in Calls : ~Pending(c)
=============================================================================
