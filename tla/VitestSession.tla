---------------------------- MODULE VitestSession ----------------------------
(***************************************************************************)
(* The coordinator that the Vitest tasks of one invocation share           *)
(* (vitest/src/session.ts) and its worker process (session-worker.mjs):    *)
(* requests queue in nopo, one at a time is sent over an IPC channel to a  *)
(* process that may crash, be killed or exit, and that is started again    *)
(* for what is left.                                                       *)
(*                                                                         *)
(* The channel is two queues.  Node closes a child only once its IPC       *)
(* channel is read empty, so every message the worker sent arrives before  *)
(* the session learns of its end.                                          *)
(***************************************************************************)
EXTENDS Sequences, Integers, FiniteSets

CONSTANTS
    Requests,         \* the calls of runVitestProcess that use the session
    Abortable,        \* those with a signal: the discoveries
    maxCrashes        \* bound: how often the process crashes by itself

RequestsAssumption == Abortable \subseteq Requests

VARIABLES
    request,          \* where each request is, and how its promise was settled
    queue, active, ended, draining,     \* the fields of the session
    worker,           \* the process: [alive, killed, busy, closing]
    outbox, inbox,    \* what was sent to the process, what it sent
    crashes,          \* the processes that crashed by themselves
    gone              \* nopo itself has exited

vars == <<request, queue, active, ended, draining, worker, outbox, inbox, crashes, gone>>

None == "none"
Close == "close"
NoWorker == [alive |-> FALSE, killed |-> FALSE, busy |-> None, closing |-> FALSE]
Started == [NoWorker EXCEPT !.alive = TRUE]

Settled(r) == request[r] \in {"result", "exited", "aborted", "closed"}
\* A promise is settled once: a later resolve or reject does nothing.
Settle(rs, how) == [r \in Requests |-> IF r \in rs /\ ~Settled(r) THEN how ELSE request[r]]

Kill(w) == IF w.alive THEN [w EXCEPT !.killed = TRUE] ELSE w
Send(box, message, w) == IF w.alive THEN Append(box, message) ELSE box

(* ------------------------------ the session ----------------------------- *)

\* Broken: dispatch does not look at the request that is active.
dispatchAll(q, a, w, box) ==
    /\ queue' = IF q = <<>> THEN q ELSE Tail(q)
    /\ active' = IF q = <<>> THEN a ELSE Head(q)
    /\ outbox' = IF q = <<>> THEN box ELSE Send(box, Head(q), w)

\* dispatch: the first of q is sent unless one is active.  A send to a process
\* that is gone is lost, and its end is yet to be noticed.
dispatch(q, a, w, box) ==
    LET next == a = None /\ q # <<>> IN
    /\ queue' = IF next THEN Tail(q) ELSE q
    /\ active' = IF next THEN Head(q) ELSE a
    /\ outbox' = IF next THEN Send(box, Head(q), w) ELSE box

\* runVitestProcess and run.  The session of the runner is replaced when it has
\* ended; nothing calls it once the runner is being disposed of.
run(r) ==
    /\ request[r] = "new"
    /\ ~draining /\ ~gone
    /\ request' = [request EXCEPT ![r] = "waiting"]
    /\ IF ended
       THEN /\ worker' = Started
            /\ inbox' = <<>>
            /\ dispatch(<<r>>, None, Started, <<>>)
       ELSE /\ dispatch(Append(queue, r), active, worker, outbox)
            /\ UNCHANGED <<worker, inbox>>
    /\ ended' = FALSE
    /\ UNCHANGED <<draining, crashes, gone>>

\* A call whose signal has fired already.
runAborted(r) ==
    /\ r \in Abortable /\ request[r] = "new"
    /\ ~draining /\ ~gone
    /\ request' = [request EXCEPT ![r] = "aborted"]
    /\ worker' = IF ended THEN Started ELSE worker
    /\ ended' = FALSE
    /\ UNCHANGED <<queue, active, draining, outbox, inbox, crashes, gone>>

\* this.queue.filter(): the others, in their order (SelectSeq as a recursive
\* function, which the proofs can unfold).
Without(s, r) ==
    LET kept[i \in 0 .. Len(s)] ==
            IF i = 0 THEN <<>>
            ELSE IF s[i] = r THEN kept[i - 1] ELSE Append(kept[i - 1], s[i])
    IN  kept[Len(s)]

\* The signal of a request fires.
abort(r) ==
    /\ r \in Abortable /\ request[r] = "waiting" /\ ~gone
    /\ queue' = Without(queue, r)
    /\ request' = Settle({r}, "aborted")
    /\ worker' = IF active = r THEN Kill(worker) ELSE worker
    /\ UNCHANGED <<active, ended, draining, outbox, inbox, crashes, gone>>

\* An answer arrives: it counts when it is the active request's.
onMessage ==
    /\ inbox # <<>> /\ ~gone
    /\ inbox' = Tail(inbox)
    /\ IF Head(inbox) = active
       THEN /\ request' = Settle({active}, "result")
            /\ dispatch(queue, None, worker, outbox)
       ELSE UNCHANGED <<request, queue, active, outbox>>
    /\ UNCHANGED <<ended, draining, worker, crashes, gone>>

Everyone == ({active} \ {None}) \cup {queue[i] : i \in DOMAIN queue}

\* fail: whatever is left is rejected.
Fail(how) ==
    /\ request' = Settle(Everyone, how)
    /\ ended' = TRUE
    /\ active' = None
    /\ queue' = <<>>
    /\ UNCHANGED <<worker, outbox>>

\* exited: the session learns that its process has ended.
exited ==
    /\ ~worker.alive /\ inbox = <<>> /\ ~ended /\ ~gone
    /\ IF draining
       THEN Fail("closed")
       ELSE /\ request' = Settle({active} \ {None}, "exited")
            /\ ended' = (queue = <<>>)
            /\ worker' = IF queue = <<>> THEN worker ELSE Started
            /\ dispatch(queue, None, Started, <<>>)
    /\ UNCHANGED <<draining, inbox, crashes, gone>>

\* close: the runner is disposed of.
close ==
    /\ ~ended /\ ~draining /\ ~gone
    /\ draining' = TRUE
    /\ outbox' = Send(outbox, Close, worker)
    /\ UNCHANGED <<request, queue, active, ended, worker, inbox, crashes, gone>>

\* Its timer: the process has not closed in three seconds.
closeTimer ==
    /\ draining /\ ~ended /\ ~gone
    /\ worker' = Kill(worker)
    /\ UNCHANGED <<request, queue, active, ended, draining, outbox, inbox, crashes, gone>>

\* nopo exits: at the end, or at any time by process.exit or a signal.
nopoExits ==
    /\ ~gone
    /\ gone' = TRUE
    /\ UNCHANGED <<request, queue, active, ended, draining, worker, outbox, inbox, crashes>>

(* ------------------------------ the worker ------------------------------ *)

\* handle begins.  A request that comes once it is shutting down is dropped.
handle ==
    /\ worker.alive /\ worker.busy = None
    /\ outbox # <<>> /\ Head(outbox) # Close
    /\ outbox' = Tail(outbox)
    /\ worker' = [worker EXCEPT !.busy = IF worker.closing THEN None ELSE Head(outbox)]
    /\ UNCHANGED <<request, queue, active, ended, draining, inbox, crashes, gone>>

\* handle ends: it answers, whether the run passed, failed or threw.
answers ==
    /\ worker.alive /\ worker.busy # None
    /\ inbox' = Append(inbox, worker.busy)
    /\ worker' = [worker EXCEPT !.busy = None]
    /\ UNCHANGED <<request, queue, active, ended, draining, outbox, crashes, gone>>

\* shutdown: asked for once the requests before it are over, or at once when the
\* channel to nopo is cut.
shutdown ==
    /\ worker.alive /\ ~worker.closing
    /\ \/ /\ worker.busy = None /\ outbox # <<>> /\ Head(outbox) = Close
          /\ outbox' = Tail(outbox)
       \/ gone /\ UNCHANGED outbox
    /\ worker' = [worker EXCEPT !.closing = TRUE]
    /\ UNCHANGED <<request, queue, active, ended, draining, inbox, crashes, gone>>

Ends ==
    /\ worker' = NoWorker
    /\ outbox' = <<>>
    /\ UNCHANGED <<request, queue, active, ended, draining, inbox, gone>>

\* The process ends: killed or shut down, or by a crash of its own.
dies ==
    /\ worker.alive /\ (worker.killed \/ worker.closing)
    /\ Ends /\ UNCHANGED crashes

crash ==
    /\ worker.alive /\ ~worker.killed /\ ~worker.closing /\ crashes < maxCrashes
    /\ crashes' = crashes + 1
    /\ Ends

Init ==
    /\ request = [r \in Requests |-> "new"]
    /\ queue = <<>> /\ active = None
    /\ ended = TRUE /\ draining = FALSE
    /\ worker = NoWorker
    /\ outbox = <<>> /\ inbox = <<>>
    /\ crashes = 0 /\ gone = FALSE

Session == onMessage \/ exited
Process == handle \/ answers \/ shutdown

Next ==
    \/ \E r \in Requests : run(r) \/ runAborted(r) \/ abort(r)
    \/ Session \/ close \/ closeTimer \/ nopoExits
    \/ Process \/ dies \/ crash

Spec == Init /\ [][Next]_vars

(* ------------------------------ properties ------------------------------ *)

\* The types of the state.
TypeOK ==
    /\ request \in [Requests -> {"new", "waiting", "result", "exited", "aborted", "closed"}]
    /\ queue \in Seq(Requests) /\ active \in Requests \cup {None}
    /\ {ended, draining, gone} \subseteq BOOLEAN
    /\ worker.alive \in BOOLEAN /\ worker.busy \in Requests \cup {None}
    /\ crashes \in 0 .. maxCrashes

\* "Ready tasks queue through that coordinator": the process has one request at
\* a time, from the send to the answer (the dispatch guard and the queue).
OneAtATime ==
    LET sent == Cardinality({i \in DOMAIN outbox : outbox[i] # Close})
    IN  sent + Len(inbox) + (IF worker.busy = None THEN 0 ELSE 1) <= 1

\* What the process writes is credited to the request it is running: onChunk and
\* onMessage take the active one for its author.
OutputIsItsOwn == worker.busy # None /\ ~ended => active = worker.busy

\* A waiting request is in the queue or active: the session forgets none.
NoneForgotten ==
    \A r \in Requests :
        request[r] = "waiting" => r = active \/ \E i \in DOMAIN queue : queue[i] = r

\* One process that ends by itself fails one request, and an aborted one at most
\* one more: the rest goes on in the next process.
CrashFailsOne ==
    Cardinality({r \in Requests : request[r] = "exited"})
        <= crashes + Cardinality({r \in Requests : request[r] = "aborted"})

\* A request whose signal fired while it waited is never sent to the process.
AbortedNeverSent ==
    \A r \in Requests : (request[r] = "aborted" /\ active # r) => active' # r

\* What is true in the end, however often the process ends: every request is
\* settled, unless it waits behind a test run that never ends; a session that was
\* closed has ended and its process with it, also when a test run never ends; and
\* no coordinator outlives nopo, which may exit without disposing of it.
InTheEnd ==
    /\ gone \/ worker.busy # None \/ \A r \in Requests : request[r] # "waiting"
    /\ draining => (ended /\ ~worker.alive) \/ gone
    /\ gone => ~worker.alive
=============================================================================
