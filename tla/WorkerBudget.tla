---------------------------- MODULE WorkerBudget ----------------------------
(***************************************************************************)
(* What the worker queue promises the commands of one machine, told from   *)
(* their side: a command waits, runs on a lease of some slots, or runs     *)
(* unthrottled when there is no broker to ask; the leases of the current   *)
(* broker never sum to more than the budget.                               *)
(***************************************************************************)
EXTENDS Integers, FiniteSets

CONSTANTS Commands, Slots    \* Slots: the budget

VARIABLES stage,   \* "idle", "waiting", "leased", "unthrottled" or "over"
          lease    \* the slots of a leased command, else 0
vars == <<stage, lease>>

Leased(l) == Cardinality({s \in Commands \X (1 .. Slots) : s[2] <= l[s[1]]})

Init == /\ stage = [c \in Commands |-> "idle"]
        /\ lease = [c \in Commands |-> 0]

Ask(c) == /\ stage[c] = "idle"
          /\ stage' = [stage EXCEPT ![c] = "waiting"]
          /\ UNCHANGED lease

Lease(c, n) == /\ stage[c] = "waiting"
               /\ Leased(lease) + n <= Slots
               /\ stage' = [stage EXCEPT ![c] = "leased"]
               /\ lease' = [lease EXCEPT ![c] = n]

FailOpen(c) == /\ stage[c] \in {"idle", "waiting"}
               /\ stage' = [stage EXCEPT ![c] = "unthrottled"]
               /\ UNCHANGED lease

End(c) == /\ stage[c] # "over"
          /\ stage' = [stage EXCEPT ![c] = "over"]
          /\ lease' = [lease EXCEPT ![c] = 0]

\* The broker is gone, and all its leases with it; the commands run on.
LoseBroker ==
  /\ stage' = [c \in Commands |-> IF stage[c] = "leased" THEN "unthrottled" ELSE stage[c]]
  /\ lease' = [c \in Commands |-> 0]

Next == \/ LoseBroker
        \/ \E c \in Commands : Ask(c) \/ FailOpen(c) \/ End(c)
        \/ \E c \in Commands, n \in 1 .. Slots : Lease(c, n)

Spec == Init /\ [][Next]_vars
=============================================================================
