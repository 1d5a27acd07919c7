--------------------------- MODULE ResourceLimits ---------------------------
(***************************************************************************)
(* The automatic limit of workers (resource-limits.ts): what the cgroup    *)
(* files, the host and two variables say, and the number that every queue  *)
(* client and every plan without a limit of its own takes from it.  A file *)
(* is a number, "max", "odd" (neither) or "absent"; memory is             *)
(* counted in quarters of the default budget of a worker.                  *)
(***************************************************************************)
EXTENDS Integers, FiniteSetsExt

CONSTANTS Hosts,        \* [cpus, mem] of the machine
          CpuFiles,     \* what cpu.max, or the two files of version 1, may say
          MemFiles,     \* what memory.max, or the limit of version 1, may say
          Variables     \* what a variable may hold: a number, "odd" or "absent"

\* A machine has a core and some memory; a number is n/d.
LimitsAssumption ==
    /\ \A h \in Hosts : h.cpus \in Nat \ {0} /\ h.mem \in Nat \ {0}
    /\ \A f \in CpuFiles \cup MemFiles \cup Variables :
         f.kind = "number" => f.n \in Int /\ f.d \in Nat \ {0}

VARIABLES probe, call

vars == <<probe, call>>

Undefined == -1
NoCall == [done |-> FALSE, cap |-> 0]
MemPerWorker == 4

\* What a file or a variable holds: n/d when it is a number (d is 1 but for a
\* quota over its period; version 1 writes a quota of -1 for none).
File(kind) == [kind |-> kind, n |-> 0, d |-> 1]
Present(file) == file.kind # "absent"
Positive(file) == file.kind = "number" /\ file.n > 0

parsePositiveInt(value) == IF Positive(value) THEN value.n ELSE Undefined

\* The quota in force, File("max") when there is none.  A file of version 2 that
\* is there decides, whatever it says.
cgroupCpuLimit ==
    LET file == IF Present(probe.cpu2) THEN probe.cpu2 ELSE probe.cpu1
    IN  IF Positive(file) THEN file ELSE File("max")

cgroupMemoryLimit ==
    LET file == IF Present(probe.mem2) THEN probe.mem2 ELSE probe.mem1
    IN  IF Positive(file) /\ file.n < probe.host.mem THEN file.n ELSE Undefined

effectiveMemoryBudget ==
    IF cgroupMemoryLimit # Undefined THEN cgroupMemoryLimit ELSE (probe.host.mem * 3) \div 4

PerWorker ==
    LET set == parsePositiveInt(probe.perWorker)
    IN  IF set # Undefined THEN set ELSE MemPerWorker

memoryConcurrencyCap == Max({1, effectiveMemoryBudget \div PerWorker})

CpuCap ==
    LET quota == cgroupCpuLimit
    IN  IF quota.kind = "max" THEN Max({1, probe.host.cpus})
        ELSE Max({1, quota.n \div quota.d})

autoConcurrency ==
    LET override == parsePositiveInt(probe.override)
    IN  IF override # Undefined THEN override ELSE Max({1, Min({CpuCap, memoryConcurrencyCap})})

Init ==
    /\ probe \in [host : Hosts, cpu2 : CpuFiles, cpu1 : CpuFiles, mem2 : MemFiles, mem1 : MemFiles,
                  override : Variables, perWorker : Variables]
    /\ call = NoCall

Resolve ==
    /\ ~call.done
    /\ call' = [done |-> TRUE, cap |-> autoConcurrency]
    /\ UNCHANGED probe

Next == Resolve

Spec == Init /\ [][Next]_vars

(* ----------------------------- properties ----------------------------- *)

Overridden == parsePositiveInt(probe.override) # Undefined

\* There is always a worker: a quota of half a core, a budget smaller than one
\* worker and a variable of 0 leave one.
TypeOK == call.done => call.cap \in Nat \ {0}

\* More than one worker is never more than the quota pays for.
FitsQuota ==
    call.done /\ call.cap > 1 /\ ~Overridden =>
        \A file \in {IF Present(probe.cpu2) THEN probe.cpu2 ELSE probe.cpu1} :
            Positive(file) => call.cap * file.d <= file.n

\* More than one worker has the memory of its own in what the cgroup grants
\* and in what the machine has.
FitsMemory ==
    call.done /\ call.cap > 1 /\ ~Overridden =>
        /\ call.cap * PerWorker < probe.host.mem
        /\ \A file \in {IF Present(probe.mem2) THEN probe.mem2 ELSE probe.mem1} :
            Positive(file) => call.cap * PerWorker <= file.n

\* Where no cgroup limits them, the host's cores all work if the memory allows.
HostIsUsed ==
    call.done /\ ~Overridden /\ probe.cpu2.kind = "max" =>
        call.cap \in {probe.host.cpus, memoryConcurrencyCap}
=============================================================================
