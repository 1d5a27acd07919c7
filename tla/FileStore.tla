----------------------------- MODULE FileStore ------------------------------
(***************************************************************************)
(* FilesystemStore (packages/nopo/src/cache/stores/filesystem.ts), one     *)
(* system call at a time: nopo processes with different pids share one     *)
(* cache directory.  Within a process the calls of one operation follow    *)
(* each other; between processes anything may happen in between.           *)
(***************************************************************************)
EXTENDS Integers, FiniteSets

CONSTANTS
  Procs, Keys,    \* all keys share one prefix directory here
  Lives,          \* time to live each process gives its entries
  MaxTime,        \* bound: ticks of the clock
  MaxOps,         \* bound: operations of a process
  DiskFails,      \* writing a temporary file may fail
  Cleaning        \* processes that may call cleanup()

\* The bound on the clock leaves room for every entry's life.
FileStoreAssumption ==
  MaxTime \in Nat /\ Lives \in [Procs -> 0 .. MaxTime] /\ Cleaning \subseteq Procs

VARIABLES
  dir,      \* the prefix directory exists
  file,     \* key -> what is under <key>.json
  temp,     \* <<key, proc>> -> what is under <key>.json.tmp.<pid>
  probe,    \* the .write-test file exists
  clock,
  pc, arg,  \* proc -> its next call, and the entry or key it is about
  ops,      \* proc -> operations begun
  result    \* proc -> what its last operation returned
vars == <<dir, file, temp, probe, clock, pc, arg, ops, result>>

Said(r) == [key |-> r]
Nothing == Said("none")
Torn    == Said("torn")
Entries == {[key |-> k, expires |-> t, by |-> p] :
              k \in Keys, t \in 0 .. 2 * MaxTime, p \in Procs}

Init ==
  /\ dir = FALSE
  /\ file = [k \in Keys |-> Nothing]
  /\ temp = [x \in Keys \X Procs |-> Nothing]
  /\ probe = FALSE
  /\ clock = 0
  /\ pc = [p \in Procs |-> "idle"]
  /\ arg = [p \in Procs |-> Nothing]
  /\ ops = [p \in Procs |-> 0]
  /\ result = [p \in Procs |-> Nothing]

Go(p, call, a) == pc' = [pc EXCEPT ![p] = call] /\ arg' = [arg EXCEPT ![p] = a]
Begin(p, call, a) ==
  /\ pc[p] = "idle" /\ ops[p] < MaxOps
  /\ ops' = [ops EXCEPT ![p] = @ + 1]
  /\ result' = [result EXCEPT ![p] = Nothing]
  /\ Go(p, call, a)
Done(p, r) == Go(p, "idle", Nothing) /\ result' = [result EXCEPT ![p] = r]

isExpired(e) == e.expires < clock

-----------------------------------------------------------------------------
(* get(): read, parse, and unlink the path when what was read had expired. *)

\* Broken: entries are returned however old they are.
GetAnyAge(p) ==
  /\ pc[p] = "read" /\ Done(p, file[arg[p].key])
  /\ UNCHANGED <<dir, file, temp, probe, clock, ops>>
Get(p) ==
  LET e == file[arg[p].key] IN
  /\ pc[p] = "read"
  /\ IF e = Nothing \/ e = Torn THEN Done(p, Nothing)
     ELSE IF isExpired(e) THEN Go(p, "unlinkExpired", arg[p]) /\ UNCHANGED result
     ELSE Done(p, e)
  /\ UNCHANGED <<dir, file, temp, probe, clock, ops>>

UnlinkExpired(p) ==
  /\ pc[p] = "unlinkExpired"
  /\ file' = [file EXCEPT ![arg[p].key] = Nothing]
  /\ Done(p, Nothing)
  /\ UNCHANGED <<dir, temp, probe, clock, ops>>

-----------------------------------------------------------------------------
(* put(): mkdir, write the temporary file, rename it; unlink it on error.  *)

EnsureDir(p) ==
  /\ pc[p] = "mkdir" /\ dir' = TRUE
  /\ Go(p, "open", arg[p])
  /\ UNCHANGED <<file, temp, probe, clock, ops, result>>

MyTemp(p) == <<arg[p].key, p>>

\* Opening truncates; a directory removed meanwhile is an error.
OpenTemp(p) ==
  /\ pc[p] = "open"
  /\ IF dir THEN /\ temp' = [temp EXCEPT ![MyTemp(p)] = Torn]
                 /\ Go(p, "write", arg[p]) /\ UNCHANGED result
     ELSE Done(p, Said("error")) /\ UNCHANGED temp
  /\ UNCHANGED <<dir, file, probe, clock, ops>>

WriteTemp(p) ==
  /\ pc[p] = "write"
  /\ \/ temp' = [temp EXCEPT ![MyTemp(p)] = arg[p]] /\ Go(p, "rename", arg[p])
     \/ DiskFails /\ Go(p, "unlinkTemp", arg[p]) /\ UNCHANGED temp
  /\ UNCHANGED <<dir, file, probe, clock, ops, result>>

\* Broken: writes in place, so that a reader finds half an entry.
RenameInPlace(p) ==
  /\ pc[p] = "rename"
  /\ \/ file[arg[p].key] # Torn /\ file' = [file EXCEPT ![arg[p].key] = Torn]
        /\ UNCHANGED <<temp, pc, arg, result>>
     \/ file[arg[p].key] = Torn /\ file' = [file EXCEPT ![arg[p].key] = arg[p]]
        /\ temp' = [temp EXCEPT ![MyTemp(p)] = Nothing] /\ Done(p, Said("ok"))
  /\ UNCHANGED <<dir, probe, clock, ops>>
Rename(p) ==
  /\ pc[p] = "rename"
  /\ file' = [file EXCEPT ![arg[p].key] = temp[MyTemp(p)]]
  /\ temp' = [temp EXCEPT ![MyTemp(p)] = Nothing]
  /\ Done(p, Said("ok"))
  /\ UNCHANGED <<dir, probe, clock, ops>>

UnlinkTemp(p) ==
  /\ pc[p] = "unlinkTemp"
  /\ temp' = [temp EXCEPT ![MyTemp(p)] = Nothing]
  /\ Done(p, Said("error"))
  /\ UNCHANGED <<dir, file, probe, clock, ops>>

-----------------------------------------------------------------------------
(* delete(), isAvailable() and cleanup(). *)

Delete(p) ==
  /\ pc[p] = "unlink"
  /\ file' = [file EXCEPT ![arg[p].key] = Nothing]
  /\ Done(p, Said("ok"))
  /\ UNCHANGED <<dir, temp, probe, clock, ops>>

WriteProbe(p) ==
  /\ pc[p] = "writeProbe" /\ probe' = TRUE /\ Go(p, "unlinkProbe", Nothing)
  /\ UNCHANGED <<dir, file, temp, clock, ops, result>>

\* Any exception, ENOENT too, is "not available".
UnlinkProbe(p) ==
  /\ pc[p] = "unlinkProbe" /\ probe' = FALSE
  /\ Done(p, Said(IF probe THEN "available" ELSE "unavailable"))
  /\ UNCHANGED <<dir, file, temp, clock, ops>>

\* One entry file of the walk is read; an unreadable one is skipped.
CleanRead(p) ==
  /\ pc[p] = "cleanRead"
  /\ \E k \in Keys :
       IF file[k] \in Entries /\ isExpired(file[k])
       THEN Go(p, "unlinkExpired", [key |-> k]) ELSE Go(p, "rmdir", Nothing)
  /\ UNCHANGED <<dir, file, temp, probe, clock, ops, result>>

\* rmdir() fails, and is ignored, while anything is in the directory.
Rmdir(p) ==
  /\ pc[p] = "rmdir"
  /\ dir' = ~(/\ \A k \in Keys : file[k] = Nothing
              /\ \A x \in Keys \X Procs : temp[x] = Nothing)
  /\ Done(p, Said("ok"))
  /\ UNCHANGED <<file, temp, probe, clock, ops>>

Call(p) ==
  /\ \/ \E k \in Keys :
          \/ Begin(p, "read", [key |-> k]) \/ Begin(p, "unlink", [key |-> k])
          \/ Begin(p, "mkdir", [key |-> k, expires |-> clock + Lives[p], by |-> p])
     \/ Begin(p, "writeProbe", Nothing)
     \/ p \in Cleaning /\ Begin(p, "cleanRead", Nothing)
  /\ UNCHANGED <<dir, file, temp, probe, clock>>

Crash(p) ==
  /\ pc[p] \notin {"idle", "dead"} /\ Go(p, "dead", Nothing)
  /\ UNCHANGED <<dir, file, temp, probe, clock, ops, result>>

Tick == clock < MaxTime /\ clock' = clock + 1
        /\ UNCHANGED <<dir, file, temp, probe, pc, arg, ops, result>>

Next == \/ \E p \in Procs :
             \/ Call(p) \/ Get(p) \/ UnlinkExpired(p) \/ EnsureDir(p) \/ OpenTemp(p)
             \/ WriteTemp(p) \/ Rename(p) \/ UnlinkTemp(p) \/ Delete(p) \/ WriteProbe(p)
             \/ UnlinkProbe(p) \/ CleanRead(p) \/ Rmdir(p) \/ Crash(p)
        \/ Tick

Spec == Init /\ [][Next]_vars

-----------------------------------------------------------------------------

TypeOK ==
  /\ dir \in BOOLEAN /\ probe \in BOOLEAN
  /\ file \in [Keys -> Entries \cup {Nothing}]
  /\ temp \in [Keys \X Procs -> Entries \cup {Nothing, Torn}]
  /\ ~dir => \A x \in Keys \X Procs : temp[x] = Nothing

\* What get() returns had not expired when it was read.
NothingExpiredIsRead ==
  \A p \in Procs : result'[p] \in Entries /\ result[p] \notin Entries
    => result'[p].expires >= clock

\* A temporary file on disk belongs to a put() under way or to a dead process.
TempsHaveOwners ==
  \A x \in Keys \X Procs : temp[x] # Nothing =>
    \/ pc[x[2]] \in {"write", "rename", "unlinkTemp"} /\ arg[x[2]].key = x[1]
    \/ pc[x[2]] = "dead"

=============================================================================
