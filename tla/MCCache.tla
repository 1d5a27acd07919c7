------------------------------- MODULE MCCache -------------------------------
(***************************************************************************)
(* What nopo keeps from one command to the next, the cache and .env, one   *)
(* component beside the other: a behaviour is one of a step cache, of a    *)
(* plan run with it, of the directory its entries are kept in, of the      *)
(* bucket, or of the processes that share .env, one at a time ("env") or   *)
(* at once and killed anywhere ("race").                                   *)
(***************************************************************************)
EXTENDS Integers, Sequences, FiniteSets, TLC

CONSTANTS
  \* the nopo processes, their cache settings, and how long their entries live
  Procs, Settings, Lives,
  \* the project, the steps taken on it, and the contents on which they fail
  StepFiles, Ignored, Targets, Roots, Deps, Workspaces, RootFiles, Inputs, Slices, FailsOn,
  \* the plans, their failure modes, the targets of their batches, and how lookups go
  NodeCount, Plans, Modes, Batches, LookupMayFail, NetworkStore,
  \* the keys in the directory and in the bucket, and the disk
  Keys, BucketKeys, DiskFails, Cleaning,
  \* .env: the processes, the services they build, what they may set, one after the
  \* other or at once, what .env may be before, and the registries' hosts
  EnvProcs, EnvServices, EnvSettings, RacingSettings, EnvFiles, Hosts,
  \* bounds
  MaxVersion, MaxEdits, MaxRuns, MaxTime, MaxOps, MaxStarts

\* The model values of the instance below.
CONSTANTS ci, dev, api, lib, apiSrc, libSrc, cfgFile, gen

VARIABLES
  part,   \* which component runs; the others are not there
  v1, v2, v3, v4, v5, v6, v7, v8, v9, v10, v11
          \* its variables, in the order they are declared in
vars == <<part, v1, v2, v3, v4, v5, v6, v7, v8, v9, v10, v11>>

(* Two processes, ci which signs and dev which does not, and of each its     *)
(* cache settings and the time its entries live.                             *)
MCLives == (ci :> 0 @@ dev :> 1)
Setting(w, t, s, k, pub) ==
  [write |-> w, ttl |-> t, sampling |-> s, private |-> k, public |-> pub]
MCSettings == (ci :> Setting(TRUE, 0, "some", "good", TRUE)
               @@ dev :> Setting(TRUE, 1, "some", "none", FALSE))

(* api depends on lib; api's lint reads both, a root config and a generated, *)
(* gitignored file that api declares as an input.  The batch has a slice for *)
(* each; a lint fails on the first lib and on the second api.                *)
MCFiles == {apiSrc, libSrc, cfgFile, gen}
MCRoots == (api :> {apiSrc} @@ lib :> {libSrc})
MCDeps == (api :> {lib} @@ lib :> {})
MCWorkspaces == (api :> {} @@ lib :> {})
MCInputs == (api :> {gen} @@ lib :> {})
Slice(t, reads) ==
  [step |-> "lint", kind |-> "hook", claimed |-> {t}, own |-> {}, optIn |-> {t},
   container |-> FALSE, writes |-> FALSE, declared |-> TRUE, perTarget |-> TRUE,
   reads |-> reads]
MCSlices == {Slice(api, MCFiles), Slice(lib, {libSrc, cfgFile})}
LintBatch == [Slice(api, MCFiles) EXCEPT !.claimed = {api, lib}, !.optIn = {api, lib}]
MCFailing == {<<libSrc, 0>>, <<apiSrc, 1>>}

(* Every acyclic plan of three nodes, the second a batch of two targets; a   *)
(* plan lists a node after what it needs or before it.                       *)
MCPlans == {p \in [1 .. 3 -> SUBSET (1 .. 3)] :
              \A S \in SUBSET (1 .. 3) : S # {} => \E n \in S : p[n] \cap S = {}}
MCBatches == (1 :> {} @@ 2 :> {api, lib} @@ 3 :> {})

(* .env: what a process may set of its own, a whole tag or parts of one,    *)
(* beside what nopo.yml says.                                               *)
Slashed(segments) == [i \in DOMAIN segments |-> <<segments[i]>>]
App == Slashed(<<"app">>)
OrgApp == Slashed(<<"org", "app">>)
GhcrOrgApp == Slashed(<<"ghcr.io", "org", "app">>)
V1 == Slashed(<<"v1">>)
Sha == Slashed(<<"sha">>)
Text(text) == [text |-> text, digest |-> <<>>]
NoImages == [s \in EnvServices |-> Text(<<>>)]
Nopo == [registry |-> <<>>, image |-> Slashed(<<"nopo">>)]
Base == [registry |-> Slashed(<<"ghcr.io">>), image |-> Slashed(<<"org", "base">>)]
Sets(registry, image, version, digest) ==
  [tag |-> Text(<<>>), registry |-> registry, image |-> image, version |-> version,
   digest |-> digest, target |-> "", node |-> "", base |-> Nopo, extra |-> NoImages]
Unset == Sets(<<>>, <<>>, <<>>, <<>>)
Parts(registries, versions, digests) ==
  {Sets(r, i, v, d) : r \in registries, i \in {<<>>, OrgApp}, v \in versions, d \in digests}
Colon(path, version) == [path EXCEPT ![Len(path)] = @ \o <<version>>]
SetsTags == {[Unset EXCEPT !.tag = [text |-> Colon(path, v), digest |-> d]] :
               path \in {App, GhcrOrgApp}, v \in {"local", "v1"}, d \in {<<>>, Sha}}
  \cup {[Unset EXCEPT !.tag = Text(name)] :
         name \in {V1, OrgApp, GhcrOrgApp, <<<<"nopo", "a", "b">>>>}}
\* With a registry in nopo.yml, with targets known and unknown, with a service's image.
SetsMore ==
  {[own EXCEPT !.base = Base] :
     own \in {Unset, [Unset EXCEPT !.tag = Text(Colon(App, "v1"))],
              [Unset EXCEPT !.tag = Text(V1)], Sets(Slashed(<<"mine">>), <<>>, <<>>, <<>>)}}
  \cup {[Unset EXCEPT !.target = "base", !.node = "test"], [Unset EXCEPT !.target = "staging"],
        [Unset EXCEPT !.node = "base", !.version = Slashed(<<"local">>)],
        [Unset EXCEPT !.extra = [s \in EnvServices |-> Text(V1)], !.version = V1]}
MCEnvSettings ==
  Parts({<<>>, Slashed(<<"ghcr.io">>), Slashed(<<"mine">>)}, {<<>>, V1}, {<<>>, Sha})
  \cup SetsTags \cup SetsMore
MCRacingSettings == {Unset, Sets(<<>>, <<>>, V1, <<>>), [Unset EXCEPT !.tag = Text(V1)]}
\* No file, one with the parts of a tag, one with nothing but a tag.
NoEnvFile ==
  [tag |-> Text(<<>>), registry |-> <<>>, image |-> <<>>, version |-> <<>>, digest |-> <<>>,
   target |-> "", node |-> "", extra |-> NoImages]
MCEnvFiles ==
  {NoEnvFile,
   [NoEnvFile EXCEPT !.registry = Slashed(<<"ghcr.io">>), !.image = App, !.version = V1],
   [NoEnvFile EXCEPT !.tag = Text(Colon(OrgApp, "v1"))]}

-----------------------------------------------------------------------------
Steps == INSTANCE StepCache WITH
  head <- v1, work <- v2, edits <- v3, store <- v4, clock <- v5, run <- v6,
  Files <- StepFiles, Root <- Roots, Workspace <- Workspaces, DeclaredInputs <- Inputs,
  Steps <- Slices, Broken <- FailsOn, EditIgnored <- FALSE, CommitDuringRun <- FALSE
Plan == INSTANCE CachedPlan WITH
  needs <- v1, phase <- v2, at <- v3, found <- v4, sliced <- v5,
  adjusted <- v6, status <- v7, writes <- v8, recorded <- v9, stats <- v10,
  mode <- v11,
  Batch <- Batches
Ordered == INSTANCE EnvFile WITH
  file <- v1, procs <- v2, runs <- v3, images <- v4,
  Procs <- EnvProcs, Services <- EnvServices, Settings <- EnvSettings, Originals <- EnvFiles,
  MaxRuns <- MaxStarts, Concurrent <- FALSE, Crashes <- FALSE
Racing == INSTANCE EnvFile WITH
  file <- v1, procs <- v2, runs <- v3, images <- v4,
  Procs <- EnvProcs, Services <- EnvServices, Settings <- RacingSettings, Originals <- EnvFiles,
  MaxRuns <- MaxStarts, Concurrent <- TRUE, Crashes <- TRUE
Files == INSTANCE FileStore WITH
  dir <- v1, file <- v2, temp <- v3, probe <- v4, clock <- v5, pc <- v6,
  arg <- v7, ops <- v8, result <- v9
Objects == INSTANCE ObjectStore WITH
  object <- v1, sent <- v2, answers <- v3, clock <- v4, call <- v5, ops <- v6,
  result <- v7, Keys <- BucketKeys

Off == "off"

Init ==
  \/ /\ part = "step" /\ Steps!Init
     /\ v7 = Off /\ v8 = Off /\ v9 = Off /\ v10 = Off /\ v11 = Off
  \/ /\ part = "plan" /\ Plan!Init
  \/ /\ part = "file" /\ Files!Init
     /\ v10 = Off /\ v11 = Off
  \/ /\ part = "object" /\ Objects!Init
     /\ v8 = Off /\ v9 = Off /\ v10 = Off /\ v11 = Off
  \/ /\ part = "env" /\ Ordered!Init
     /\ v5 = Off /\ v6 = Off /\ v7 = Off /\ v8 = Off /\ v9 = Off /\ v10 = Off /\ v11 = Off
  \/ /\ part = "race" /\ Racing!Init
     /\ v5 = Off /\ v6 = Off /\ v7 = Off /\ v8 = Off /\ v9 = Off /\ v10 = Off /\ v11 = Off

Next ==
  /\ UNCHANGED part
  /\ \/ part = "step" /\ Steps!Next /\ UNCHANGED <<v7, v8, v9, v10, v11>>
     \/ part = "plan" /\ Plan!Next
     \/ part = "file" /\ Files!Next /\ UNCHANGED <<v10, v11>>
     \/ part = "object" /\ Objects!Next /\ UNCHANGED <<v8, v9, v10, v11>>
     \/ part = "env" /\ Ordered!Next /\ UNCHANGED <<v5, v6, v7, v8, v9, v10, v11>>
     \/ part = "race" /\ Racing!Next /\ UNCHANGED <<v5, v6, v7, v8, v9, v10, v11>>

Spec == Init /\ [][Next]_vars

-----------------------------------------------------------------------------
ASSUME CacheAssumptions ==
  /\ Steps!ProjectAssumption /\ Steps!SettingsAssumption /\ Steps!StepsAssumption
  /\ Plan!CachedPlanAssumption /\ Files!FileStoreAssumption
  /\ Objects!ObjectStoreAssumption
  /\ Ordered!EnvAssumption /\ Racing!EnvAssumption

\* The slices of the instance are those of one batch.
ASSUME SlicesAreOfABatch ==
  Steps!SplitBatch(LintBatch) = {[s EXCEPT !.reads = MCFiles] : s \in MCSlices}

\* A cache entry says that a step passes on the content its key describes, and
\* it does: neither an edit made while the step ran nor a dependency the key
\* leaves out lets a pass be recorded under inputs on which the step fails.
EntriesAreHonest == part = "step" => Steps!TypeOK /\ Steps!HonestEntries

\* A step that is skipped would have passed on the tree it is skipped for; the
\* entry was made by somebody who may, is young enough for writer and reader,
\* and signed where the reader wants it; and an entry that a writer verified
\* and found false is gone when its writes have settled.
HitsAreEarned ==
  [][part = "step" => Steps!SkippedWouldPass /\ Steps!HitsAreTrusted /\ Steps!FalseHitDropped]_vars

\* Taking the nodes that hit out of a plan loses no order between those that
\* run, through any number of cached nodes, and adds none; a pass is recorded
\* only of what was looked up, missed, ran and passed; and each node of the
\* plan has its own result in the end, none skipped but after a failure, which
\* in keep-going mode is the failure of something it needs.
CachingKeepsThePlan ==
  part = "plan" =>
    /\ Plan!TypeOK /\ Plan!OrderSurvivesCaching /\ Plan!OnlyPlanOrder
    /\ Plan!RecordsAreProven /\ Plan!ResultsCoverPlan

\* Along any sequence of processes that read and write .env one after the other,
\* its parts make its tag, what a process sets wins, what it does not set stays,
\* and so do the tags of images that were built.  Where processes overlap and are
\* killed the file may lose what others wrote, but is never half of one tag.
EnvIsKept ==
  /\ part = "env" =>
       /\ Ordered!TypeOK /\ Ordered!PartsMakeTheTag /\ Ordered!TagIsKept /\ Ordered!OverridesWin
       /\ Ordered!OnlyLocalIsDevelopment /\ Ordered!ImagesPreserved
  /\ part = "race" =>
       /\ Racing!TypeOK /\ Racing!PartsMakeTheTag /\ Racing!OverridesWin
       /\ Racing!OnlyLocalIsDevelopment

\* Readers of the cache directory see whole entries only, whatever writer is
\* between two of its system calls, fails or crashes: what is under the keys
\* implements ResultStore.
NoFile == [k \in Keys |-> Files!Nothing]
Store == INSTANCE ResultStore WITH
  Entries <- Files!Entries, Nothing <- Files!Nothing,
  content <- IF part = "file" THEN v2 ELSE NoFile
ImplementsResultStore == Store!Spec

\* Neither store returns an entry that had expired when it was read, a put() to
\* the bucket that returns without an error has stored its entry, and the
\* directory keeps the temporary files of writes under way and of dead
\* processes only.
StoresKeepTheirWord ==
  [][/\ part = "file" =>
          Files!TypeOK' /\ Files!TempsHaveOwners' /\ Files!NothingExpiredIsRead
     /\ part = "object" =>
          Objects!TypeOK' /\ Objects!NothingExpiredIsReturned /\ Objects!AcknowledgedWasStored]_vars
=============================================================================
