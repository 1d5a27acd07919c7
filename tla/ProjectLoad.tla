----------------------------- MODULE ProjectLoad -----------------------------
(***************************************************************************)
(* From nopo.yml to the services of a project, and to the package managers *)
(* `nopo install` runs for them (config/index.ts, lib.ts,                  *)
(* scripts/install.ts): which directories are searched, which files become *)
(* entries, what the root and the system dependencies add, what is refused.*)
(*                                                                         *)
(* Directories and ids are numbered in the order of their names.  A file is*)
(* [build, runtime, commands, managers]: what it depends on, its commands, *)
(* and its managers, each the name of one of the project's or a manager of *)
(* its own.  A manager is [by, lockfile]: by tells whose commands it has.  *)
(***************************************************************************)
EXTENDS Integers, Sequences, FiniteSetsExt, Functions

CONSTANTS LastId,      \* how many names there are
          RootName,    \* root_name
          DefaultDir,  \* ./apps
          Projects     \* the trees that are loaded

Id == 1 .. LastId      \* names of directories, hence ids of services

\* The root is named as a service may be, files are those of directories, which
\* have numbers other than the root's own, and a list of managers is a list.
LoadAssumption ==
  /\ LastId \in Nat /\ RootName \in Id
  /\ \A p \in Projects :
       /\ p.existing \subseteq Nat \ {0}
       /\ \A q \in Range(p.dirs) : q.exclude \in BOOLEAN
       /\ DOMAIN p.files \subseteq Nat \X Id
       /\ \A f \in DOMAIN p.files : p.files[f].managers \in Seq(Range(p.files[f].managers))

VARIABLES project,   \* the files: [dirs, existing, files, root, system, managers]
          phase,     \* where it is, see Phases
          dirs,      \* the directories still to be searched
          children,  \* those of the first one still to be read
          entries,   \* id -> entry, of those registered
          targets,   \* what an install is for
          pending,   \* the managers still to be run
          ran,       \* those that were run, in order
          failure    \* None, or what ended it
vars == <<project, phase, dirs, children, entries, targets, pending, ran, failure>>

None == "none"
Refuse(why) == /\ failure' = why
               /\ phase' = "end"

\* The names of the built-in scripts, and those normalizeCommands() refuses.
Scripts == {"act", "build", "command", "down", "env", "install", "list", "queue",
            "secret", "status", "sync", "up"}
RESERVED_COMMAND_NAMES == {"act", "build", "command", "down", "env", "help", "install", "list",
                           "pull", "secret", "status", "sync", "up"}

\* dir or dirs; each pattern is [exclude, glob, names].
DirsOf(p) == IF p.dirs = <<>> THEN <<[exclude |-> FALSE, glob |-> FALSE, names |-> {DefaultDir}]>>
             ELSE p.dirs

Patterns(p, excluding) == {pattern \in Range(DirsOf(p)) : pattern.exclude = excluding}
Missing(p) == {q \in Patterns(p, FALSE) : ~q.glob /\ ~(q.names \subseteq p.existing)}
Found(p, excluding) == (UNION {q.names : q \in Patterns(p, excluding)}) \cap p.existing
resolveDirectoryPatterns(p) == Found(p, FALSE) \ Found(p, TRUE)

FilesIn(d) == {id \in Id : <<d, id>> \in DOMAIN project.files}

\* Begins with the next directory, if there is one.
Search(ds) == /\ dirs' = ds
              /\ children' = IF ds = {} THEN {} ELSE FilesIn(Min(ds))
              /\ phase' = IF ds = {} THEN "root" ELSE "discover"

Resolve ==
  /\ phase = "resolve"
  /\ IF project.root \cap RESERVED_COMMAND_NAMES # {}
     THEN Refuse("reserved") /\ UNCHANGED <<dirs, children>>
     ELSE IF Missing(project) # {}
     THEN Refuse("missing") /\ UNCHANGED <<dirs, children>>
     ELSE Search(resolveDirectoryPatterns(project)) /\ UNCHANGED failure
  /\ UNCHANGED <<project, entries, targets, pending, ran>>

NextDir == /\ phase = "discover" /\ children = {}
           /\ Search(dirs \ {Min(dirs)})
           /\ UNCHANGED <<project, entries, targets, pending, ran, failure>>

\* resolveServicePackageManagers(): a reference becomes the project's manager.
Unknown(file) == {m \in Range(file.managers) : m.by = "project" /\ m \notin project.managers}

Entry(file, d) == [dir |-> d, build |-> file.build, runtime |-> file.runtime, system |-> {},
                   commands |-> file.commands, managers |-> file.managers]
Registered(id, entry) ==
  [i \in DOMAIN entries \cup {id} |-> IF i = id THEN entry ELSE entries[i]]

\* Broken: only the build's dependencies are looked at.
WrongBuild(id, file) ==
  IF file.commands \cap RESERVED_COMMAND_NAMES # {} THEN "reserved"
  ELSE IF RootName \in file.build THEN "root dependency"
  ELSE IF Unknown(file) # {} THEN "unknown manager"
  ELSE IF id \in DOMAIN entries THEN "duplicate" ELSE None
Wrong(id, file) ==
  IF file.commands \cap RESERVED_COMMAND_NAMES # {} THEN "reserved"
  ELSE IF RootName \in file.build \cup file.runtime THEN "root dependency"
  ELSE IF Unknown(file) # {} THEN "unknown manager"
  ELSE IF id \in DOMAIN entries THEN "duplicate" ELSE None

\* One child of the directory; the order is the file system's.
Discover(id) ==
  /\ phase = "discover" /\ id \in children
  /\ LET d == Min(dirs)
         file == project.files[<<d, id>>]
     IN  IF Wrong(id, file) # None
         THEN Refuse(Wrong(id, file)) /\ UNCHANGED <<entries, children>>
         ELSE /\ entries' = Registered(id, Entry(file, d))
              /\ children' = children \ {id}
              /\ UNCHANGED <<phase, failure>>
  /\ UNCHANGED <<project, dirs, targets, pending, ran>>

\* The root becomes an entry if it has commands.
RootEntry == [dir |-> 0, build |-> {}, runtime |-> {}, system |-> {},
              commands |-> project.root, managers |-> <<>>]
AddRoot ==
  /\ phase = "root"
  /\ IF project.root = {} THEN phase' = "system" /\ UNCHANGED <<entries, failure>>
     ELSE IF RootName \in DOMAIN entries THEN Refuse("root conflict") /\ UNCHANGED entries
     ELSE /\ entries' = Registered(RootName, RootEntry)
          /\ phase' = "system"
          /\ UNCHANGED failure
  /\ UNCHANGED <<project, dirs, children, targets, pending, ran>>

Inject(id) == project.system \ {id}
Injected == [id \in DOMAIN entries |-> [entries[id] EXCEPT !.system = @ \cup Inject(id)]]

\* getAllPackageManagers(): the managers of the targets, in the order of their
\* names and of each one's list, the first one of each lockfile.
Wanted(ts) ==
  LET upTo[id \in 0 .. LastId] ==
        IF id = 0 THEN <<>>
        ELSE IF id \in ts THEN upTo[id - 1] \o entries[id].managers ELSE upTo[id - 1]
  IN  upTo[LastId]
Seen(ms, m) == \E i \in DOMAIN ms : ms[i].lockfile = m.lockfile
getAllPackageManagers(ts) ==
  LET all == Wanted(ts)
      unique[i \in 0 .. Len(all)] ==
        IF i = 0 THEN <<>>
        ELSE IF Seen(unique[i - 1], all[i]) THEN unique[i - 1] ELSE Append(unique[i - 1], all[i])
  IN  unique[Len(all)]

AddSystem ==
  /\ phase = "system"
  /\ IF project.system \subseteq DOMAIN entries
     THEN /\ entries' = Injected
          /\ phase' = "install"
          /\ UNCHANGED failure
     ELSE Refuse("unknown system dependency") /\ UNCHANGED entries
  /\ UNCHANGED <<project, dirs, children, targets, pending, ran>>

\* `nopo install`, for the targets it resolved.
Install(ts) ==
  /\ phase = "install"
  /\ targets' = ts
  /\ pending' = getAllPackageManagers(ts)
  /\ phase' = "installing"
  /\ UNCHANGED <<project, dirs, children, entries, ran, failure>>

\* exec() rejects with the output of a command that fails; installRun() looks at
\* the exit code of one that did not.
RunOne(code) ==
  /\ phase = "installing" /\ pending # <<>>
  /\ ran' = Append(ran, Head(pending))
  /\ pending' = Tail(pending)
  /\ IF code = 0 THEN UNCHANGED <<phase, failure>> ELSE Refuse("output")
  /\ UNCHANGED <<project, dirs, children, entries, targets>>

Installed ==
  /\ phase = "installing" /\ pending = <<>>
  /\ phase' = "end"
  /\ UNCHANGED <<project, dirs, children, entries, targets, pending, ran, failure>>

Init == /\ project \in Projects
        /\ phase = "resolve" /\ dirs = {} /\ children = {}
        /\ entries = <<>> /\ targets = {} /\ pending = <<>> /\ ran = <<>>
        /\ failure = None
Next == \/ Resolve \/ NextDir \/ AddRoot \/ AddSystem \/ Installed
        \/ \E id \in Id : Discover(id)
        \/ \E ts \in SUBSET DOMAIN entries : Install(ts)
        \/ \E code \in {0, 1} : RunOne(code)
Spec == Init /\ [][Next]_vars

-----------------------------------------------------------------------------
(* What a loaded project is. *)

Phases == {"resolve", "discover", "root", "system", "install", "installing", "end"}
TypeOK == /\ project \in Projects /\ phase \in Phases
          /\ dirs \subseteq project.existing /\ children \subseteq Id
          /\ DOMAIN entries \subseteq Id /\ targets \subseteq DOMAIN entries
          /\ \A id \in DOMAIN entries : entries[id].dir \in {0} \cup project.existing
          /\ Range(ran) \cup Range(pending)
               \subseteq UNION {Range(entries[id].managers) : id \in targets}

Loaded == phase \in {"install", "installing"} \/ (phase = "end" /\ failure \in {None, "output"})

\* Searched: some pattern names the directory and none excludes it.
Searched(d) == /\ d \in project.existing
               /\ \E q \in Range(DirsOf(project)) : ~q.exclude /\ d \in q.names
               /\ \A q \in Range(DirsOf(project)) : q.exclude => d \notin q.names

\* A loaded project has one entry for each nopo.yml of a directory that is
\* included and not excluded, wherever in the list the exclusion stands, made of
\* that very file, and the root's if it has commands; nothing is lost behind a
\* service of the same name.
EntriesAreTheFiles ==
  Loaded =>
    /\ \A f \in DOMAIN project.files :
         Searched(f[1]) => f[2] \in DOMAIN entries /\ entries[f[2]].dir = f[1]
    /\ \A id \in DOMAIN entries :
         IF entries[id].dir = 0 THEN id = RootName /\ project.root # {}
         ELSE <<entries[id].dir, id>> \in DOMAIN project.files /\ Searched(entries[id].dir)

\* In a loaded project nothing depends on the root to build or to run, and the
\* only entries that depend on it at all are those of a project that makes it a
\* system dependency.
NobodyNeedsTheRoot ==
  Loaded => \A id \in DOMAIN entries :
              /\ RootName \notin entries[id].build \cup entries[id].runtime
              /\ RootName \in entries[id].system => RootName \in project.system

\* Every entry, the root's too, has every other system dependency and never
\* itself, and each of them is an entry: a cascade of changes finds both ends.
SystemReachesAll ==
  Loaded /\ phase # "system" =>
    \A id \in DOMAIN entries : /\ entries[id].system = project.system \ {id}
                               /\ entries[id].system \subseteq DOMAIN entries

\* What there is to refuse: a file, or how the files are together.
SearchedFiles == {f \in DOMAIN project.files : Searched(f[1])}
Bad(f) == \/ project.files[f].commands \cap RESERVED_COMMAND_NAMES # {}
          \/ RootName \in project.files[f].build \cup project.files[f].runtime
          \/ \E m \in Range(project.files[f].managers) :
               m.by = "project" /\ m \notin project.managers
FilesAreSound ==
  /\ project.root \cap RESERVED_COMMAND_NAMES = {}
  /\ \A q \in Range(DirsOf(project)) : ~q.exclude /\ ~q.glob => q.names \subseteq project.existing
  /\ \A f \in SearchedFiles : ~Bad(f)
  /\ \A f, h \in SearchedFiles : f[2] = h[2] => f = h
  /\ project.root # {} => \A f \in SearchedFiles : f[2] # RootName
  /\ project.system \subseteq {f[2] : f \in SearchedFiles}
       \cup (IF project.root # {} THEN {RootName} ELSE {})

\* A load is refused for a reason that is in the files, whatever order they were
\* read in: without one it succeeds.
RefusedForCause ==
  (phase = "install" => FilesAreSound) /\ (phase = "end" /\ ~Loaded => ~FilesAreSound)

\* An install runs one manager for each lockfile its targets use, none twice, and
\* nothing after one that failed; one that ends well has run them all.
OnePerLockfile ==
  /\ \A i, j \in DOMAIN ran : ran[i].lockfile = ran[j].lockfile => i = j
  /\ \A i \in DOMAIN ran : \E id \in targets : ran[i] \in Range(entries[id].managers)
  /\ phase = "end" /\ failure = None =>
       \A id \in targets : \A m \in Range(entries[id].managers) :
         \E i \in DOMAIN ran : ran[i].lockfile = m.lockfile
=============================================================================
