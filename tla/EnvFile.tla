------------------------------- MODULE EnvFile -------------------------------
(***************************************************************************)
(* .env, which every nopo process reads when it starts, and which `env'    *)
(* (a dependency of build, up, ...) and a docker build write: Environment  *)
(* (packages/nopo/src/parse-env.ts), docker-tag.ts, scripts/env.ts.        *)
(*                                                                         *)
(* A word is the sequence of its segments between slashes, each of them    *)
(* the sequence of its pieces between colons: a:5/b:v is <<<<"a", "5">>,   *)
(* <<"b", "v">>>>.  A tag is its text and its digest.  What a process sets *)
(* is [tag, registry, image, version, digest, target, node, extra], and    *)
(* [base] is the image that nopo.yml has when it runs.  DOCKER_PORT and    *)
(* GIT_* are found anew by each process and left out.                      *)
(***************************************************************************)
EXTENDS Integers, Sequences, FiniteSets

\* Originals: what .env may be before nopo first writes it.
CONSTANTS Procs, Services, Settings, Originals, Hosts, Concurrent, Crashes, MaxRuns
\* images: the tag of each service that was last saved for it
VARIABLES file, procs, runs, images
vars == <<file, procs, runs, images>>
None == <<>>
Local == <<<<"local">>>>
NoTag == [text |-> None, digest |-> None]
Empty ==
  [tag |-> NoTag, registry |-> None, image |-> None, version |-> None, digest |-> None,
   target |-> "", node |-> "", extra |-> [s \in Services |-> NoTag]]
Or(a, b) == IF a = None THEN b ELSE a
DockerTargets == {"development", "production", "test", "base", "build"}
NodeEnvs == {"development", "production", "test"}
Word == Seq(Seq(STRING) \ {<<>>})
Tag == [text : Word, digest : Word]
EnvAssumption ==
  /\ Services \subseteq STRING /\ MaxRuns \in Nat
  /\ \A own \in Settings :
       /\ own.tag \in Tag /\ own.extra \in [Services -> Tag]
       /\ {own.registry, own.image, own.version, own.digest} \subseteq Word
       /\ {own.base.registry, own.base.image} \subseteq Word /\ own.base.image # None
  /\ Originals \subseteq [tag : Tag, registry : Word, image : Word, version : Word, digest : Word,
                          target : DockerTargets \cup {""}, node : NodeEnvs \cup {""},
                          extra : [Services -> Tag]]
  /\ \A f \in Originals : f.tag = NoTag \/ f.version = None

-----------------------------------------------------------------------------
(* DockerTag *)
\* Those of SequencesExt, of a parametrised instance of which nothing can be proved.
Front(s) == SubSeq(s, 1, Len(s) - 1)
Last(s) == s[Len(s)]
Join(text, version) == Front(text) \o <<Last(text) \o Head(version)>> \o Tail(version)
stringify(p) ==
  [text |-> IF p.version = None THEN p.registry \o p.image
            ELSE Join(p.registry \o p.image, p.version),
   digest |-> p.digest]
\* What stands before the first slash is a registry if it looks like a host.
Hosted(text) == Len(text) > 1 /\ (Len(text[1]) > 1 \/ text[1][1] \in Hosts)
Named(text) ==
  [registry |-> IF Hosted(text) THEN <<text[1]>> ELSE None,
   image |-> IF Hosted(text) THEN Tail(text) ELSE text]
\* What follows the last colon is a version if no slash comes after it.
parse(tag) ==
  LET end == Last(tag.text)
      versioned == tag.text # None /\ Len(end) > 1
      name == Named(IF versioned THEN Front(tag.text) \o <<Front(end)>> ELSE tag.text)
  IN  [registry |-> name.registry, image |-> name.image,
       version |-> IF versioned THEN <<<<Last(end)>>>> ELSE None, digest |-> tag.digest]
Valid(tag) ==
  LET image == parse(tag).image
  IN  image \notin {None, <<<<"sha256">>>>} /\ \A i \in DOMAIN image : Len(image[i]) = 1

(* Environment *)
hasExplicitOverride(own) ==
  own.image # None \/ own.version # None \/ own.registry # None \/ own.digest # None
Whole(registry, image, version, digest) ==
  [registry |-> registry, image |-> image, version |-> version, digest |-> digest]
resolveDockerTag(own, prev) ==
  LET cached == parse(prev.tag)
  IN  IF own.tag # NoTag THEN parse(own.tag)
      ELSE IF hasExplicitOverride(own) THEN
        Whole(Or(own.registry, Or(prev.registry, cached.registry)),
              Or(own.image, Or(prev.image, Or(cached.image, own.base.image))),
              Or(own.version, Or(prev.version, Or(cached.version, Local))),
              Or(own.digest, Or(prev.digest, cached.digest)))
      ELSE IF prev.tag # NoTag THEN cached
      ELSE IF prev.image # None /\ prev.version # None THEN
        Whole(prev.registry, prev.image, prev.version, prev.digest)
      ELSE Whole(own.base.registry, own.base.image, Local, None)
\* A name alone is a version of the project's image, in the project's registry.
Completed(p, base) ==
  Whole(Or(p.registry, base.registry), IF p.version = None THEN base.image ELSE p.image,
        Or(p.version, p.image), p.digest)
\* DOCKER_TARGET and NODE_ENV: the process' own comes before the file's.
Target(version, own, prev) ==
  LET current == IF own = "" THEN prev ELSE own
  IN  IF version # Local THEN "production" ELSE IF current = "" THEN "development" ELSE current
Environment(tag, t, own, prev) ==
  [tag |-> stringify(tag), registry |-> t.registry, image |-> t.image, version |-> t.version,
   digest |-> t.digest, target |-> Target(t.version, own.target, prev.target),
   node |-> Target(t.version, own.node, prev.node),
   extra |-> [s \in Services |-> IF own.extra[s] # NoTag THEN own.extra[s] ELSE prev.extra[s]]]
\* Broken: the tag is what was asked for, before it was completed.
getCurrEnvAsked(own, prev) ==
  LET asked == resolveDockerTag(own, prev)
  IN  Environment(asked, Completed(asked, own.base), own, prev)
getCurrEnv(own, prev) ==
  LET t == Completed(resolveDockerTag(own, prev), own.base) IN Environment(t, t, own, prev)
\* A tag that is read must parse, and the schema knows the targets.
Throws(own, prev) ==
  LET read == IF own.tag # NoTag THEN own.tag ELSE prev.tag
      env == getCurrEnv(own, prev)
  IN  \/ read # NoTag /\ ~Valid(read)
      \/ env.target \notin DockerTargets \/ env.node \notin NodeEnvs

-----------------------------------------------------------------------------
(* Processes: each loads the file, saves it (env:apply), and may build a   *)
(* service, which sets its tag and saves again.  A save truncates the file *)
(* before it writes.                                                       *)
Off == [pc |-> "off", env |-> Empty, own |-> Empty, built |-> {}]
Init ==
  /\ file \in Originals /\ images = file.extra
  /\ procs = [p \in Procs |-> Off] /\ runs = 0
Set(p, pc) == procs' = [procs EXCEPT ![p].pc = pc]
Alone(p) == Concurrent \/ \A q \in Procs : procs[q].pc = "off"

Load(p, own) ==
  /\ procs[p].pc = "off" /\ runs < MaxRuns /\ Alone(p) /\ runs' = runs + 1
  /\ procs' = [procs EXCEPT ![p] =
       IF Throws(own, file) THEN [pc |-> "error", env |-> Empty, own |-> own, built |-> {}]
       ELSE [pc |-> "loaded", env |-> getCurrEnv(own, file), own |-> own, built |-> {}]]
  /\ UNCHANGED <<file, images>>
Truncate(p) ==    \* save
  /\ procs[p].pc \in {"loaded", "built"} /\ Set(p, "saving") /\ file' = Empty
  /\ UNCHANGED <<runs, images>>
\* What the process sets of its own is saved, and what it built.
Sets(p) == procs[p].built \cup {s \in Services : procs[p].own.extra[s] # NoTag}
Write(p) ==
  /\ procs[p].pc = "saving" /\ Set(p, "saved") /\ file' = procs[p].env /\ UNCHANGED runs
  /\ images' = [s \in Services |-> IF s \in Sets(p) THEN procs[p].env.extra[s] ELSE images[s]]
\* serviceImageTag, which has no digest; "image-service" is written image/service.
BuildTag(p, s) ==
  LET env == procs[p].env
  IN  stringify(Whole(env.registry, env.image \o <<<<s>>>>, env.version, None))
setExtraEnv(p, s) ==
  /\ procs[p].pc = "saved" /\ procs[p].built = {} /\ UNCHANGED <<file, runs, images>>
  /\ procs' = [procs EXCEPT ![p].pc = "built", ![p].built = {s}, ![p].env.extra[s] = BuildTag(p, s)]
End(p) ==
  /\ procs[p].pc \in {"saved", "error"} /\ procs' = [procs EXCEPT ![p] = Off]
  /\ UNCHANGED <<file, runs, images>>
Kill(p) ==
  /\ Crashes /\ procs[p].pc \notin {"off", "error"} /\ procs' = [procs EXCEPT ![p] = Off]
  /\ UNCHANGED <<file, runs, images>>

Next == \E p \in Procs :
  \/ \E own \in Settings : Load(p, own)
  \/ Truncate(p) \/ Write(p) \/ \E s \in Services : setExtraEnv(p, s)
  \/ End(p) \/ Kill(p)
Spec == Init /\ [][Next]_vars

-----------------------------------------------------------------------------
(* Properties. *)
Saving == \E p \in Procs : procs[p].pc = "saving"
TypeOK == /\ \A p \in Procs : procs[p].pc \in {"off", "loaded", "saving", "saved", "built", "error"}
          /\ DOMAIN file.extra = Services
          /\ file.target \in DockerTargets \cup {""} /\ file.node \in NodeEnvs \cup {""}

\* The parts that nopo leaves in the file are those of its tag.
PartsMakeTheTag ==
  file \in Originals \/ file.tag = NoTag \/
    file.tag = stringify(Whole(file.registry, file.image, file.version, file.digest))

\* A process that sets nothing about the image goes on with the tag that it finds,
\* and is not refused for it.  That takes parts that can be read back: a version
\* with no slash, which DOCKER_TAG=org/app does not make; no colon in an image; and
\* where the project has a registry, one that looks like a host.
ReadsBack(env, base) ==
  LET path == env.registry \o env.image
  IN  /\ Len(env.version) = 1 /\ Len(env.version[1]) = 1 /\ Len(env.registry) < 2
      /\ \A i \in DOMAIN path : path[i] # <<"sha256">>
      /\ \A i \in DOMAIN env.image : Len(env.image[i]) = 1
      /\ base.registry = None \/ Hosted(path)
TagIsKept ==
  Concurrent \/ \A p \in Procs :
    LET own == procs[p].own
    IN  /\ procs[p].pc \in {"loaded", "error"} /\ own.tag = NoTag /\ ~hasExplicitOverride(own)
        /\ file.tag # NoTag /\ ReadsBack(file, own.base)
        => \/ procs[p].pc = "loaded" /\ procs[p].env.tag = file.tag
           \/ /\ procs[p].pc = "error"
              /\ own.target \notin DockerTargets \cup {""} \/ own.node \notin NodeEnvs \cup {""}

\* What a process sets is what it writes: a whole tag, in the project's registry
\* if it names none, or a part of one; on a local version the target and NODE_ENV;
\* and the tag of a service that it does not build.
OverridesWin == \A p \in Procs : procs[p].pc \in {"loaded", "saved"} =>
  LET own == procs[p].own env == procs[p].env asked == parse(own.tag)
  IN  /\ IF own.tag # NoTag
         THEN asked.version # None => env.tag =
                IF asked.registry # None THEN own.tag
                ELSE [text |-> own.base.registry \o own.tag.text, digest |-> own.tag.digest]
         ELSE /\ own.version # None => env.version = own.version
              /\ own.image # None => env.image = own.image
              /\ own.registry # None => env.registry = own.registry
              /\ own.digest # None => env.digest = own.digest
      /\ env.version = Local => /\ own.target # "" => env.target = own.target
                                /\ own.node # "" => env.node = own.node
      /\ \A s \in Services \ procs[p].built :
           own.extra[s] # NoTag => env.extra[s] = own.extra[s]
\* Nothing but a local build is deployed with other than production settings.
OnlyLocalIsDevelopment ==
  \/ file \in Originals \/ file.version = Local
  \/ {file.target, file.node} \subseteq {"", "production"}
\* "`*_IMAGE` are preserved": the tag of an image that was built stays until
\* another build of the service, or a process that sets it.
ImagesPreserved == Saving \/ file.extra = images

=============================================================================
