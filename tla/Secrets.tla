------------------------------- MODULE Secrets -------------------------------
(***************************************************************************)
(* `nopo secret set|unset|get|rotate-key` (scripts/secret.ts, secrets/):   *)
(* encrypted values kept inside the services' nopo.yml files.              *)
(*                                                                         *)
(* A file is the tree under its `runtime:` key: a map is a function from   *)
(* names, a scalar is [leaf |-> [plain, id]], where id # 0 says that it is *)
(* an ENC[...] envelope sealed to the age identity id.  Every write reads  *)
(* the document and later renames a changed copy over it; several commands *)
(* may run at once (the script skips the queue) and each may be killed.    *)
(***************************************************************************)
EXTENDS Integers, FiniteSets

CONSTANTS Files, Docs, Procs, Requests, MaxIdentity, Faults
  \* Docs: the documents a file may hold at first; Faults: where a command may be killed
VARIABLES files, identity, known, made, audit, shown, proc
vars == <<files, identity, known, made, audit, shown, proc>>

Empty == [x \in {} |-> 0]
Sealed(v, i) == [leaf |-> [plain |-> v, id |-> i]]
IsMap(n) == "leaf" \notin DOMAIN n
IsEnvelope(n) == ~IsMap(n) /\ n.leaf.id > 0
With(n, k, v) == [x \in DOMAIN n \union {k} |-> IF x = k THEN v ELSE n[x]]
Without(n, k) == [x \in DOMAIN n \ {k} |-> n[x]]
MapAt(n, k) == IF k \in DOMAIN n /\ IsMap(n[k]) THEN n[k] ELSE Empty

(* How the editor and the configuration read one document. *)
isFlatRuntime(doc) == \E k \in DOMAIN doc : ~IsMap(doc[k])
FieldNames == {"command", "port", "env", "secrets", "deps", "processes"}
isRuntimeMapShape(doc) == (\A k \in DOMAIN doc : IsMap(doc[k])) /\ DOMAIN doc \ FieldNames # {}
Parsed(doc) == IF isRuntimeMapShape(doc) THEN doc ELSE [default |-> doc]   \* autoWrapRuntime

getRuntimeBlock(doc, r) == IF isFlatRuntime(doc) THEN (IF r = "default" THEN doc ELSE Empty)
                           ELSE MapAt(doc, r)
readSecretKeys(doc, r) == DOMAIN MapAt(getRuntimeBlock(doc, r), "secrets")
HasSecret(doc, r, k) == k \in readSecretKeys(doc, r) /\ ~IsMap(getRuntimeBlock(doc, r).secrets[k])
PutBlock(doc, r, b) ==
  IF isFlatRuntime(doc) THEN IF r = "default" THEN b ELSE With([default |-> doc], r, b)
                             ELSE With(doc, r, b)
setSecret(doc, r, k, v) ==
  LET block == getRuntimeBlock(doc, r)
  IN PutBlock(doc, r, With(block, "secrets", With(MapAt(block, "secrets"), k, v)))
unsetSecret(doc, r, k) ==
  LET block == getRuntimeBlock(doc, r)
  IN PutBlock(doc, r, With(block, "secrets", Without(block.secrets, k)))
listSecrets(doc) ==
  LET rs == IF isFlatRuntime(doc) THEN {"default"} ELSE DOMAIN doc
  IN UNION {{[r |-> r, k |-> k] : k \in readSecretKeys(doc, r)} : r \in rs}

(* The documents that the editor and the configuration read alike: a flat   *)
(* block with a scalar of its own, or a map of blocks of which one has a    *)
(* name that no field has.  What happens to others is in README.md.         *)
Block(b) == IsMap(b) /\ ("secrets" \in DOMAIN b => IsMap(b.secrets))
Sound(doc) ==
  \/ isFlatRuntime(doc) /\ Block(doc)
  \/ doc = Empty
  \/ isRuntimeMapShape(doc) /\ \A r \in DOMAIN doc : Block(doc[r])
Envelopes(doc) ==
  {x \in UNION {{b.secrets[k] : k \in DOMAIN MapAt(b, "secrets")} :
                b \in {Parsed(doc)[r] : r \in DOMAIN Parsed(doc)}} : IsEnvelope(x)}
SecretAssumption ==
  /\ MaxIdentity \in Nat \ {0}
  /\ \A doc \in Docs : Sound(doc) /\ \A x \in Envelopes(doc) : x.leaf.id = 1
  /\ \A req \in Requests :
       /\ req.verb \in {"set", "unset", "get", "rotate-key"}
       /\ req.verb # "rotate-key" => req.f \in Files /\ req.r \notin FieldNames /\ req.k # "leaf"

Idle ==
  [pc |-> "idle", req |-> [verb |-> "none"], doc |-> Empty, id |-> 0, new |-> 0, todo |-> {},
   items |-> {}, pending |-> {}, item |-> Empty]
Init == /\ files \in [Files -> Docs] /\ identity = 1 /\ known = {1} /\ made = 1
        /\ audit = {} /\ shown = {} /\ proc = [p \in Procs |-> Idle]

\* A failing or slow identity command ends the process: nothing was written yet.
loadIdentity == identity
At(p, pc) == proc[p].pc = pc
Done(p) == proc' = [proc EXCEPT ![p] = Idle]
Held == UNION {{proc[p].id, proc[p].new} : p \in Procs}

(* set, unset and get read the document of one file. *)
Start(p, req) ==
  /\ At(p, "idle") /\ req.verb # "rotate-key"
  /\ proc' = [proc EXCEPT ![p].pc = "load", ![p].req = req,
                          ![p].id = IF req.verb = "set" THEN loadIdentity ELSE 0]
  /\ UNCHANGED <<files, identity, known, made, audit, shown>>
Read(p, doc, pc) == proc' = [proc EXCEPT ![p].pc = pc, ![p].doc = doc]
Load(p) ==
  /\ At(p, "load") /\ UNCHANGED <<files, identity, known, made, audit, shown>>
  /\ LET req == proc[p].req  doc == files[req.f]  there == HasSecret(doc, req.r, req.k)
     IN \/ req.verb = "set" /\ Read(p, doc, "save")
        \/ req.verb = "unset" /\ there /\ Read(p, doc, "save")
        \/ req.verb = "get" /\ there /\ IsEnvelope(getRuntimeBlock(doc, req.r).secrets[req.k])
             /\ Read(p, doc, "decrypt")
        \/ req.verb # "set" /\ ~there /\ Done(p)
Saved(p) ==    \* the document that p is about to write
  LET req == proc[p].req
  IN IF req.verb = "set" THEN setSecret(proc[p].doc, req.r, req.k, Sealed(req.v, proc[p].id))
     ELSE unsetSecret(proc[p].doc, req.r, req.k)
Save(p) ==
  /\ At(p, "save") /\ Done(p) /\ files' = [files EXCEPT ![proc[p].req.f] = Saved(p)]
  /\ UNCHANGED <<identity, known, made, audit, shown>>

(* get: the audit line is written before the plaintext. *)
Decrypt(p) ==
  /\ At(p, "decrypt") /\ UNCHANGED <<files, identity, known, made, audit, shown>>
  /\ LET req == proc[p].req
     IN IF getRuntimeBlock(proc[p].doc, req.r).secrets[req.k].leaf.id = loadIdentity
        THEN proc' = [proc EXCEPT ![p].pc = "audit"] ELSE Done(p)
Audit(p) ==
  /\ At(p, "audit") /\ audit' = audit \union {proc[p].req}
  /\ proc' = [proc EXCEPT ![p].pc = "show"]
  /\ UNCHANGED <<files, identity, known, made, shown>>
Show(p) ==
  /\ At(p, "show") /\ shown' = shown \union {proc[p].req} /\ Done(p)
  /\ UNCHANGED <<files, identity, known, made, audit>>

(* rotate-key: decrypt every value (pass A), then rewrite them one by one;   *)
(* the order in which it takes files and values is left open.                *)
StartRotate(p, req) ==
  /\ At(p, "idle") /\ req.verb = "rotate-key" /\ made < MaxIdentity /\ made' = made + 1
  /\ proc' = [proc EXCEPT ![p].pc = "collect", ![p].req = req, ![p].id = loadIdentity,
                          ![p].new = made + 1, ![p].todo = Files]
  /\ UNCHANGED <<files, identity, known, audit, shown>>
ListFile(p) ==
  /\ At(p, "collect") /\ proc[p].items = {}
  /\ \E f \in proc[p].todo :
       proc' = [proc EXCEPT ![p].todo = @ \ {f},
                            ![p].items = {[f |-> f, r |-> x.r, k |-> x.k] :
                                            x \in listSecrets(files[f])}]
  /\ UNCHANGED <<files, identity, known, made, audit, shown>>
Value(x) == getRuntimeBlock(files[x.f], x.r).secrets[x.k]
Opens(p, x) ==
  HasSecret(files[x.f], x.r, x.k) /\ IsEnvelope(Value(x)) /\ Value(x).leaf.id = proc[p].id
Decrypted(x) == [f |-> x.f, r |-> x.r, k |-> x.k, plain |-> Value(x).leaf.plain]
\* Broken: a value is rewritten as soon as it is decrypted.
CollectAndWrite(p) ==
  /\ At(p, "collect")
  /\ \E x \in proc[p].items :
       /\ IF Opens(p, x)
          THEN proc' = [proc EXCEPT ![p].items = @ \ {x}, ![p].pending = @ \union {Decrypted(x)}]
          ELSE Done(p)
       /\ LET resealed == Sealed(Value(x).leaf.plain, proc[p].new)
          IN files' = IF Opens(p, x) THEN [files EXCEPT ![x.f] = setSecret(@, x.r, x.k, resealed)]
                      ELSE files
  /\ UNCHANGED <<identity, known, made, audit, shown>>
Collect(p) ==
  /\ At(p, "collect")
  /\ \E x \in proc[p].items :
       IF Opens(p, x)
       THEN proc' = [proc EXCEPT ![p].items = @ \ {x}, ![p].pending = @ \union {Decrypted(x)}]
       ELSE Done(p)   \* "No files were modified."
  /\ UNCHANGED <<files, identity, known, made, audit, shown>>
Collected(p) ==
  /\ At(p, "collect") /\ proc[p].items = {} /\ proc[p].todo = {}
  /\ proc' = [proc EXCEPT ![p].pc = IF proc[p].pending = {} THEN "finish" ELSE "reload"]
  /\ UNCHANGED <<files, identity, known, made, audit, shown>>
Reload(p) ==
  /\ At(p, "reload")
  /\ \E x \in proc[p].pending :
       proc' = [proc EXCEPT ![p].pc = "rewrite", ![p].item = x, ![p].doc = files[x.f]]
  /\ UNCHANGED <<files, identity, known, made, audit, shown>>
Rewritten(p) ==
  LET x == proc[p].item IN setSecret(proc[p].doc, x.r, x.k, Sealed(x.plain, proc[p].new))
Rewrite(p) ==
  /\ At(p, "rewrite") /\ UNCHANGED <<identity, known, made, audit, shown>>
  /\ files' = [files EXCEPT ![proc[p].item.f] = Rewritten(p)]
  /\ LET rest == proc[p].pending \ {proc[p].item}
     IN proc' = [proc EXCEPT ![p].pending = rest,
                             ![p].pc = IF rest = {} THEN "finish" ELSE "reload"]
Finish(p) ==   \* the new identity is printed
  /\ At(p, "finish") /\ known' = known \union {proc[p].new} /\ Done(p)
  /\ UNCHANGED <<files, identity, made, audit, shown>>
Install ==   \* the operator stores the newest identity shown, and revokes the old one
  /\ \E i \in known : i > identity /\ identity' = i
  /\ UNCHANGED <<files, known, made, audit, shown, proc>>

Phase(p) == IF proc[p].pc \in {"reload", "rewrite", "finish"} THEN "rewrite" ELSE "other"
Kill(p) ==
  /\ ~At(p, "idle") /\ Phase(p) \in Faults /\ Done(p)
  /\ UNCHANGED <<files, identity, known, made, audit, shown>>

Next ==
  \/ \E p \in Procs : \/ \E req \in Requests : Start(p, req) \/ StartRotate(p, req)
                      \/ Load(p) \/ Save(p) \/ Decrypt(p) \/ Audit(p) \/ Show(p)
                      \/ ListFile(p) \/ Collect(p)
                      \/ Collected(p) \/ Reload(p) \/ Rewrite(p) \/ Finish(p) \/ Kill(p)
  \/ Install
Spec == Init /\ [][Next]_vars

(* Properties.                                                              *)
\* What the configuration reads from a document: runtime, field, key and plain value.
Plain(n) == n.leaf.plain
Settings(doc) ==
  LET P == Parsed(doc)
  IN UNION {UNION {IF IsMap(P[r][f]) THEN {<<r, f, k, Plain(P[r][f][k])>> : k \in DOMAIN P[r][f]}
                   ELSE {<<r, f, "", Plain(P[r][f])>>} : f \in DOMAIN P[r]} : r \in DOMAIN P}

TypeOK == /\ identity \in known /\ known \subseteq 1..made /\ made <= MaxIdentity
          /\ \A p \in Procs : proc[p].id \in 0..made /\ proc[p].new \in 0..made
          /\ \A f \in Files : \A x \in Envelopes(files[f]) : x.leaf.id \in 1..made

\* Every stored value can be opened: its identity was shown to the operator or
\* is still held by the command that wrote it (secretRotateKey prints the new
\* identity last).
NoValueIsLost == \A f \in Files : \A x \in Envelopes(files[f]) : x.leaf.id \in known \union Held

\* When a rotation is about to print its identity and call the previous one
\* obsolete, no secret the configuration reads is still sealed to an old one.
RotationIsComplete ==
  \A p \in Procs : At(p, "finish")
    => \A f \in Files : \A x \in Envelopes(files[f]) : x.leaf.id = proc[p].new

\* `set` and `unset` change, for the configuration that is read next, the one
\* secret they name, and a rotation changes no plaintext at all.
Others(S, r, k) == {x \in S : ~(x[1] = r /\ x[2] = "secrets" /\ x[3] = k)}
OnlyTargetChanges ==
  \A p \in Procs : LET req == proc[p].req
    IN /\ At(p, "save") =>
            /\ Others(Settings(Saved(p)), req.r, req.k) =
                 Others(Settings(files[req.f]), req.r, req.k)
            /\ req.verb = "set" => <<req.r, "secrets", req.k, req.v>> \in Settings(Saved(p))
       /\ At(p, "rewrite") =>
            Settings(Rewritten(p)) = Settings(files[proc[p].item.f])

\* No plaintext reaches stdout before the audit line of that read is on stderr.
NoUnauditedRead == shown \subseteq audit
=============================================================================
