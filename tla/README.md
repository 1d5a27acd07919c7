# nopo, specified

TLA+ models of `nopo`, the task runner in `src/packages/nopo` with its plugins in
`src/nopo/plugins`, their model-checking runs, and machine-checked proofs about the core.
Paths below are relative to `src/packages/nopo/src/` unless they start with `src/` or
`plugins/`, which stands for `src/nopo/plugins/`.

## 1. The system

`nopo <command>` reads the configuration of a monorepo, decides which targets the command is
for, builds a *plan* (a graph of nodes, each a plugin hook or a built-in) and executes it with
bounded parallelism, taking the nodes that a cache says have passed already out of it. Before
it does, it queues at a per-user *broker* process for worker slots, so that all invocations on
the machine share one budget. Plugins build images, deploy to Kubernetes, and run tests and
linters.

| component | code | modelled by |
|---|---|---|
| worker-slot pool | `queue-core.ts` | SlotPool |
| queue broker, queue client | `queue-broker.ts`, `queue-client.ts` | QueueSession, WorkerBudget |
| broker election | `listen()`, `shutdown()`, `spawnBroker` | BrokerElection |
| plan model, folding, merging | `plan.ts`, `plan-compact.ts` | PlanRunner, PlanCompact |
| plan runner | `plan-runner.ts` | PlanRunner, PlanSchedule |
| plan cache, result stores | `cache/` | StepCache, CachedPlan, ResultStore, FileStore, ObjectStore |
| command lifecycle | `index.ts`, `timeout.ts`, `child-registry.ts`, spawning in `io.ts`, `lib.ts` | CommandLifecycle, Timeout |
| resource limits | `resource-limits.ts` | ResourceLimits |
| command planning | `commands/index.ts`, `scope.ts` | CommandPlan |
| target resolution | `lib.ts`, `target-args.ts`, `filter.ts`, `graph.ts`, `dependency-graph.ts` | Targets, Expansion |
| command-line readers | `args.ts`, `script-args.ts`, `target-args.ts`, `dispatch.ts`, `plugin-command.ts` | Arguments |
| project loading, installs | `config/index.ts`, `config/install-phase.ts`, `scripts/install.ts` | ProjectLoad |
| runtime blocks, addresses | `config/runtime.ts`, `svc-env.ts` | RuntimeBlocks |
| plugins, hooks, dispatch | `config/index.ts`, `dispatch.ts`, `lib.ts`, `scripts/` | PluginRegistry, Invocation |
| decision client | `decisions/index.ts` | DecisionClient |
| `.env` and docker tags | `parse-env.ts`, `docker-tag.ts`, `scripts/env.ts` | EnvFile |
| secrets | `secrets/`, `scripts/secret.ts` | Secrets |
| host builds | `scripts/build.ts`, `command-dag.ts` | HostBuild |
| image builds | `plugins/docker` | ImageBuild, BuildContext |
| Kubernetes | `plugins/terraform` | Manifests, K8sDeploy, K8sRun, Rollout (with `filter.ts`) |
| Vitest coordinator | `plugins/vitest/src/session.ts`, `session-worker.mjs` | VitestSession |

How they interact: the command lifecycle takes its lease from the pool, through broker and
client; command planning and target resolution give the plan that, narrowed by the cache, the
runner executes; the runner's handlers are hooks of plugins, commands in child processes, and
nested nopo commands that queue again; deploys take what target resolution found changed.

What is hard in it, and what makes each part correct:

- *Several processes on one thing.* Clients of one budget, brokers of one socket path, writers
  of one cache directory or bucket, of one `.env`, of one secrets file, of one cluster. Nobody
  may be given what another has, read half of what another writes, or be left waiting.
- *Callbacks of one process in any order.* Handlers of a plan, messages and closes of sockets,
  a timer and the answer it gives up on, calls of one decision client, requests of one
  coordinator. Readiness, capacity, poisoning, budgets must be exact after each of them.
- *Ends at any moment.* A broker, a writer, a test process, a deploy or a rotation dies between
  two steps; a command is timed out with its children alive. What is left must be sound, and
  the next one must cope with it.
- *Stale knowledge.* Keys computed before a step and recorded after it; pods of two versions; a
  `.env` read at the start. What is concluded from it must still be so.
- *Several descriptions of one thing.* Two views of a runtime block, three lists of lockfiles,
  four readings of one command line. They must agree.

The hazards themselves, each at its line, are in `PROJECT.json`.

## 2. The modules

```
SlotPool <-- QueueSession --refines--> WorkerBudget        BrokerElection (with proofs)
   ^  ^         ^--------- QueueSessionProofs
   |  CommandLifecycle          |
   |                            v
SlotPoolProofs <----------------+

PlanRunner --refines--> PlanSchedule
   ^
PlanRunnerProofs

MCCache          StepCache  CachedPlan  FileStore (--refines--> ResultStore)  ObjectStore
   ^-- CacheProofs                                                       EnvFile (twice)
MCCommand        CommandLifecycle (twice)  DecisionClient  VitestSession  Invocation
   ^-- CommandProofs                                          CachedPlan  ObjectStore
MCConfiguration  CommandPlan  PlanCompact  Targets  Arguments
MCProject        Expansion  ProjectLoad  PluginRegistry  BuildContext  RuntimeBlocks
                 Timeout  ResourceLimits
   ^-- ProjectProofs
MCRelease        HostBuild  ImageBuild  Secrets  Manifests (twice)
   ^-- ReleaseProofs                    K8sDeploy (twice)  K8sRun (twice)  Rollout (twice)
```

### The queue

**SlotPool** is `SlotPool`: a pool is a record `[granted, waiters]`. `Request` and `Release`
are `request()` and `release()`, each with the `drain()` it ends in: `DrainRun` is the
`while` loop as a recursive function, one `Iteration` per waiter shifted. A client that is
not in the `granted` map has 0 there. `Share` is the expression of line 113.

**QueueSession** composes one pool with the broker's event handlers and the clients of the
queue. A command moves through `new`, `retrying`, `asked` (or `visiting`, for a connection
that never asks), `running`, `over`. Each handler of the broker's event loop is an action:
`Accept` (connection), `HandleAcq` (an `acq` line), `OnGone` (close), `IdleFires`. What a
socket carries is a FIFO sequence per direction and client; different sockets interleave
freely, and a close travels behind what was written before it. `Disappear` is what a broker's
end (shutdown or crash) does to its sockets. It implements **WorkerBudget**, the promise told
from the commands' side: wait, then run on a lease within the budget or unthrottled.

**BrokerElection** looks at the moment QueueSession takes as given: who listens on the path.
One system call of one process is one action. `path` is the identity of the socket file, that
is, of the broker whose bind created it, so that unlinking somebody else's file and the stale
file of a dead broker (`Ghost`) are expressible. That `server.close()` unlinks the path by name,
before `unlinkSync` does so again, is how Node's event library (libuv) closes a named pipe.

**ResourceLimits** is the arithmetic from what cgroup files, the machine and two variables say
to the number of workers; **Timeout** that from what is written to the delay of the timer.

### Plans

**PlanRunner** is `validatePlan()` and `executePlan()`. Nodes are `1..NodeCount` in insertion
order; `needs[n]` is the array as it stands, with repeated and unknown ids. `IsCyclic` is the
reference definition that Kahn's algorithm is checked against. The record `run` holds the
variables of `executePlan()`'s closure.
`Execute` is the call up to the first wave, `Succeed(n)` and `Fail(n)` the callbacks of node
`n`'s handler, with everything they call: JavaScript runs each to completion. Which handler
settles next, and how, is nondeterministic. It implements **PlanSchedule**: what statuses may
do, in one step, for any scheduler.

**PlanCompact** is `compactPlan()` (claims of plugins, groups, batch nodes and what refers to
them) and `mergePlans()`. **CommandPlan** goes from the commands of the `nopo.yml` files to
stages: resolution of a name, selectors, `deps` and `dependencies`, the task graph.

### Caching

**StepCache** is one lookup and one record: what may be cached, what a key covers, when a hit
counts (age, signature, sampling), the second check of the tree after the step, invalidation.
Every process has its checkout; edits, commits and discards happen between its steps. A step
passes or fails by the content it *reads*, which the key may or may not cover: that is what
makes `HonestEntries` a statement about the code. **CachedPlan** is `executePlanWithCache()`: lookups, needs
inherited through cached nodes, batches narrowed to their misses, records as nodes pass, the
bounded wait for the writes. It passes the failure mode on to `executePlan()`, and both are modelled:
fail-fast, the default of the command line (`lib.ts:1460`), where no node starts after a failure and
those that have not started are skipped, and keep-going. `ResultsCoverPlan` says of each what may be
skipped. **FileStore** is the directory store, one system call at a time,
with a full disk and kills, and implements **ResultStore**, which changes a key's content in
one step from nothing or a whole entry to another; **ObjectStore** is the bucket store, whose
requests may be lost, late, refused, or take effect after the client gave up.

### A command while it runs

**CommandLifecycle** is `main()` from the lease to the exit code, with children, their registry,
the limit, kills, and steps that are nopo commands. The queue is a SlotPool that sees a command
go as soon as its process does. **Invocation** has the scripts of one invocation, the hooks and
overrides each calls in which phase, failure, and the cleanups at the end; **PluginRegistry**
which plugins load and what a runtime or an override resolves to. **DecisionClient** is
`evaluate()`, a race of a timer and the work it gives up on. **VitestSession** is the
coordinator and its process, joined by two message queues.

### Configuration, targets, command lines

**ProjectLoad** (directories, duplicates, system dependencies, refusals, installs per lockfile),
**RuntimeBlocks** (the merge of layers and the deploy's older view of it, processes, addresses),
**Targets** (words, filters, changes, order), **Expansion** (the three walks over the service
graph; its queue is kept as a set, since the order makes no difference to what is reached) and
**Arguments** (the four loops that read one line) are pure algorithms: `Init` chooses an input, and the
properties compare the result with a definition of what it is to compute. ProjectLoad, Expansion
and BuildContext work in several steps, as the code reads files in the file system's order.

### Builds and deploys

**ImageBuild** is the batch node of the docker plugin and the node after it: definition, staged
contexts, `.env`, bake, build info, in the code's order, with a failure at any of them;
**BuildContext** the context of one service and the layers that read it; **HostBuild** the plan
of `nopo build` and the scripts that `build.command` comes to, with the shell's rule for the
status. `visit` of `command-dag.ts`, which throws when it is called for a name in its own chain, is
the function `Visit`, nested as deep as a chain without repetition can be; `Enter` is its body and
`Each` its loop over `deps`. **EnvFile** has the processes that read `.env` at their start and write it whole.
A tag is cut at its slashes and colons, and no further: the text that `DockerTag.stringify()` joins is
read again by `parse()` as the code reads it, so that a version with a slash comes back as something
else. A process has its own variables (a whole tag, parts of one, a target, `NODE_ENV`, images of
services) and the image and registry that `nopo.yml` gives it; the first file is none, or one with a tag
or with an image and a version that nopo did not write. Versions, digests and hosts are well-formed;
`DOCKER_PORT` and `GIT_*`, which each process finds anew [59, 60], are left out; the last segment of a
built image, `image-service`, is written as a segment of its own.
**Secrets** has the commands that rewrite `nopo.yml` files, with a kill between any two writes; which
value a rotation takes next is left open.
**Manifests** is the set of objects a deploy writes. **K8sDeploy** is `up()` and `down()` beside a
cluster that replaces pods on its own, **K8sRun** `run()` in throwaway namespaces, **Rollout** the
question which services a deploy takes, over commits, images in the cluster and partial failures.

Operators marked *Broken* are plausible bugs in the definition that follows them; with each of
them one of the properties fails, which shows that the property depends on that code.

### The suites

Five MC modules check several components in one run. They do not compose them: a behaviour
of `MCCache`, say, is a behaviour of *one* of its components, chosen by the variable `part`, whose
state is in the shared variables `v1, v2, ...` through `INSTANCE ... WITH`; those it does not use
are `"off"`. (The walks of MCProject keep Expansion's own variables.) The state space is the sum of the components', a component's properties speak under
`part = ...`, and a property of the suite conjoins those that ask one question of the components.
The constants of MCCache, MCCommand and MCProject, and of MCRelease but for Manifests, are parameters
of these modules, under assumptions that TLC evaluates for the values in the .cfg, so that the
theorems about the four suites hold for all of them.
Where components do interact they are composed in the module that names both: QueueSession and
CommandLifecycle own a SlotPool, Invocation extends PluginRegistry.

## 3. Runs

| run | states | what it shows |
|---|---|---|
| `pool` | 1,310 | the budget is a hard cap, no slot idles beside a waiter, each client is known once; first come first served in fair shares that are never resized; nobody starves |
| `session` | 137,036 | a running command's slots stay booked until its close is read, no grant is lost, the idle timer is armed whenever nobody is connected and never takes the broker from a client it serves; WorkerBudget is implemented |
| `session_live` | 37,564 | every command gets to run, the broker stops in the end |
| `session_doc` | | **violated**: the workers of all sessions exceed the budget after a broker crash |
| `election` | 1,935 | without overlapping spawns at most one broker serves, and it is at the path; races leave a reachable broker; a spawn leads to a service |
| `election_doc` | | **violated**: two brokers serve at once |
| `plan` | 47,509 | validation, readiness, capacity, poisoning, abort, finish; PlanSchedule is implemented; every plan ends or throws |
| `cache` | 2,169,021 | entries are honest, hits earned, the rest of a plan keeps its order, readers of the directory see whole entries, an acknowledged put was stored; what processes leave in `.env` is one tag with its parts, and what they set |
| `command` | 223,693 | workers in budget, exit codes honest, answers bounded, one test run at a time, hooks in order, late news ignored; everything ends |
| `configuration` | 63,851 | command plans, folding, targets and command lines against their reference definitions |
| `project` | 230,354 | walks over services give the least closed set; a project is what its files say, and one install runs per lockfile; a build context has what the image reads, and its layers are in the right order; the last layer of a runtime wins, time limits and numbers of workers are what the settings and the machine say |
| `release` | 298,824 | host builds keep their order and scripts theirs; images are what they are reported to be, whatever fails; secrets, manifests, deploys, throwaway runs and the choice of what to deploy; the cluster settles |

*Bounds, and why they are enough.*

- *Pool*: four clients, five slots, asks of 0, 1, 4 and 9. The share changes between grants of
  one pass (5, 2, 1), grants of unequal size meet, and slots run out in the middle of the queue.
- *Session*: three commands are the least for one to hold, one to wait and one to leave; one
  crash brings a second broker up beside grants of the first. Each command connects once, as in
  the code, where `acq` is written once per process. The live run has one slot, so that
  commands must wait for each other.
- *Election*: two contenders race and a third meets what they leave; one of them may crash.
- *Plan*: all plans of four nodes without repeated needs, and all of three nodes with up to two
  needs each (repeated, cyclic and unknown ones included) beside a free node. A diamond, a node
  with a failed and a running need, chains, forks and two chains fit; with two workers nodes
  wait for capacity as well as for needs. Other caps, 0 among them, are covered by the proofs.
- *Cache*: two processes, one of which signs; two versions of four files (two edits, two runs,
  one tick of the clock), with a dependency, a root file and a generated, ignored input. Every
  acyclic plan of three nodes, the second a batch of two targets, in both failure modes: a fork and a
  free node are enough for a node to be skipped that no failure is before. Two keys and two operations
  per process in the directory; one key in the bucket, where keys do not interact. Three runs that
  write `.env`: one to make a tag, one to read it back and a third to read what that one made of it,
  from three first files, with every part of a tag, whole tags with and without a host, a slash and a
  digest, a default registry, and targets that the schema knows or not.
- *Command*: a budget of two for three commands, one exempt, with children that hang, fail, are
  signalled or outlive their command; a budget of one for a command whose step is a command. Three
  decisions for one place and two requests, with answers that fit or not, and every setting; three
  test runs and an abortable discovery over two crashes; every command over four projects of up
  to two plugins.
- *Configuration*: command trees with groups, composite and deps-only commands; plans
  of four nodes with every claim; four projects by every combination of words, filters and flags;
  lines of up to three items in every spelling.
- *Project*: every graph over three services with a chosen set of edges, cycles and unregistered
  names included; trees of three directories with up to two files; up to three of six plugins; four
  workspaces, cycles included, and three services that are built after each other, two package
  managers out of three; every combination of a flat block, or one of two processes, and an overlay; times about
  0, half a millisecond and 2^31; machines of one and four cores against every kind of cgroup file.
- *Release*: three commands in a DAG with cycles, shared, undeclared and unsuitable ones, and three
  services with every set of build dependencies, any steps failing; two services with every combination of flags, one failing at each step; two documents, two files, two rotations; two
  releases, two services, one eviction; two overlapping throwaway runs; three commits.

*Switches.* Some constants turn one fault on or off. They are off in the runs where the code is
known not to withstand the fault, and the disagreement is listed in section 4 under the number
in brackets: `EditIgnored` and `CommitDuringRun` of StepCache [4, 5]; `LookupMayFail` of
CachedPlan [7]; `Refusals` of K8sDeploy in a plain deploy [38] (on in `down`); the faults of
Rollout [25, 26], `Kills` of K8sRun [39], and `Concurrent` and `Crashes` of EnvFile [55], which are
on in `fleet`, `killed` and `race`, where only the properties that hold then are asked; a second
process, and a kill in the middle of the rewriting, in Secrets [41, 42]; a `raw` child, and an
`exec` child ended by a signal, in CommandLifecycle [14, 16]; `--no-cache` in ImageBuild [51].
Where a deviation sits in the input rather than in a fault, either the property names the
exception (outside dev mode; as long as no overlay moves the port; unless nothing was resolved;
plain lines; one folding plugin; common lockfiles; a tag that can be read back, `ReadsBack` [56]) or the instance leaves the input out: literal
colon keys and deps-only groups in dependencies of CommandPlan [18-24], ids with dashes in
Manifests [36], processes that only an overlay has [33], needs that repeat one id and drop
another in PlanCompact [46], flat documents of nothing but maps in Secrets [43, 44]. The models
keep the code's behaviour in those cases: changing the constant shows it.

*`CHECK_DEADLOCK FALSE`* stands in the runs of systems that end: all commands over and the
broker gone, the plan finished, an input computed. The pool never ends, and is checked.

*Fairness.* All of it is weak fairness, of what goes on by itself.

- *Pool*: a client that holds slots releases them some day, because commands end (by themselves
  or by their limit) and the kernel closes their sockets.
- *Session*: each event loop goes on handling what has arrived, timers fire, a spawned process
  starts, a running command ends. No command has to be killed and no broker has to crash.
- *Election*: a spawned process runs its start-up to the end.
- *Plan*: the call is made and every handler settles; nothing says how. It is stated of the states
  (`[]<>(run.status[n] # "running")`), which is what weak fairness of the two callbacks comes to.
- *Command*: event loops turn, timers fire, signals are delivered and children that were signalled
  end. A child that nobody signals may run for ever, a service need not answer, a write need not
  settle, a test run need not end. `EverythingEnds` is then about the limits that the code sets.
- *Cluster*: kubectl and the commands in pods return, since each wait has a timeout; a deploy that
  takes something is made, and succeeds, now and then.

## 4. Where code and documentation disagree

The first two are shown by the runs `session_doc` and `election_doc`. What does hold there, and
is checked, is that the leases of the *current* broker stay within the budget
(`ImplementsWorkerBudget`), and `UncontendedIsSole` with `RaceLeavesServer`.

1. `queue-broker.ts:53`: a broker starts with an empty pool while the commands its crashed
   predecessor served run on. `src/nopo/docs/cli/guides/optimization.md:95`: "Total workers across
   every session never exceed the budget".
2. `queue-broker.ts:230`: of two brokers that both probed the same stale file, the second unlinks
   the socket the first has just bound, and both serve. `queue-client.ts:155-157`: "only one wins
   the socket bind, the other exits quietly".

The others came up while the modules were written and bounded; the models behave as the code
does, and the runs keep away from the case or state the exception (section 3, *Switches*).

Plans and caching

3. `plan-runner.ts:272`: `skippedDueTo` of a grandchild is a skipped node; 70-71 says "the immediate
   failed parent's id".
4. `cache/cache-key.ts:1308`: declared inputs that are gitignored, or lie outside the directories whose
   status is asked for, are in the key and never re-checked; 1291 says it "Checks the EXACT same
   paths used for the cache key". The first kind is switched off by `EditIgnored`; the second, which
   the proof of `EntriesAreHonest` stopped at, is excluded by `StepsAssumption`.
5. `cache/index.ts:303`: `record()` checks that the tree is clean, not that HEAD is the one the key
   was computed from, so an edit committed during a step is recorded under the old key (285).
6. `cache/index.ts:349`: `invalidate()` does nothing without write permission; `plan-cache.ts:321` says
   the pass is dropped "so a false hit cannot survive".
7. `cache/plan-cache.ts:235`: lookups start before any is awaited, so a later one that rejects first
   ends the process; 290 says "Cache lookup failed - treat as miss".
8. `cache/plan-cache.ts:211`: `cacheMisses` leaves out bypassed targets of a batch; 118 calls it the
   "Number of steps that ran".
9. `cache/stores/filesystem.ts:62`: `get()` unlinks a path that another process may have replaced since
   it was read; 60 says "Clean up expired entry".
10. `cache/stores/filesystem.ts:43`: two concurrent `isAvailable()` share one probe file and one of them
    reports the store away; see `store.ts:77`.

Commands

11. `timeout.ts:45`: below half a millisecond the limit rounds to 0; 33 promises "a positive number".
12. `index.ts:394`: above 2^31-1 ms the timer fires at once; `timeout.ts:3-4`: "a command can ask for more".
13. `index.ts:399`: the timeout returns the slots while the children still end; `optimization.md:95-96`.
14. `plugins/playwright/src/index.ts:242`, `plugins/sonar/src/index.ts:357`: children are not registered;
    `child-registry.ts:4`: "Every real subprocess nopo spawns registers here".
15. `index.ts:345`: plugin subcommands run before the lease; 369: "EVERYTHING queues".
16. `lib.ts:413`: a child of `exec` ended by a signal counts as exit code 0; 1549 wants non-zero.
17. `index.ts:371`: a nested command under CI waits for its parent's slots without a limit;
    `timeout.ts:1-3`.
18. `commands/index.ts:1061`: a task keeps the deps of whoever adds it first; 1078: "Root-level deps apply
    to all resolved tasks".
19. `commands/index.ts:1069`: a dependency on a deps-only command becomes no edge; 586-588.
20. `commands/index.ts:1005`: of a group's deps-only subcommands the deps are forgotten; 979-980.
21. `commands/index.ts:893`: deps of a key written with colons are dropped; 71.
22. `commands/index.ts:728`: a dependency whose service is on the path is left out, whatever its
    command; 586-588.
23. `commands/index.ts:1067`: `dependencies:` of a command reached through deps are dropped; 586-588.
24. `commands/index.ts:1051`: a cycle of deps overflows the stack; `docs/cli/commands/config.md:255`
    (in `src/nopo/`): "detects circular dependencies and throws an error".

Targets and command lines

25. `filter.ts:135`: a config change whose deploy failed is lost when built services deploy; 121-122.
26. `plugins/terraform/src/index.ts:246`: of two versions of pods the first listed counts; 246-247: "picking
    any is fine".
27. `lib.ts:1914`: `--filter` of build, up and down never reaches the plan; `docs/cli/commands/build.md:37`.
28. `target-args.ts:159`: nor do the tags; `build.md:39`.
29. `lib.ts:1050`: words after `--`, and values of flags, are read as targets; `scripts/command.ts:373-374`.
30. `plugins/terraform/src/index.ts:924`: `up --changed` with nothing changed deploys everything; `args.ts:31`.

Runtimes and manifests (`plugins/terraform/src/index.ts` unless said otherwise)

31. `svc-env.ts:98`: the overlay's port is never looked at; 75-77.
32. `svc-env.ts:131`: a dependency on a service without a process `default` gets no address; terraform 1008.
33. 2204: processes of an overlay alone are not deployed; `config/runtime.ts:542`.
34. 2197: a declared lone `default` process is dropped; 2192.
35. 1969: claims are taken from the default block, mounts from the overlay; 1110-1111.
36. 2095: ids and processes joined by a dash collide; 2559.
37. 2734: the NodePort forms list one port; 2784.
38. 1296: a refused ConfigMap beside an applied Deployment leaves old files under the new checksum;
    2027-2030.
39. 511: the command's timeout runs no `finally`; 512: "Always clean up".
40. 655: after ten refusals a database counts as ready; 648.

Secrets (`scripts/secret.ts`, `secrets/yaml-edit.ts`)

41. `secret.ts:320`: a rotation that stops midway leaves values sealed to an identity nobody was shown;
    318: "the operator can re-run rotate-key safely".
42. `yaml-edit.ts:93`: two writers undo each other's keys; 33: "only mutates the runtime block it targets".
43. `yaml-edit.ts:151`: a flat block of nothing but maps is taken for a map of runtimes; 33.
44. `yaml-edit.ts:151`: and its secrets are left out of a rotation; `config/runtime.ts:426`.

Folding, builds, `.env`

45. `plan-compact.ts:154`: with two folding plugins a batch's needs keep ids the other folded, and
    the plan is rejected; 88: "downstream refs become the batch id".
46. `plan.ts:295`: [2, 3] against [2, 2] counts as the same needs; 102: "conflicting duplicates throw".
47. `plugins/docker/src/index.ts:693`: dev mode leaves staged contexts behind; 617.
48. docker 1035: a failed bake leaves tags of images that do not exist in `.env`; `build.md:162`.
49. `scripts/build.ts:110`: the post_build node replaces the build info by `{}`; `build.md:200`.
50. docker 1005: with `--registries` the cache is in another repository; 1002-1003: "the same repo".
51. docker 674: dev mode ignores `--no-cache`; `scripts/build.ts:137`.
52. `scripts/build.ts:313`: a failing step in the middle of a script is passed over; `command-dag.ts:112`.
53. docker 267: a requested `node_modules` or `.git` is never staged; 265: "unless explicitly requested".
54. docker 155: lockfiles of declared managers are missing from the context; 118.
55. `parse-env.ts:319`: of two processes the second loses the first one's image tags; `env.md:172`.
56. `parse-env.ts:183`: `DOCKER_TAG=org/app` saves `nopo:org/app`, which the next start reads as the image
    `app` of a registry `nopo:org` and makes `nopo:org/nopo:app`; `ghcr.io/org/app` saves a tag that it
    refuses (`docker-tag.ts:78`); and with a registry in `nopo.yml`, `DOCKER_REGISTRY=mine` is read back as
    part of the image (196). `env.md:102`: "Parses and validates"; 112.
57. `parse-env.ts:112`: a new version keeps the old digest; `env.md:80`.
58. `parse-env.ts:206`: a production target stays when the version is local again; `env.md:134-138`.
59. `parse-env.ts:150`: the port of the previous file is not kept; `env.md:112`.
60. `parse-env.ts:139`: git replaces what the variables say; `env.md:111`.

Plugins and loading

61. `plugins/vitest/src/session.ts:119`: an abort that crosses an answer fails the next request;
    `plugins/vitest/README.md:93`.
62. `config/index.ts:1055`: without plugins the runtimes are not checked; 501-503.
63. `config/index.ts:1063`: a plugin named `queue` hides the script; `plugin.ts:186`.
64. `scripts/down.ts:77`: an unknown runtime is found after the pre_ hooks; `config/index.ts:1004-1005`.
65. `lib.ts:1795`: a build on the way gets a new graph; 986-988.
66. `dispatch.ts:343`: each phase of down gets a new context; `scripts/down.ts:44-45`.
67. `lib.ts:1363`: the exit for a failed child comes before the cleanups; 946.
68. `config/index.ts:2064`: a command named `queue` is accepted; 2086.
69. `lib.ts:1258`: an inline override of a manager with the project's lockfile is dropped;
    `config/index.ts:1930`.
70. `dispatch.ts:177`: `installRun` never sees a failure's exit code; `scripts/install.ts:45-46`.
71. `dependency-graph.ts:18`: system dependencies are not followed forward; `config/index.ts:548-549`.
72. `script-args.ts:92`: `--filter=x` beside `--filter x` is dropped; `docs/cli/commands/list.md:18`.
73. `dispatch.ts:451`: list's second reading differs on `--json=false`; 419-420: "Mirrors".
74. `lib.ts:1951`: `-- -f x` filters the targets; `scripts/command.ts:373-374`.
75. `lib.ts:1914`: `build -s main` takes main for a target; `args.ts:15-20`.
76. `args.ts:11`: `-F` is no option and `-f` no format; `list.md:15`, 18.

## 5. What is proved

Theorems hold for every value of the constants under the assumptions named in the modules:

- SlotPool has a finite set of clients and any integers as budget and asks (0 and negative ones
  included), and so has QueueSession, with any number of crashes (`PoolAssumption`);
- PlanRunner has any natural number of nodes and plans that map nodes to sequences of naturals
  (repeated, unknown and own indices included), either failure mode, any integer concurrency;
- MCProject has any graph of services in which `AllServices` is a subset of the names
  (`AllServicesAssumption`), and any files: a project's files are in searched directories, by
  natural numbers, and a file's managers are a list (`LoadAssumption`); plugins are a list, and if
  runtimes are declared there is a default one (`RegistryAssumption`, which `config/runtime.ts`
  sees to); a repository has finitely many workspaces and services, a workspace with
  dependencies has a `package.json`, which is among the files every context gets, and the build info
  is no file of the repository (`ContextAssumption`); a service has a default block, whose
  only process is not called `default` [34], and the values of its secrets differ from those that are set in
  the open and from the overlay's secrets, so that they can be recognised (`BlockAssumption`); amounts of time are
  not negative, nor is what a script asks for (`TimeoutAssumption`); a machine has a core and some memory,
  and what a file says may be any integer, over a positive period (`LimitsAssumption`): all in
  `ProjectAssumptions`;
- BrokerElection any set of brokers and any number of crashes;
- MCCommand any finite sets of commands with their finite sets of steps, of calls and of requests,
  any budget and asks, and natural limits (`CrowdAssumption`, `DecisionAssumption`,
  `SessionAssumption`), and any projects with their plugins and hooks, command lines and build
  targets (`InvocationAssumption`), all in `CommandAssumptions`;
- MCCache any number of processes, keys, files and lifetimes; plans of any number of nodes that
  are acyclic, in either failure mode; and projects whose steps read what their keys cover (`CacheAssumptions`, in which
  `StepsAssumption` says the latter). `EditIgnored` and `CommitDuringRun` are FALSE, as in the
  run: with either the property is false [4, 5]; any processes and settings of `.env`, at any time
  and in any number, in any project and on any first file (`EnvAssumption`: words are sequences of segments
  with something in them, a project's image is not empty, `parse-env.ts:24`, and a file that nopo did not
  write has a tag or a version, not both, since nopo does not check the one against the other);
- MCRelease any finite set of services to bake with any flags (`BakeAssumption`: none is called `root`,
  which `config/index.ts:1437` refuses, or `root-info`); any `nopo.yml`
  files and `secret` commands, of one process that may be killed anywhere but between the writes of a
  rotation [41, 42] (`SecretAssumption`: the editor and the configuration read the documents alike, which
  leaves out [43, 44]; what is stored is sealed to the identity there is; a command names a file, and a
  runtime by a name that no field has);
- MCRelease further any projects with a finite map of commands, whatever their dependencies, kinds and
  roots are, cyclic and undeclared ones included (`HostAssumption`);
- MCRelease also any nonempty list of services to deploy and any to take down, any subset with secrets, any
  number of deploys, teardowns and evictions; any set of runs and list of what they need; any fleet with
  any failures, and a fleet without failures, of built, infrastructure and package services and any
  number of commits (all in `ReleaseAssumptions`). Two parts are not for granted. No two runs have one
  namespace name (`RunAssumption`): the name is the clock's last eight digits
  (`plugins/terraform/src/index.ts:498`), and two runs that start in one millisecond do share it, a
  hazard listed in `PROJECT.json`. And one of the fleet without failures is built: of a fleet that
  builds nothing the cluster cannot say which commit it runs (`filter.ts:124-160`).

Every loop of the code that is proved about is a recursive *function*; a lemma `...Unfolds`
states its recursion equation and the loop's invariant is shown by `SetInduction` or
`BoundedInduction`, which each proof module states for itself: induction over a set of naturals, since
the library's induction theorems take an operator.

**SlotPoolProofs.** The inductive invariant `Inv` is `Sound /\ NoSlotIdleWhileWaiting`. `Sound`
(typed, within the budget, each client known once) alone is not enough: `drain()` is only
called on a change, so that nobody waits beside a free slot must be known before the change.
`EnqueueSound` and `ForgetSound` show that the two edits keep `Sound`; `DrainSound` that the
loop restores the rest, by induction on the number of waiters (`DrainLoop`). `PoolStaysExact`
is the result. `GrantsStayFair` is about one operation: the loop serves a prefix of its queue
in order (`DrainServesFirst`, `DrainOrder`), and each grant is at most the fair share among
the clients known at that moment (`DrainShares`), since serving somebody does not change how
many clients are interested (`InterestedCounts`).

**QueueSessionProofs.** The session has no lock; that its parts agree is a statement about what
is still in the sockets. The inductive invariant `IInv` therefore gives each command one of seven
states of its *link*, which say together where the command is, what it has sent that the broker has
not read, what was sent back, and what broker and pool know of it: `Unconnected`, `Visiting`,
`AskUnread`, `AskRead`, `Running`, `Leaving` and, after its broker's end, `Cut`. With
it go the pool's own invariant (`PP!Sound`, from SlotPoolProofs, whose lemmas `RequestEffect` and
`ReleaseEffect` say what an operation does to others' grants), that the pool knows only connected
clients, that the idle timer is armed if nobody is, and that there are never more brokers starting
up than commands that may have spawned one. `SessionStaysExact` and `ShutsDownIdle` follow. For
`QueueKeepsItsPromise`, the refinement of WorkerBudget, `StageMap` and `LeaseMap` read the abstract
state off the concrete one: a lease counts from the moment the client reads its grant until it
ends, and it fits the abstract budget (`LeaseFits`) because the pool has it booked at both.

**PlanRunnerProofs, validation.** `ValidIffWellFormed`: Kahn's loop visits every node exactly if there is no
unknown need and no cycle. The loop's invariant `KahnState` says that an in-degree counts the
positions of unvisited needs, so that a node named twice is struck off twice (`StrikeOff`). A
set that the loop never visits is one in which every node needs another of the set.

**PlanRunnerProofs, execution.** The inductive invariant is `Settled` in the `executing` phase: `Consistent`
(statuses, remaining counts, ready queue, `inFlight`, skips agree) with nothing startable left.
A callback breaks `Settled` and restores it step by step: `SucceededConsistent` and
`FailedConsistent` for the change itself, `PoisonSpreads` for the poisoning worklist (by
induction on `Fuel`, a measure of what it can still visit), `StartAllConsistent` for the
`while` of `tryStartMore()`, `FinishSettles` for the end. `NobodyIsLeftWaiting` is the fact
that lets the plan finish: if nothing is ready or running, nothing is pending, because a least
pending node would be ready. `RunnerStaysExact`, `PoisonReachesExactly`, `AbortStartsNothing`
and `SettledStays` follow. `RunnerImplementsSchedule` shows that PlanRunner implements
PlanSchedule: initial states map to initial states and every callback to one abstract step.

**BrokerElection** (proofs at the end of the module), for any number of brokers and crashes.
`Sole`: while nothing has contended, at most one broker is between its start and its exit; a
spawn keeps it, because whoever serves is at the path and would have been reached. `Path`:
while every broker lives, a path that is gone has a broker about to bind it. They give
`UncontendedStaysSole` and `RaceAlwaysLeavesServer`.

**ProjectProofs.** One invariant for each component that takes steps.

- Expansion: targets are part of the result, what has been expanded has its neighbours in it, and
  the result stays within every closed set that contains the targets; at the end that makes it the
  least (`ExpansionLeastClosedSet`, and `WalksAreLeast` in the suite).
- `LoadInv`, for `ProjectsAreSound`. Files are read in the file system's order, so the invariant is about
  the set read so far: the entries are those of `ReadFiles` and nobody else's (`EntriesAreRead`), and no
  two of them have one name. What was refused is refused for a cause that stays one whatever would
  have been read next. The system dependencies are then injected everywhere but in themselves. Of the installs,
  what ran and what is pending always make up the whole list (`Running`), which has each
  lockfile once since the loop keeps the first of each (`Seen`), by induction over the managers
  gathered and over the names they were gathered from. What a list of plugins can be relied on for is
  an induction over the list.
- `CtxInv`, for `ContextsStayWhole`: a built context is `Assembled` from a set of services and one of
  workspaces, closed under build dependencies and under workspace dependencies. `ClosureIs` says that the
  bounded iteration of `Closure` ends in the least closed set: each round that is no fixed point
  adds one of finitely many nodes, so that the number of rounds is no bound on how far away a
  dependency may be. `StageOf` takes the Dockerfile apart into its layers, from which the
  statements about reuse, order and what a COPY names follow layer by layer.
- `BlockInv`, `TimeInv` and `SizeInv`, for `LayersAlwaysResolve`, say that what is known is what was
  computed from the files, settings or machine chosen; the rest is about the computations. `EnvsAre` of the merge of
  blocks: where each key of the four layers ends up, in the open or in the Secret; `FlatIs` and `ManyAre` of
  the older view, beside it, of the default block alone, from which flat services and those with processes
  are deployed. That a secret given up stays out rests on following each value a container sees back to the layer it
  comes from (`OptOutIs`). `InMsIs` and `SaidIs` say what a written amount comes to, `CapsAre` what
  the quotients of quota and memory bound.

**CommandProofs.** `CrowdInv` (`CommandsKeepToBudget`) types the lifecycle and keeps `Books` of each
command: which of its children live, are registered, were signalled, and what it holds or waits for
at the pool; the budget comes from the pool's `Used`, and the exit code from the step it stopped at.
`DecisionInv` (`DecisionsStayBounded`) says that the two counters of the client *are* the numbers of
the calls admitted and waiting, which makes a place that is given back twice, or never, visible;
`CallIsSound` ties each call's state to what it has asked and been told. `SessionInv`
(`SessionsRunOneByOne`) says where each request can be: in the queue, active with one message under
way in one direction, or settled; and that the failed requests, one for each end of the process, are
no more than ends and aborts. `HooksInv` (`HooksStayInOrder`) is about the history of calls: those a
node has made are a prefix of those it has to make (`InTheMiddle`); those of one node rise in the
order of declaration (`HooksAreInOrder`, by induction over the plugins); and a node of a later phase
starts when those before it are done (`EarlierIsDone`), so any two calls are `Consecutive`. A cleanup
is registered, being closed or closed, never two of them. `LateNewsNeverCounts` is an action property of the three components
that have timers, from those invariants.

**CacheProofs.** Five invariants, one per component; those of the cache are joined in `CacheInv`.

- `StepInv`, for `EntriesStayHonest` and `HitsAreAlwaysEarned`. That entries are honest is not
  inductive: a pass is recorded some time after the key was computed and the files were read. Two facts
  fill the gap. `Between`: what a step has read lies between HEAD, which stands during a run,
  and the tree, which only grows; so if the tree is clean again when the result is recorded, what was
  read is what the key was made of (`ReadIsCurrent`, `RecordedIsSound`). This is what the code's
  second check is for, and the proof uses both of its premises, the ones that `CommitDuringRun` and
  `EditIgnored` take away. `Spent`: an entry that was put is not put again, so that what a
  verification found false, once dropped, cannot come back from a write that was still under way.
- `PlanInv`, for `PlansKeepTheirOrder`. What runs is the plan without the nodes that hit
  (`adjusted = FilterPlanNodes(SkipNodes)`) and a node that ran had all its adjusted needs succeed;
  `NeedsThroughIsClosed` shows that the recursion of `resolveNeeds()` finds every need behind
  cached nodes, because a round that adds none ends it and there are no more nodes than rounds. Then
  the nodes that have succeeded are closed under needs, hence hold all ancestors (`OrderIsKept`).
  That every node has its result (`PlanIsCovered`) is an argument from acyclicity: a skipped node was
  skipped for a failed or a skipped one, and that cannot go on for ever; in fail-fast mode it may also be
  skipped because a node has failed anywhere, and this is then what is proved of it. The counters that the user
  is shown are the cardinalities of the sets they stand for (`VerifiedPairs`, `FalsePairs`).
- `FileInv`, for `DirectoryIsAStore`: between two system calls, a temporary file that is about to be
  renamed holds the whole entry of its writer, and temporary names are the writers' own. `FilePuts`
  shows that each system call changes what readers see in one abstract step or not at all.
- `ObjectInv`: identifiers of requests are not used twice, so that an answer belongs to its call.
  With `FileInv` it gives `StoresAlwaysKeepTheirWord`.
- `EnvInv`, for `EnvStaysKept`. What nopo leaves in the file is `Made`: its tag is made of its parts, with
  an image and a version, and on another version than local the target and `NODE_ENV` are production.
  Printing what was parsed gives the tag again (`TagComesBack`); the converse, that what was printed is parsed
  into a tag that stays, holds of what `ReadsBack` describes and nothing more (`PathIsRead`, `PartsAreRead`),
  and [56] is what happens to the rest. What `getCurrEnv()` makes of a sound file and a process' own settings
  is `Made` and says what was set (`EnvIsMade`), by the cases of what is set; and a process that sets
  nothing of a readable tag is refused for its own target or `NODE_ENV` alone (`NotRefused`). That nothing
  else is lost needs `OneAtATime`: what a running process holds of the images' tags is what the file should
  say, except for those it has set or built itself. As soon as processes overlap that is false, and only the
  first half is left.

**ReleaseProofs.** Each component has an invariant of its own.

- `ImageInv`, for `ImagesAreAlwaysWhole`: which stages can have staged directories (`DirsSound`);
  that the targets in the bake definition and the services still to do make up all there is to bake, each
  target with bases that are there, the output that was asked for and its own tag (`TargetsSound`);
  that before the last bake nothing is shipped and no build info written (`NotBaked`), and after
  it what was built and shipped is what the definition says, all or, in dev mode, the base (`BakedWhole`).
- `SecretInv`, for `SecretsStayKept`: what the command in progress knows of the files. Every stored value
  can be opened by an identity shown, or in the rewriting phase by the new one (`Opened`); each value
  a rotation has not seen yet is in a file or a list still to do, and each it has opened is resealed or
  still pending with the plain text that the file has (`Rotated`). A set or unset is about to write the
  document that is in the file, with one key changed (`SetChanges`, `UnsetChanges`, `OthersAreKept`). These
  rest on lemmas about the editor: which block a name means, in a flat block or in a map of them, is
  what the configuration reads (`BlocksAgree`), and so it is again after the write (`BlocksArePut`),
  although writing a runtime beside a flat block turns it into a map.
- `DeployInv`, for the deploys of `ReportsAreTrue`. That a successful deploy runs what it released is
  about its end; the invariant is about every stage of the walk (`ServiceSound`). What the walk has
  passed of a service is as released (`StepsInOrder`); templates ask for no newer files than were
  written, and a pod, also one that the cluster starts on its own, reads none older than its template
  asks for (`FilesInOrder`); a workload is only there with its secret (`SecretsInOrder`). `HooksSound`
  keeps the log of hooks: those before the deploy, then those after every rollout. The walk is proved
  to move as it should once (`DeployerSteps`), for the parametric instance `DeployOf(S, d)`, of which
  the deploys and the teardowns are instances (`DeployedIsOne`, `DownedIsOne`).
- `DownInv`, for the teardowns: between commands nothing is left (`IdleIsClean`).
- `RunInv(D, k)`, of runs that need `D` and may be killed or not: a run has its namespace from its
  creation to its end (`RunSound`), and no other's step touches it, as the names differ
  (`RunsKeepApart`).
- `FleetInv`, for `NothingIsMissed` under failures: the history is a chronicle, in which whoever changes
  kind is touched (`Chronicle`), and whatever was applied or runs is what some commit said of the
  service (`Ledger`). So the oldest code that runs of a service bounds its baseline from below
  (`OldestReaches`), which is what `filter.ts` computes, and a change since is seen.
- `HostInv`, for `BuildsStayOrdered`: the log says what the state says, and whatever is in the log has all
  that it needs before it. The rest is about the scripts, for every map of commands. What `visit` does
  is stated once of a visit and of several one after the other (`Explored`): if it succeeds, what
  was visited has every command after its dependencies (`DepsFirst`), lies within every closed set with
  the names, and has nothing new of the chain. If nothing that the names reach is unsuitable or reaches itself
  (`NoCause`), it does succeed, since each call of a chain has fewer commands to go (`Deeper`):
  so the depth of `Visit` is no bound on the DAGs. `VisitVisits` shows that by induction on the depth,
  `DagResolves` what follows for the roots, and `LeavesAre` that the script keeps the order.
- `PairInv` adds, without failures, that what was applied is all that runs, and that
  a service that was not taken at some commit had not changed by then (`TakenTogether`): for services
  whose image says nothing of their commit, the fleet's baseline is good enough.

**Only model-checked.** Liveness (`NoStarvation`, `SessionsEnd`, `SpawnLeadsToService`,
`Terminates`, `EverythingEnds`, `ClusterSettles`) is out of the prover's reach, as is ENABLED;
of `Terminates` the safety half is proved: something is awaited until the plan has finished
(`SomethingIsAwaited`). Nor can anything be proved of a module that
reaches a RECURSIVE operator, as MCConfiguration does through Targets and CommandPlan, and what the loops of
Arguments and PlanCompact compute is an induction over the words of a line and the groups of a plan:
so the properties of that suite, `PlansAreOrdered`, `TargetsAreComplete` and `CommandLineIsRead`, are
checked by TLC only. So is `ManifestsFit`, not attempted: one computation over a project, which takes
no steps.
`SecretsAreKept`
is not proved for a crowd of processes or for a rotation killed between its writes: there it is false [41, 42].

## 6. What is not modelled, and why

- An event sink that throws (`plan-runner.ts:225`): sinks are renderers, and the model takes them
  not to throw. If one did in a callback, `tryStartMore()` would not run and the plan would not
  finish: the one hazard without a property.
- The queue's `status` verb and the metadata clients send: they change nothing.
- Payloads, labels, output, rendering, help texts: no decision is made from them.
- The Docker Compose plugin, ESLint, Playwright, Sonar, diff and docs plugins: wrappers that
  build a command or a file from configuration; their nodes appear as plan nodes.
- The selection of tests in Vitest, Bun and test-relevance: heuristics over test reports and
  diffs, pure and stateless; the coordinator they feed is modelled.
- The MCP server and the evaluations: adapters and scripts outside the command's path.
- Schema checks of single configuration fields, the text of Dockerfiles, probes and annotations in
  manifests, variable expansion in `.env` values: data, abstracted to what is distinguished.
- Cryptography is taken as perfect and hashing as injective; git, docker, kubectl, the cluster
  and remote models are external, modelled from how the code uses them.

## 7. What is left

- Docker Compose generation; the selection of tests.
