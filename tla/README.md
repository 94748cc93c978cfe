# A TLA+ verification of the mediation runtime

This directory models *mediation*: its durable runs and plans, its in-process
presences, the daemon and its clients, and the way a definition becomes a
session. It holds TLA+ modules translated
from the TypeScript sources under `src/src/`, TLC configurations that check them
on small instances, and TLAPS proofs of the main results for every instance.
`PROJECT.json` maps each definition to the lines it stands for, lists every run
with its properties, and lists the hazards the properties are aimed at.

## The system

Mediation runs *engagements*: one turn (or a few) of an LLM engine on a
session, started by a client, possibly parked until somebody answers, and
finally settled or failed. A *run* is the durable form of an engagement, kept
alive by OpenWorkflow (a SQLite-backed workflow engine, external to the
repository). A *presence* is the in-memory actor that performs a turn on an
engine session.

### Inventory

| Component | State it keeps | Operations | Talks to |
| --- | --- | --- | --- |
| Runtime port (`adapters/openworkflow/runtime.ts`, `signals.ts`) | none of its own; reads and writes OpenWorkflow | `dispatch`, `sendSignal`, `cancel`, `getStatus`, `wait`, `runPlan` | OpenWorkflow |
| Runtime host (`host.ts`) | worker with a fixed number of slots, backend handle | `start`, `stop`, `tick`, parked probe | OpenWorkflow, runtime port |
| Engagement arc (`workflows/engagement-arc.ts`) | locals of the workflow body, rebuilt on every re-run: loop counter, last outcome, session | the body: leaf step, notify, park on a signal, continue leaf | OpenWorkflow steps and signals, leaf, notify |
| Engagement leaf (`workflows/engagement.ts`) | locals of one async call | load definition, resolve engine, materialize presence, join put, engage, join update, notify, dispose | factory, presence, join store, notify |
| Leaf spawning (`spawn-leaf.ts`, `surfaces/engagement-runner.ts`) | one child process per leaf | spawn, collect output, map exit to an outcome | the leaf, in another process |
| Join stores (`adapters/join/*`) | run to session row, UNIQUE per session | `put`, `get`, `getBySession`, `updateStatus` | leaf, facade |
| Presence (`app/presence.ts`) | status, session handle, listeners | `engage`, `interrupt`, `dispose` | engine session handle |
| Engine session handle (`adapters/shared/engine-session-handle.ts`, mock) | busy flag, idle flag, disposed flag, waiters | `prompt`, `continue`, `interrupt`, `waitUntilIdle`, engine events, `dispose` | vendor SDK session |
| Factory and engine registry (`app/factory.ts`, `adapters/engine-registry.ts`) | memoized engine adapters | `materialize`, `resolve` | engine adapters |
| Plan workflow (`workflows/plan.ts`, `register-plan.ts`) | recorded results of nodes | waves of nodes, each an engagement leaf | OpenWorkflow, leaf |
| Mediation facade (`app/mediation.ts`, `app/recipes/*`) | live registry: run to presence | `engageLocal`, `dispatch`, `wake`, `reenter`, `observe`, `interrupt`, `cancel` | runtime port, factory, join store |
| Notify (`adapters/notify`) | listener set | `subscribe`, `notify` | leaf, arc, IPC server |
| IPC server, client, daemon (`surfaces/ipc-*.ts`, `daemon.ts`) | socket file, connections, subscriptions, pending requests | listen, stop, request, subscribe, ensure daemon | facade |
| Capability resolution (`adapters/capability/*`, `domain/config-layer.ts`) | published artifacts | publish, first store that has it, resolve | definition loader, factory |
| Definitions and packs (`adapters/definition`, `adapters/packs`) | none / pack snapshot per row | load the chain of layers, merge, hash, compare on reenter | leaf, facade |
| Knowledge catalog (`adapters/knowledge`, `domain/knowledge`) | the graph, built once | list, validate, compose, explain, resolve, find an agent | facade, CLI |
| CLI and composition (`surfaces/cli.ts`, `adapters/compose.ts`) | none | wiring | all |

### What is hard about it

* The workflow body is **re-run from its first line** after every wake and every
  worker crash; whatever is not a recorded step happens again (notifications).
* A leaf writes the join table, talks to an engine and notifies in **separate
  awaits**; a crash, a store error or another leaf may come between any two.
* With spawned leaves a dead worker leaves **orphans** that go on writing while
  the re-claimed run has started the same step again.
* Signals are **not buffered**: a wake without an active wait is dropped.
* A cancel does not stop the leaf; its result arrives later.
* In the presence and the session handle, interrupts, disposal and late idle
  events **interleave** with a pending turn.
* The worker has a fixed number of slots, so a run that held its slot while
  parked would starve the others.
* A plan's nodes run side by side; when one rejects, the others **work on** while
  the body is run again.
* Daemons are started by whoever misses one, and all of them probe, unlink and
  bind **the same path** in separate steps; a client cannot tell a lost request from a
  lost answer.
* A definition is read file by file and its capabilities are resolved one by one,
  while files are **edited** and artifacts published; a reenter compares what it
  resolved with a row it read before or after.

### What makes each component correct

* Arc and leaf: one session per engagement across wakes; the park loop is cut
  exactly at its cap; the join row agrees with a parked or settled run; one
  leaf per session at a time; no run completes silently; the lifecycle seen from
  outside is `EngagementLifecycle`.
* Runtime port: `wait` reports only ends that last; a client that answers parks
  brings its runs to an end.
* Presence and handle: one engagement at a time, each of which returns whatever
  event is missed or early; a disposed session gets no turn; success means idle.
* Live registry: an interrupt reaches a live presence only.
* Plan: nodes begin after those they depend on; a recorded node is never run again;
  every plan ends, cyclic ones too.
* IPC: the path names the daemon that serves, some daemon comes to serve, a retried
  dispatch is one run, a subscriber misses nothing, a closed one leaves nothing behind.
* Definitions: a load answers what one state of the disk says; later layers win field
  by field; cycles and depth fail it.
* Materialize: resolution fails closed; a reenter adds no pack and changes no engine;
  an engine is loaded once, and again after a failure.
* Knowledge: neither the fleet nor the scope of an engine changes a rule, and every
  value of the catalog can be used.

## Modules

| Module | Models |
| --- | --- |
| `JoinRows` | the join table and `put` over the UNIQUE `session_ref` |
| `EngagementArc` | runs, body, leaf, join rows, notifications, control verbs, crashes |
| `EngagementLifecycle` | abstract: what a client sees of a run |
| `RuntimeClient` | `getStatus`, `wait`, and a client that answers parks, composed with `EngagementArc` |
| `Presence` | engage, interrupt and dispose of presences over their session handles |
| `LiveRecipes` | live recipes, their owners and the registry, composed with `Presence` |
| `PlanRuns` | a durable plan: waves, node steps, leaves in-process or spawned, crashes |
| `DagExecution` | abstract: what a plan promises |
| `Daemons` | daemons that start on, probe, unlink and leave one socket path |
| `IpcSessions` | clients: ensureDaemon, dispatch, subscribe; composed with `Daemons` |
| `DefinitionLoader` | a load of the chain of layers, file by file, and the merge |
| `Materialize` | local, durable and re-entering calls from the definition to the session, with capability stores, engine registry, pack gate and memory join store |
| `CapabilityGraph` | a graph of capabilities and the operations on it |
| `CapabilityCatalog` | the catalog: its 25 nodes, 36 edges and the part per engine |
| `Knowledge` | the composed service: fleet on disk, merge, a client that configures |
| `EngagementArcProofs`, `LiveRecipesProofs`, `PlanProofs`, `IpcProofs`, `MaterializeProofs`, `JoinProofs`, `KnowledgeProofs`, `DefinitionProofs` | the TLAPS theorems |
| `MCEngagementArc`, `MCRuntimeClient`, `MCLiveRecipes`, `MCPlanRuns`, `MCDefinitionLoader`, `MCMaterialize`, `MCKnowledge` | the instances TLC checks (`IpcSessions` needs none) |

### `EngagementArc`: how it corresponds to the code

*OpenWorkflow* is external and modelled from how the code uses it: `run` is its
status, `memo` the recorded results of the leaf steps of a run, `wakes` the
deliveries of its signal waits, `waiting` whether a wait is active. A body that
waits leaves memory (`Park`) and, once woken, is claimed and re-run from its
first line; `step.run` with a recorded result returns it without running the
leaf. A signal without an active wait changes nothing. The result of a canceled
run is refused (`Accepted`). A run whose execution died is claimable again.

*The body* (`engagement-arc.ts`) is `exec[r]`, with a program counter for each
place it awaits: `step` (about to reach a leaf step), `leaf` (awaiting one),
`wait` (about to reach `waitForSignal`), `return`. Code between two awaits is one
action: `Resolve` is everything from a resolved step to the next await, with its
notification. `loops` is `parkLoop`. The engine override, prose, packs and results are
abstracted away; of an outcome the kind, the session and the error code remain.
The branch for a step face without `waitForSignal` is left out, as the real
OpenWorkflow face has it.

*The leaf* (`engagement.ts`) is `leaf[l]`, one action per await: `Open` or `OpenFails`
(definition, engine, materialize), `PutEngaging`, `Engage`, then `PutParked`, or
`ReadRow` and `WriteRow` (the two halves of `updateStatus`, whose SQLite
implementation reads the row and puts it back), and `JoinThrows` for the catch
path with its own update attempt. `Engage` is one action: its outcome is chosen
when the turn ends, parked if the input has `parkIntent`, settled otherwise, or
failed. Notification is in the action that ends the leaf, since it is the code's
last synchronous effect before the promise resolves.

*Spawn* chooses where leaves run. If FALSE, leaves live in the worker and die with
it, and the leaf notifies. If TRUE a leaf is a child process: it survives the
worker as an orphan (`Reap` ends it), can die alone (`ChildCrash`), cannot notify, and
the body notifies for it.

*SessionsSurvive* says whether a session reference can be reopened after its
handle is disposed. It is TRUE for the mock engine and for file-backed Pi
sessions, FALSE for what the factory passes today (`inMemory: true`).
*ShareSessions* allows a dispatch that names the session of another run.

### `RuntimeClient`

`RuntimeStatus` is `mapOwStatus` with the parked probe: OpenWorkflow keeps a parked run in
status running, and the probe adds code `parked`. The probe is best effort in the
code (an error of it hides the code, and it reads the first 200 attempts); here
it sees every active wait. `CallWait`, `PollOnce` and `PollDeadline` are `wait`. `AnswerPark` is a client that
wakes a run on its status or on a parked notification; in the latter case the
signal may come before the wait is active and is lost.

### `EngagementLifecycle`

Absent, working, parked, settled, failed, canceled; a run is bound to its first
session for good, is unparked at most `MaxParkLoops` times, and never leaves an end
state. `EngagementArc!Lifecycle` maps the durable state (`run`, `waiting`, `output`, `memo`, `wakes`)
onto it, so re-runs, retries, orphans and lost executions are stutters.

### `Presence` and `LiveRecipes`

*The vendor session* is external: `turn[p]` is the call whose turn it runs. It
rejects a prompt while it runs a turn, and resolves `waitForIdle` and `abort` when none
runs; both adapters' sessions have `waitForIdle`, so the handle's branch for a session
without is left out. `EarlyPrompt` says whether a prompt may resolve while its turn
runs, as it does in the fakes the tests use. `EmitsIdle` is whether the end of a turn
comes as an idle event (Pi's `agent_settled`) or not (Prime).

*The handle* (`engine-session-handle.ts`) is `handle[p]`: `busy`, whether `lastIdle` is set,
`disposed`. Its idle waiters are the calls at `waiting`, since only `engage` waits; the
`drive` of a call is the `driveWaitForIdle` that its wait began, and may outlive the call.
`EnsureIdle` is "if not already idle, emit idle", which the drive and an abort do after
their awaits; `AgentStart` and `TurnEnds` are `onEngineEvent`.

*The presence* (`presence.ts`) is `status[p]` and, for each `engage`, a `call` with a program
counter for the await it is in: `prompt`, `waiting`, then `woken` or `thrown` when that
promise is settled but its continuation has not run. Other callers may run in
between: how many microtasks lie between two continuations depends on the vendor, so
their order is left open. Steering and follow-ups only reach the vendor and change
nothing here. Of the interrupts only `abort` is modelled therefore.

*A live recipe* (`recipes/live.ts`) and its presence share an identity. `Start` is the
recipe up to the first await of its first turn, with the registration; `NextTurn` and
`Finish` go on when a turn is over; `Close` is the result's `close`, at any time and
repeatedly; `OwnerEngages` is what the owner does with the presence it was given.
`registry` is the facade's `livePresences`.

### `PlanRuns` and `DagExecution`

`run` is the OpenWorkflow status of the plan's run and `steps[n]` the recorded result of
step `plan-node-<n>`. `body` is the execution of the workflow body in memory: the nodes of
the waves it has behind it; the next wave is `Wave(past)`, the loop of `computePlanWaves`
in the order the body meets it. An execution gets a `leaf` per open step; the
leaf's own awaits are `EngagementArc`'s business, so it opens, writes its row, engages and writes
again. `Abandoned` is what an execution leaves behind when it is over: children, or, if
`Promise.all` rejected, whatever still works, each at its own stage. `begins` is a history variable.

A node may name a session to resume (`planNodeToEngagementInput`), and nodes, or runs outside the plan, may
name the same. `row` is the join table (`JoinRows`) under the run ids of the nodes; `Put` deletes the row of
whoever had the session, `LeafMoves` throws at an update whose row is gone, and the leaf of such a node fails.
`ForeignPut` is a run outside the plan that puts its row on a session of the plan, and
`foreign` says which sessions such a run had last. Hence a completed plan need not have a row for each node; what is
left to say is `CompletedIsSettled`.

`DagExecution` knows nodes, edges and what has begun and ended: a node begins when all it
depends on have ended, and nodes that sit behind a cycle or a dangling edge begin when all
others have ended. The refinement takes recorded results as the ends. A failed node does
not stop its dependents; the code runs them all and summarizes.

### `Daemons` and `IpcSessions`

`path` is whose socket the path names. `listen`, `probe`, `unlink` and `relisten` are the awaits of
`listenWithCleanup`; `bound` is the gap between bind and listen in which connects are refused.
`Unlink` removes whatever the path names by then. `Shutdown` is the SIGTERM handler up to its first
wait, `Exit` is `process.exit`. A daemon that is going to stop still serves: `stop` returns at
its first line (`StopMeansStop` below).

A client pings, spawns a daemon, and polls until its deadline (`ensureDaemon`). `request` is its
dispatch; the server handles it even if the client has given up. A subscription has a
client side (`sub.pc`), a server side (`sub.server`, the daemon whose notifier has the listener) and
frames under way. Any daemon may work on a run, since all poll one database; a
subscription hears the one it is connected to. The other verbs of the protocol are
forwarded to the runtime port and keep nothing, so they have no action.

### `DefinitionLoader`

A file holds the fields whose merge differs: a scalar (`model`), a capability scalar
(`engine`), a list (`ext`), the tool mode in both spellings, `name`, and the references `extends` and
`root`. Each `ReadLayer` is one `readFile` of `resolveLayerChain`, with the decision which file is next; an
edit may come between two. `Answers` says declaratively what a load of given files should
return, and shares no operator with the loop except the resolution of one reference.

### `Materialize`

A call is `engageLocal`, a leaf of a durable run, `reenter` or `reenterFromJoin`; its program counter
names its awaits. A pack is an id with its source, for the hash of a snapshot tells
apart these only. Stores are asked registry first, then file system. `loads` are the
promises of the engine registry, `cache` is its map; a promise that failed is
forgotten before those who wait for it go on, since the registry attached its handler
first. A request carries the pack snapshot its caller expects, if it gives a hash (`Baseline`): that comes
before the row of the session, and needs no row. `created` says of a session whether it has a file: one without is not resumed but
replaced by a new one. `byRun` and `bySession` are the two maps of the memory join store. `recorded`
is a history variable.

### `CapabilityGraph`, `CapabilityCatalog` and `Knowledge`

The operations of `domain/knowledge/operations.ts` are operators on a set of nodes and a set of edges;
messages and wordings are left out, and an intent is the score it gives to each
node. The catalog is complete. `Compose` builds the fleet from the resolved root and merges it as
`compose.ts` does; a root that exists and cannot be listed, for it is a file or unreadable, or a name that makes
no identity keeps the mediation from being created. `Inject` is the port over the catalog of one engine. A client declares and
withdraws values, which are of every kind a domain tells apart, and asks.

## Runs

Eleven pass:

* `ArcInProcess` - two runs, two slots, in-process leaves, one worker crash, one
  store fault, cap 1, three sessions. `SessionContinuity`: a wake
  continues on the session that parked. `ParkedJoinIsResumable`: while a wait is
  active the row names that session as parked. `SettledIsRecorded`: a run whose
  result is settled has such a row, also when a store write failed on the way.
  `OneLeafPerSession`: a transcript has one writer. `ParkLoopCap`. `OneNotePerStep`: a step is
  reported once while no worker crashed.
* `ArcOrphans` - child-process leaves, a worker crash and a fault, two leaf
  identities so that an orphan works beside the leaf of the re-claimed run, cap
  2. `TypeOK`, `CompletionWasNotified`, and the refinement `ImplementsLifecycle`.
* `ArcLiveness` - two runs for one slot, a dispatch may name the session of
  the other run, one fault. `RunsComeToRest`, `WakesAreServed`.
* `ClientAnswers` - a client beside spawned leaves, a worker crash and a fault.
  `WaitTellsTheTruth`: what `wait` reported as an end stays so. `AnsweredRunsEnd`: a client
  that answers the parks its status shows (and perhaps also answers too early,
  on notifications) brings its runs to an end.
* `LivePresences` - two recipes, possibly on one run id, three engage calls, one
  abort, early prompts, idle events that come or not. `LiveTypeOK`. `OneEngagement`: the
  status is engaging exactly while one call is in flight, unless disposed. `RegisteredIsLive`: the registry
  names no presence that is over. `NoTurnAfterDispose`: a presence whose status was set back
  after its dispose still starts no turn.
* `LiveEnds` - one recipe and its owner, the same otherwise. `EngagementsEnd`: every call
  returns.
* `PlanRuns` - seven shapes of three nodes: independent, chain, fork, join, a cycle before and behind a node, a
  self-loop; and the same edges with an id that is no node. Two nodes, side by side or in sequence, may resume one session, on which
  a run outside the plan works too. In-process and spawned, one crash or spawn error, a cancel. `ImplementsDag`. `CompletedIsSettled`: a completed
  plan left every node settled in its result; in-process no row of it is left engaging or failed, and each session it worked on
  is held by a settled row of the plan unless a run outside took it. `BegunOncePerExecution`,
  `RecordedIsFinal`: re-runs repeat no recorded node, and others once per mishap. `PlanEnds`.
* `Daemons` - two daemons, one that is killed or stopped, one late probe, a client with two dispatches and a
  subscription. `ServingHasThePath`: daemons that start one after the other do not cut each other off.
  `StartsAreReached`: if they race, some daemon still comes to serve at the path. `OneRunPerRequest`,
  `SubscriberMissesNothing`.
* `Definitions` - an agent, three families and a root that may extend one another in every way the
  contents allow, one edit at any point. `OneEditIsSeenWhole`: the answer, error or definition, is that of
  the disk before or after the edit. `TypeOK` bounds the layers and says that each visited file
  is one of them.
* `Materialize` - two calls at a time, three in all, an edit, a publish and three loads of engines.
  `SnapshotReentersAddNothing`: a reenter under the default policy engages only with the packs its caller expects or, if it expects none,
  with packs that a leaf recorded for the session, and an engine recorded with them unless it names one. `OpenedAsDefined`: a session
  opens with a pack for every extension of the definition and no other. `LoadsAreSharedAndRetried`.
* `Knowledge` - the whole catalog under each engine, three disks, one with a root that cannot be listed, configurations of up to three entries.
  `FleetIsServed`: the agents on disk, and no others, can be reached, what one directory holds does not hide another, and
  only a root that cannot be listed or an ill-formed name keeps the mediation from being created. `RulesAreKept`: neither
  the fleet nor the scope of an engine changes a rule. `EveryValueIsUsable`: the catalog contradicts itself nowhere.
  `WithdrawalsOnlyUnmeet`, `MatchesAreTheBest`.

One is violated, and is the finding of `PROJECT.json`:

* `DaemonStop` - "stop() must always mean stop" (`ipc-server.ts:323`), but `start` never assigns the variable
  `stop` looks at, so a daemon told to stop goes on accepting requests until its process
  exits, and leaves its socket file behind. The next daemon finds the stale file, probes it and
  unlinks it, which is why the other properties hold nevertheless.

### Known disagreements

Where the code differs from a sentence beside it, or from what one might expect, the
models follow the code. These are described here and have no run:

* A parked run that ends by a wake timeout or at the cap, or whose continue leaf fails before its first
  join write, stays recorded as parked (`engagement-arc.ts:247`).
* With spawned leaves the re-run body repeats the notifications of replayed steps, so the
  parked record is delivered again after each wake.
* The parked notification precedes the wait: a client that wakes on it alone may lose its
  wake. `wait` does not return for a parked run.
* An idle event may wake a waiter while the drive of the same wait is about to go on; that drive can
  then report the next turn idle before it is.
* The end of a recipe removes the registry entry of another one that registered under the same run id later.
* A durable wake resolves the engine anew when the input does not name one (`engagement-arc.ts:283`), and
  overwrites the pack snapshot of its row without comparing it. Only reenter pins and compares.
* The hash of a pack snapshot leaves out path, version and order. A reenter of a
  session without a file opens a new one.
* An `agent_mode` or `active_tools` at the top level of any layer replaces the nested spelling of the agent itself, and an
  agent without name or model loads if a family has them. Two edits of different files during a
  load can mix, which is why `OneEditIsSeenWhole` speaks of one.
* `explain` words an unmet dependency for the capability depended on (`operations.ts:474`); the value of the
  member `m.tools.custom` is none the category lists, so `EveryValueIsUsable` leaves it out;
  the mock's catalog lacks the pi-only nodes although its comment (`catalog.ts:830`) says "nominally the full surface";
  the default threshold of 0 lets `resolve` return nodes that do not match at all.
* One agent directory whose name makes no identity, or a root that exists but cannot be listed (`readdirSync`, `fleet-catalog.ts:599`),
  keeps every mediation from being created, while a root that is missing only means an empty fleet. A change of the
  fleet is not served until the next mediation.
* The comment on `FLEET_MANIFEST` (`fleet-catalog.ts:348`) says that the nodes are always the union of the manifest and the
  directories on disk. The code serves the directories on disk only: a curated agent without one has no node.
* Plan nodes that resume one session take the join row of one another. In sequence, the first node's row is gone when the second
  puts its own, though the first settled; side by side, in one process, the second put makes the update of the first throw, so that
  the node is reported failed after its turn went through. The same happens to a node when another run works on its session.
* A reenter with policy `snapshot` and an `expectedPackSnapshotHash` engages with the packs the caller expects, whether or not
  they are what the session was recorded with, and without a row (`mediation.ts:309`); "never a silent latest-yaml reenter" is then up to the caller.
* The tool policy `builtin: []` gives Prime no tools (`noTools: "all"`), but Pi the vendor's defaults, for neither `tools` nor `noTools` is
  passed then (`pi/create-session.ts:184`).
* A subscriber that was ready is not told when its daemon dies. A daemon whose socket another one
  unlinks, in a race or because it answered its probe too late, keeps working on the database unseen.

### Bounds

`MaxCrashes` and `MaxFaults` bound the crashes and the faults of a behaviour; `MaxParkLoops` is
a parameter of the code. One crash suffices for a lost execution, a re-claim, a
replayed body and an orphan to meet; one fault suffices for every error path,
and a crash and a fault may combine. Cap 1 already has a first leaf, a wake,
a continue leaf and a park beyond the cap; cap 2 adds a second round for the
refinement. Two runs suffice for row take-over through UNIQUE sessions, and for
two runs competing for a slot. Three sessions let each leaf of the largest
behaviours have a fresh one. Symmetry of runs, leaves and sessions is used in
runs without liveness or refinement of individual identities that would break it;
the liveness runs use none. Three engage calls are a turn of the recipe, an engagement of the
owner that a close interrupts, and one after it; two recipes are needed for one run id
to change hands, and one abort races every other end of a turn. Presences share only
the registry, so one suffices for the liveness of calls. The runs disable the deadlock check: an engagement
that ended, with all bounds used up, is a state the system may rest in.

Three nodes (`PlanRuns`) make a wave of two, two waves of one behind one, a cycle with a node before or behind it;
one mishap (`MaxMishaps`) leaves orphans beside a re-run; two nodes on one session (`Sessions`, `Contested`) suffice to take
a row from each other and from a run outside. `PlanProofs` lifts both bounds. Two daemons
race for the path; `MaxSlow`, `MaxStops`, `MaxTries` and `MaxRecords` are one late probe, one stop or kill, two dispatches and two
records, enough for a retry on another daemon and an order of records. `MaxLayerDepth` is 2 where
the code has 16, so that three families exceed it; `MaxEdits` is 1 since the property speaks of one. In `Materialize`
`MaxCalls` is a leaf that records, another that takes its session over, and a reenter; two of them run at a time; `MaxEdits`, `MaxPublishes`
and `MaxLoads` allow one change each and a failed load with its retry. `MaxEntries` is 3, the most capabilities one rule of the catalog relates
plus one beside them; `MaxChanges` is one file; `MaxScore` steps tell apart below, at and above the threshold and ties.

### Fairness

Weak fairness on the body and on the leaves: Node runs every ready
continuation and an engine turn ends or fails. Strong fairness on `Claim`, per run:
the worker polls for due runs in order, so a run that is due again and again
whenever a slot is free is claimed. Nothing is assumed of clients in `EngagementArc`
(a wake, a cancel, a timeout may never come). `RuntimeClient` adds the client's own
promise to answer and to poll. In `LiveRecipes` weak fairness is on the continuations of
calls and aborts and on the end of each turn; a rejection by the vendor, an idle
event, a next turn or a close is never relied upon. In `PlanRuns` weak fairness is on the claim and on the
body with its leaves: the worker polls, engine turns end. In `IpcSessions` it is on each daemon's start once it was spawned; nobody has to
stop a daemon, dispatch or subscribe.

## Proofs

`EngagementArcProofs` proves, for every value of the constants that satisfies
the assumptions `ArcAssumption` and `NoSessionAssumption`:

* `TypeCorrectness`: `Spec => []TypeOK`.
* `SessionsContinue`: if `SessionsSurvive`, then `Spec => []SessionContinuity`.
* `ParkLoopIsCapped`: `Spec => []ParkLoopCap`.
* `LifecycleImplemented`: `Spec => ImplementsLifecycle`, the refinement.
* `CompletionsAreNotified`: `Spec => []CompletionWasNotified`.

Type correctness is not inductive alone: `RecordStep` records what a leaf returned,
which is an outcome only because of the leaf's program counter, and `Resolve` and
`Resume` index `memo` and `wakes`. The inductive invariant `ArcInv` therefore has three
parts. `LeafInv` says what the program counter of a leaf implies for its fields,
in particular that a leaf asked to resume a session works on that one. `History`
relates `memo` and `wakes`: every recorded step but the last parked, was woken and was
continued on its session, and the lengths never drift more than one apart. `AtStep`,
`AtLeaf`, `AtWait`, `AtReturn` and `WaitInv` say where in that history an execution of the body,
which is lost and re-created by crashes, can stand. `ArcInvStep` is proved with one
lemma per action. The first three theorems follow from it. The refinement maps
each step (`LifecycleStep`) to a lifecycle step or a stutter under `ArcInv`. For the
notifications a second invariant, `NoteInv`, is inductive relative to `ArcInv`: what
a finished leaf, a recorded step (in-process), a returning body and a completed
run stand for was told.

`JoinProofs` proves, of the same specification in-process (`~Spawn`) and with sessions that only wakes
hand on (`~ShareSessions`; a client that resumes the session of another run takes its row, as the code means it to):

* `ParkedJoinsAreResumable`: `Spec => []ParkedJoinIsResumable`.
* `SettledRunsAreRecorded`: `Spec => []SettledIsRecorded`.
* `OneWriterPerSession`: `Spec => []OneLeafPerSession`.
* `StepsAreToldOnce`: `Spec => []OneNotePerStep`.

`RowsInv`, inductive relative to `ArcInv`, says that whatever a run holds of a session, in a row, a leaf
or a record of its history, no other run holds (`Owned`); hence the `DELETE` of `put` never removes the row of another run
(`PutOwnRow`). Given that, the row of a run follows its leaf (`LeafJoin`) and outlives it (`RunJoin`):
after the leaf it says what the last recorded step said. `NotesInv` says, while no worker has crashed, that a note
of a recorded step tells its recorded kind unless the body has given up, and a note of the
step in progress the outcome of its leaf, so that whatever a re-run tells again is not a repetition.

Its last part proves `WaitsTellTheTruth`: `ClientSpec => []WaitTellsTheTruth` for the composition of the arc with
any number of waiting clients. `ClientIsArc` shows that each of its steps is a step of the arc or a stutter;
an answer once given stays true because the end of a run and its output are final.

`LiveRecipesProofs` proves, for any number of recipes, calls, aborts and run ids and
for every vendor (`PresenceAssumption`, `RunIdAssumption`):

* `LiveTypeCorrectness`: `LiveSpec => []LiveTypeOK`.
* `OneEngagementAtATime`: `LiveSpec => []OneEngagement`.
* `RegistryNamesLive`: `LiveSpec => []RegisteredIsLive`.
* `DisposedGetsNoTurn`: `LiveSpec => NoTurnAfterDispose`.

`LiveInv` adds three facts to `LiveTypeOK` and `OneEngagement`: a call or abort that is not
new is addressed to a presence, and a new call has no drive (`Addressed`); an entry of
the registry names a recipe that holds this run id and is not over (`RegistryHolds`), so
that removing one's own run id removes the only entry that can name one; only a
recipe that is over has a disposed handle (`DisposedIsClosed`). Most steps of the runtime
only move calls within their flight (`Moves`), which one lemma, `MovePreserves`, covers.

`PlanProofs` proves, for any set of ids, any plans over them (cyclic or dangling), both
modes and any number of mishaps (`PlanAssumption`):

* `PlanTypeCorrectness`, `CompletedPlansAreSettled`, `BeginsAreBounded`: `Spec => []TypeOK`, `[]CompletedIsSettled`,
  `[]BegunOncePerExecution`. In-process the second speaks of sessions that nodes share and other runs take.
* `RecordedStaysRecorded`: `Spec => RecordedIsFinal`.
* `PlanImplementsDag`: `Spec => ImplementsDag`, the refinement.

`PlanInv` adds to the types that the waves behind the body are recorded and leaves run for open
steps of an active body only (`BodyInv`), that what has a leaf or a result was begun, and how
often it can have been (`NodeInv`), what an end says of results (`OutputInv`), and of in-process leaves that a session on which a
node settled is kept by a row of the plan that is settled or whose node still works, unless a run outside took it (`RowInv`). The
heart of the refinement is `StragglersAreBlocked`: when no node is ready, what remains is a set in which each
node waits for a member or for an id that is no node, hence part of the abstract specification's
blocked nodes.

`IpcProofs` proves, for any daemons, clients, stops, late answers and retries (`DaemonAssumption`, `IpcAssumption`):

* `StartedApartKeepsThePath`: `Spec => []ServingHasThePath`.
* `OneRunPerKey`: `Spec => []OneRunPerRequest`.
* `IpcTypeCorrectness`: `Spec => []TypeOK`.
* `SubscribersMissNothing`: `Spec => []SubscriberMissesNothing`.

`PathInv` says that while nobody races, one daemon at most is starting, that who is bound or serving has
the path, and that who is about to unlink has nothing serving beside it. `OneRunPerKey` needs that a request that was handled carries
the only run there is. `TypeInv` counts: a client has no more runs than dispatches that reached a daemon. `Flow` follows a
subscription: nothing is emitted of a run that does not exist yet; the connected frame comes first and once;
daemons never go back to `off` nor to `serving` (`Onwards`), so that a daemon that serves now
has served, and kept the connection, since it accepted the subscription; and what was heard and what is under way
are then the records emitted, in order (`InOrder`).

`MaterializeProofs` proves, for any number of calls, runs, sessions, capabilities and engines, and any edits,
publishes and failed loads (`MaterializeAssumption`):

* `MaterializeTypeCorrectness`: `Spec => []TypeOK`.
* `ReentersAddNothing`: `Spec => []SnapshotReentersAddNothing`.
* `SessionsOpenAsDefined`: `Spec => []OpenedAsDefined`.
* `LoadsAreShared`: `Spec => []LoadsAreSharedAndRetried`.

None of them is inductive alone. `Inv` adds that every row of the join store was recorded and that its index
never names a row of another session (`JoinInv`), although `put` forgets the session a run had before whoever owns it now; that the
registry remembers a promise exactly until its failure is handled (`LoadInv`); and, per call, that the row it found is one of the session
it names (`RowInv`), that its packs are those of the extensions it has resolved so far unless one was missing
(`PackInv`), that the promise it waits for or has opened with has not gone back (`PromiseInv`), and that it engages past the gate only (`GateInv`).
Calls meet in the join store and the registry only: `OthersKeep` shows that a step which unrecords nothing
and leaves ended loads alone keeps what is said of every other call.

`KnowledgeProofs` proves, for any agents, disks, configurations, scores and bounds (`KnowledgeAssumption`):

* `FleetIsServedHolds`, `RulesAreKeptHolds`, `EveryValueIsUsableHolds`, `MatchesAreTheBestHolds`:
  `Spec => []FleetIsServed`, `[]RulesAreKept`, `[]EveryValueIsUsable`, `[]MatchesAreTheBest`.
* `WithdrawalsHold`: `Spec => WithdrawalsOnlyUnmeet`.

The catalog is a constant of the code, so what is proved of it is computed once: an identity names one node (`IdsNameNodes`),
an edge is told by its type and ends and joins nodes that exist (`EdgesAreShaped`, `EdgesArePlaced`), every engine gets a graph that
`createGraph` accepts (`CatalogsAreSound`). The agents are any: `KnowledgeInv`, the inductive
invariant, says that the nodes of a service that is up are the catalog of its engine and one free node for each agent it has seen,
that its edges are those of the catalog, and that an answer was ranked over that graph; a service threw if and only if its root could
not be listed or it has seen an agent whose name makes no identity. The assumptions are those the code relies on: the identity of an
agent is none of the catalog's, and identities have an alphabetical order (`Alphabetical`), which breaks ties.

`DefinitionProofs` proves, for any files, references, contents, requests, depth and edits (`FilesAssumption`, `ContentsAssumption`):

* `TypeIsOK`: `Spec => []TypeOK`.
* `OneEditIsSeenWholeHolds`: `Spec => []OneEditIsSeenWhole`.

The loops of the merge and of `FileAt` are recursive functions. What they compute is proved with `SetInduction`, which is stated of
a set of numbers instead of a predicate and so needs no operator parameter; it follows from the well-foundedness of
the strict subsets of finite sets, which the library states of sets too. `LoopsCompute` gives such a
loop its values, `LaterWinsIsLast` and `UnionIsUnion` say that a merge is what the properties ask of it, for chains of any
length. When a disk has a chain is told from a beginning of it (`ChainEnds`, `ChainTooDeep`, `ChainRevisits`, `ChainUnreadable`); that a
chain which comes back to a file never ends is a counting argument. The invariant `DefinitionInv` is about `Follows(l, d)`: the
load `l` is where a load of the disk `d` alone would be. Reading keeps it (`ReadFollows`). An edit of a file that was not read yet keeps it for the new disk
(`EditFollows`); after an edit of a file that was, the load goes on following the old disk, since a load never
visits a file twice (`ReadPasses`). That is where "at most one edit" is needed: a second one could be of the other kind, and the load
would follow neither disk.

Only model-checked: the liveness properties (fairness and ENABLED are out of the
prover's reach): `RunsComeToRest`, `WakesAreServed`, `AnsweredRunsEnd`, `EngagementsEnd`, `PlanEnds`, `StartsAreReached`.
Every invariant, action property and refinement of the passing runs is a theorem.

## Plan

Done:

1. `JoinRows`, `EngagementArc`, `EngagementLifecycle`, `RuntimeClient`, `EngagementArcProofs`, `JoinProofs`.
2. `Presence` (with its session handle), `LiveRecipes`, `LiveRecipesProofs`.
3. `PlanRuns`, `DagExecution`, `PlanProofs`.
4. `Daemons`, `IpcSessions`, `IpcProofs`.
5. `DefinitionLoader`, `DefinitionProofs`.
6. `Materialize`, `MaterializeProofs`: the rest of the facade, the capability stores, the engine registry, the pack gate and
   the memory join store.
7. `CapabilityGraph`, `CapabilityCatalog`, `Knowledge`, `KnowledgeProofs`.

Left: the memory join store's `updateStatus`, and `ParkedJoinIsResumable` asked over both stores.

## Not modelled

The vendor SDKs (Pi, Prime) and what is handed to them: models, prompts, extensions, settings, and the mapping of the tool policy, which
has no state and differs per vendor (`builtin`, `custom`, `noTools`, `agentMode`, `activeTools`).
YAML parsing, argument parsing (`cli.ts`), prose rendering and text matching, and the re-exports of `index.ts` have no
state of their own or are pure I/O. `compose.ts` wires objects together; its choices (engine fallback, spawned
leaves, persistence, which knowledge port) appear as constants or as `Compose` and `Inject`. Of the
host, `start`, `stop` and `tick` are left out: they pass on to the library's worker. The mock engine's handle is not modelled, nor is
cancelling `waitUntilIdle` by a signal, which no caller does, nor version selectors of capabilities, which no caller passes, nor
TCP endpoints, which have no file to fight for. `runPlanWorkflow`, the plan body without durable steps, is not an
action of its own. In the arc, the number of retries
OpenWorkflow grants a rejected step is not counted: `SpawnError` leaves the step to be
tried again or fails the run. `PROJECT.json` lists for each component what is left out of it.
