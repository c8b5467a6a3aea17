# TLA+ verification of codex-synaptic

codex-synaptic is a TypeScript orchestrator: a scheduler hands tasks to agents, agents vote on
proposals, workflows pass a validation gate, plans and telemetry go to SQLite, a detached
daemon keeps it running, and a command-line interface boots it, deploys crews into it, launches
services around it and prepares instructions for the Codex CLI.  This directory holds TLA+
modules of its stateful parts, TLC configurations that check them on small instances, and
proofs checked by TLAPS.  Paths below are relative to the repository's root.

- [1. Inventory](#1-inventory): components, state, operations, hard behaviours, properties
- [2. Modules](#2-modules): what each module models and how it corresponds to the code
- [3. Runs](#3-runs): what each TLC run checks, its bounds, and what it shows
- [4. Fairness](#4-fairness)
- [5. Proofs](#5-proofs)
- [6. What the models say about the code](#6-what-the-models-say-about-the-code)
- [7. Abstractions and what is not modelled](#7-abstractions-and-what-is-not-modelled)
- [8. Plan](#8-plan)

To check a module: `tlc -config MCTaskScheduler_core.cfg MCTaskScheduler`; to check proofs:
`tlapm TaskScheduler_proofs.tla`.

## 1. Inventory

Everything inside one orchestrator runs on one Node.js event loop: handlers are atomic up to an
`await`, EventEmitter listeners run inside the `emit` that calls them.  Interleaving comes from
awaits (microtasks, timers, SQLite callbacks, sockets), from operators and API clients, and,
between processes, from the files, tables and signals they share.

| component | state it keeps | operations | talks to | what is hard | what makes it correct |
|---|---|---|---|---|---|
| Task scheduler (`src/core/scheduler.ts`) | three Maps of tasks, a priority queue, deferral counts | submitTask, processTasks (1 s), checkExpiredTasks, assign, complete, fail, handleAgentFailure, quota deferral, shutdown | registry (events), resource manager (slots), system (events) | continuations of awaits run after the events they caused; a failing task takes others with it; retries of the queue head | a task is executed once, is in one Map, its tenant's slot is released once |
| Task promises (`src/core/system.ts`) | `taskPromises`: a resolver and a timer per task | executeTask, handleTaskAssignment, waitForTaskResult, resolve / reject, clear | scheduler, agents | timeout against late result, shutdown against late result | every waiter is answered, once, with its own task's outcome |
| Agent registry (`src/agents/registry.ts`) | agents by id and type, status, heartbeats | register, unregister, updateAgentStatus, assignTask, heartbeat check | scheduler, system, mesh, consensus | an agent goes offline or is retired while it executes | no task belongs to a failed agent |
| Consensus manager (`src/consensus/manager.ts`) | active proposals with their terms, votes, configuration | proposeConsensus, submitVote, timeout, updateConfig | registry (population), system (consensusReached) | population and configuration change while votes arrive; timer against last vote; rounding of quorums | one final decision, taken as the votes and the terms say |
| Reasoning planner and validation gate (`src/reasoning/planner.ts`, `src/core/system.ts`) | one row per plan in SQLite; where each executeTask is | createPlan, checkpoint, complete, handleConsensusResult, waitForConsensusDecision | consensus manager, memory system, scheduler | three writers of a row, each reading, deleting and inserting it; timeout (15 s) against decision (30 s) | no gated stage without approval; an honest, surviving record |
| Detached daemon (`src/cli/daemon-manager.ts`, `src/cli/daemon-runner.ts`) | `daemon.json`, `daemon.sock`, the processes | background start, stop, restart, status; start-up, socket API, shutdown, exit | each other, by files, IPC, socket and signals | check, fork and record seconds apart; timeouts; hanging and crashing processes; stale files | one orchestrator, known and reachable; a stop leaves no process |
| Neural mesh (`src/mesh/neural-mesh.ts`) | nodes, connections, topology, run timer | add / remove node, setTopology, configure, self-heal | registry events | agents leave, and are replaced from within the event that says so; healing and topologies pull apart | connections join present nodes, within the limit, in one piece |
| Swarm coordinator (`src/swarm/coordinator.ts`) | active run, particles, pheromones | startSwarm, stopSwarm, optimise, timeout | registry, system | a start while active, timeouts, agents that join and leave during a run | a run has a particle per agent, an edge per pair, and an end |
| System life cycle (`src/core/system.ts`), health monitor (`src/core/health.ts`) | initialized / shutting down, components and timers | initialize, shutdown, uncaught errors | all | a boot that fails half way, a second shutdown, an error handler per system object | what counts as ready runs; what was shut down is quiet |
| CLI session (`src/cli/session.ts`) | the one system of a process, a lock, a promise | ensureSystem, shutdown, signals | system | callers race a boot, its failure and a shutdown | one live system at most; every caller is answered |
| Scaling and healing (`src/core/resources.ts`, `src/core/system.ts`) | usage, memory state, cooldowns, healing timers | sample, deployAgent, scale up / down, redeploy | registry, resource manager | thresholds with hysteresis, limits kept in two places | usage is exact; the crew stays within its limits |
| Tenancy (`src/tenancy`), API server (`src/core/api-server.ts`), authentication (`src/core/auth.ts`) | rows of tenants and policies; limits of a process; tokens | create, upsert, read, boot; routes and commands | memory system, resource manager | read, delete and insert without transaction; crashes; two processes | what is enforced is what is stored; what was acknowledged stays |
| Environment services and launch (`src/env/service-manager.ts`, `src/cli/launch.ts`, `src/cli/doctor.ts`) | containers, registrations, the daemon | launch, env up / down / register, doctor | docker, the Codex CLI | killed clients whose work goes on; answers minutes old | ready means ready |
| Router and tool optimizer (`src/router/router.ts`, `src/tools/optimizer/index.ts`) | policies.json, history, window of calls | add, delete, enable, evaluate, record, score | files, memory system | lost updates, torn files, windows and clamps | a rule stays until somebody changes it; the verdict follows the rules |
| Instructions and context (`src/instructions/parser.ts`, `src/cli/codex-context.ts`) | a table of parses, a context in memory | parse, sync, clear, build | files, SQLite | edits during a parse, validity of rows, watches taken late | what is used was in a guide, recently |
| Strategies and GOAP (`src/reasoning/strategies`, `src/reasoning/goap`) | a manifest, six facts, the search | run a strategy, prime, execute actions | system status | bounds, thresholds, state signatures | answers are right by their own terms |
| Hive-mind commands (`src/cli/index.ts`, `src/cli/hive-mind-orchestrator.ts`) | the crew, a workflow, its timer, a vote | spawn, follow-up, quick spawn | system, consensus manager | a timer races the workflow, votes race the requirement | the review says what happened; commands end |
| OpenAI client, model router, usage monitor (`src/openai`) | key state, inventory, events | check, refresh, select, respond, record | the API | lists that overtake one another, refused keys, out-of-order usage | a model is asked for that is on offer |
| MCP bridge (`src/bridging/mcp-bridge.ts`) | endpoints, pending messages | connect, sendMessage, retry | other servers | time-outs after the fact | the report says what the other end did |
| Codex passthrough (`src/cli/codex-passthrough.ts`) | five files | build, write, resolve, instruct | the file system | two terminals, one set of files | instructions name what is there |
| GUI client (`src/gui/api-client.ts`) | one abort controller for all requests | request, cancel, reset | API server | stale timers | the newest request is timed out in the end |
| Observability exporter (`src/observability/metric-exporter.ts`) | seven lists | collectMetrics | memory system | writers at work between the reads | totals add up; a scope holds |
| Configuration, environment, GPU (`src/core/config.ts`, `src/cli/env-bootstrap.ts`, `src/core/gpu.ts`) | environment variables, system.json, settings | load, merge, validate, save, update, probe | files | several writers, crashes, refused updates | a process runs by valid settings |
| Workflow stages and their agents (`src/core/system.ts`, `src/core/workflow-helpers.ts`, `src/agents`) | results by stage, rows of a run | executeTask behind its gate, the agents' executeTask | scheduler, OpenAI client, memory system | stages read fields of results that may be absent or elsewhere | the outcome says what was done; what is to be kept is kept |
| Tree of thought, rendering, TUI, YAML, logging, hooks, vector client | mostly none | | | | |

`PROJECT.json` lists every component with its status, and every hazard at the line where it
bites with the properties that cover it.

## 2. Modules

| module | models | proofs |
|---|---|---|
| `TaskScheduler` | scheduler, registry statuses, tenant slots, task promises, composed | `TaskScheduler_proofs` |
| `TaskContract` | the abstract promise of the task path; `TaskScheduler` refines it | `TaskScheduler_proofs` |
| `ConsensusManager` | consensus manager with the registered agents and its configuration | `ConsensusManager_proofs` |
| `ValidationGate` | executeTask's gate, the planner and the rows of a plan | `ValidationGate_proofs` |
| `DaemonLifecycle` | daemon processes and the commands that control them | `Workstation_proofs` |
| `AgentRegistry`, `NeuralMesh`, `SwarmCoordinator` | membership of the registry; mesh; swarm | |
| `AgentFabric` | mesh and swarm over one registry, as the system composes them | `AgentFabric_proofs` |
| `SystemLifecycle` | initialize, shutdown and uncaught errors of every system of a process | `HostProcess_proofs` |
| `CliSession` | ensureSystem and shutdown of the session; extends `SystemLifecycle` | `HostProcess_proofs` |
| `Capacity` | usage, memory state, auto-scaler, deployment and healing, by counting | `HostProcess_proofs` |
| `Platform` | `CliSession` and `Capacity` composed: a process, its systems and their crew | `HostProcess_proofs` |
| `TenantStore` | tenant and policy rows, defaults and limits of each process, boots and crashes | `HostProcess_proofs` |
| `FrontDoor` | requests and commands over `TenantStore`, with tokens | `HostProcess_proofs` |
| `HostProcess` | `Platform` and `FrontDoor`: one process and whom it serves | `HostProcess_proofs` |
| `Launch` | launch, doctor and env commands over docker, registrations and the daemon | `Workstation_proofs` |
| `Sorting` | `Array.sort` and `Array.filter`, as ranks | `Commands_proofs` |
| `RoutingPolicy` | router and tool optimizer, used by several commands | `Commands_proofs` |
| `CodexContext` | search, parse and cache of guides; the context in memory | `Commands_proofs` |
| `Strategies` | manifests, facts, behaviour tree, state machine, STRIPS, SHOP, value iteration | |
| `MCCliCommands` | the last three side by side, with their values for TLC | |
| `Workstation` | `DaemonLifecycle` and `Launch` side by side | `Workstation_proofs` |
| `ModelBackend`, `McpBridge`, `HiveMind`, `CodexPassthrough`, `GuiClient`, `Metrics`, `Settings` | the part of the same name, see below | |
| `StagePipeline` | the stages of a workflow, the agents that answer them, the outcome and what is kept of it | |
| `Outbound` | these eight side by side | `Outbound_proofs` (backend, bridge, GUI client, settings, Codex passthrough) |

Each run has an `MC...` module with values and symmetries for TLC, except those of `ValidationGate`, whose
configurations give every value themselves.  Definitions keep the source's
names where they can; `PROJECT.json` maps each to its lines.  Next to a definition, names such
as `Released_Nothing` are *mutated forms*: plausible bugs, used to see that each property can
fail when the code is wrong.

`HostProcess`, `MCCliCommands`, `Workstation` and `Outbound` put parts side by side that share no state: a variable
(`concern`, `family`, `task`, `errand`) says which of them a behaviour is about, and the others rest.
They are compositions for checking, not claims that the parts interact.  Real interaction is
composed in `TaskScheduler` (scheduler, registry, slots, promises), `AgentFabric`, `Platform`,
`FrontDoor` (requests over rows) and `HiveMind` (which evaluates a vote with `ConsensusManager`'s
own operators by INSTANCE).

### TaskScheduler and TaskContract

The code of this path calls itself back: `assignTaskToAgent` awaits `registry.assignTask`,
which emits `taskAssigned`, whose listener starts `handleTaskAssignment`, which executes the
task and calls `completeTask` or `failTask`, which emit again, and a failure sets the agent to
ERROR, which makes the registry call `handleAgentFailure`.  The order in which the
continuations of the awaits then run decides what the Maps hold.  So the microtask queue is a
variable, `jobs`: an action guarded by `Quiet` is a macrotask (a timer, an I/O callback, an
operator's call), and all the others run the job at the head.

| TLA+ | code |
|---|---|
| `pendingTasks`, `runningTasks`, `completedTasks`, `taskQueue`, `deferrals` | the fields of the same names (`taskDeferrals`) |
| `status`, `assignedTo`, `pastDue` | fields of `Task`; the deadline as "has passed" |
| `agentStatus` | `AgentMetadata.status`, with "absent" and "retired" for agents not registered |
| `slots`, `limit` | `tenantTaskCounts`, `tenantTaskLimits` of ResourceManager |
| `promise`, `executing`, `starts` | `taskPromises`; the executeTask promises that have not settled; how many there were |
| `SubmitTask` | submitTask and waitForTaskResult, one synchronous block |
| `ProcessTasks`, `ExpireTask`, `EnterLoop`, `AssignHead`, `TaskAssigned`, `Dequeue`, `LeaveLoop` | processTasks, from one await to the next |
| `RefuseHead`, `QuotaDeferred`, `QuotaFails`, `AgentUnavailable` | its catch block |
| `ExecuteTask`, `ExecutionReturns`, `ExecutionSettles` | handleTaskAssignment before and after `agent.executeTask`, which may settle within the microtask queue (an agent that needs no I/O) or by a later macrotask |
| `FailTask`, `CompleteTask`, `Fail`, `Orphans`, `Reassign` | failTask / completeTask with every listener their events run |
| `ResultTimeout`, `AgentMissesHeartbeat`, `RetireAgent`, `RegisterTenantQuota`, `SchedulerShutdown`, `SystemDown` | the timers and operations that come from outside |

`TaskContract` says, for a task and its waiter alone: worked on at most once, answered at most
once, a result only when the work ends.  `KeepsContract` is the refinement
`INSTANCE TaskContract WITH work <- ..., answer <- promise`.

### ConsensusManager

`terms` is what a proposal is decided by (requiredVotes, the voting population, the timer's
existence), frozen by `ProposeConsensus`; `votes` the recorded votes; `outcome` the decision.
`TermsNow` is calculateRequirements for all five mechanisms with exact rational quorum factors
(pairs of integers), `Verdict` is the ladder of checkConsensus, evaluated inside `SubmitVote`
as in the code.  `RegisterAgent`, `UnregisterAgent` and `UpdateConfig` change what later
proposals see; voters may be agents that are not eligible, as the CLI allows.

### ValidationGate

`pc[w]` is where an executeTask is, `call[w][r]` the planner call of each of three writers
(the workflow, handleConsensusResult, an operator), and `rows[w]` the rows with the plan's key.
Each database statement is one action: `ReadFinds` / `ReadMisses`, `Delete`, `Insert`; the
code between two statements belongs to the action before it, so `Insert` of the workflow's own
call also moves executeTask on (`AfterCall`).  `Decide` is the event consensusReached with both
of its listeners.  Tasks are success or failure here (`StageEnds`); TaskScheduler says how
they come about, ConsensusManager how decisions do.

### DaemonLifecycle

Processes instead of callbacks: every client and every daemon has its own `pc`, and each step
is what one process does between two moments at which another can run.  `state` is the pid in
`daemon.json`, `sock` the daemon that bound `daemon.sock` (dead or alive: the file outlives a
killed process).  `Terminated` has both meanings of SIGTERM: before "ready" no handler is set and
the signal kills; afterwards it calls `shutdown`.  Node removes the path of a unix socket
server when the server is closed, and refuses to listen on a path that exists.

### AgentFabric, NeuralMesh, SwarmCoordinator

`NeuralMesh` and `SwarmCoordinator` have one action per operation, over their own variables;
`AgentFabric` conjoins them into what one call of the system, one event of the registry or one
timer does.  Ids are numbers, ordered as localeCompare orders them, and given once.

| TLA+ | code |
|---|---|
| `links` | the `nodes` Map with the `connections` of each node; `Nodes` are its keys |
| `RingPeers`, `StarPeers`, `TreePeers`, `Filled` | establishRing / Star / Tree / MeshConnections; random peers are any that fit |
| `Rebuilt`, `SelfHealing` | rebuildConnections, performSelfHealing: every node on its own |
| `Configured` | setTopology with its fallback to "mesh", then the first of the supported list |
| `meshActive`, `meshTimer`, `healTimer` | updateInterval, runTimeout, selfHealingTimer |
| `algorithm`, `particles`, `edges`, `optimizing`, `swarmTimer` | currentConfiguration, particles, the keys of pheromoneMatrix, optimizationInterval, runTimeout |
| `Retire` with `Replacements` | retireIdleWorkers, and handleAgentUnregistered, which may deploy an agent *inside* the event, before mesh and swarm have heard that the old one is gone |
| `config` | the settings of the system configuration that matter here |

### HostProcess: SystemLifecycle, CliSession, Capacity, Platform

A process builds systems one after the other; `SystemLifecycle` numbers them.  An await of a
promise that settles without I/O leaves no room for other macrotasks, so an action reaches from
one real wait to the next: reading the configuration, the probes of GPU and OpenAI, listening,
closing the API server, flushing the log.

| TLA+ | code |
|---|---|
| `boot`, `halt`, `up`, `initialized`, `shuttingDown` | where initialize and shutdown are; the timers and components that run; isInitialized, isShuttingDown |
| `ConfigLoaded`, `Probed`, `Listens`, `PortTaken`, `CannotListen`, ... | initialize, and the ways it fails |
| `BeginShutdown`, `ApiClosed`, `Halted` | shutdown |
| `UncaughtError` | the process-wide handlers, one of each system object ever made |
| `TakeLock`, `FindsSystem`, `BootSystem`, `BootDelivers`, `BootRejects`, `SessionEnds` | CliSession.ensureSystem between its awaits, and shutdown |
| `crew`, `activeAgents` | the registry, counted by kind and status; ResourceManager.currentUsage.activeAgents |
| `StateAfter`, `Sample` | evaluateMemoryState with its hysteresis, the monitor's sample |
| `ScaleBy`, `cooling` | AutoScaler's recommendation and cooldown |
| `healDelay`, `healTimers` | selfHealingCooldowns, and the redeployments that wait for a timer |

`Platform` says which steps belong together: the default agents are deployed between the probes
and the API server, a sample is taken when the monitor starts, a new system has an empty crew.

### HostProcess: TenantStore and FrontDoor

`rows` is the part of `memory_entries` about tenants; it outlives a process.  `defaults`, `limits`
and `token` belong to a process and are lost with it.  A request of the API or a command is a
slot that waits for one statement at a time (`at`), the others run meanwhile; a statement may
fail and a process may die at each of them.  `acked` and `torn` are history: creations somebody was
told of, and what a request that failed half way left undone.

### Launch

Every command is a process with a place (`at`) and the profile it is at.  `container`, `registry`,
`daemon` and `tools` are the world; docker's answers, a killed client whose pull goes on
(`pulling`), services that fail and recover, and `codex mcp add` that fails are actions of the
world.  `lost` records what has gone wrong since a launch looked at it for the last time, which
is what a report cannot know.

### Commands: RoutingPolicy, CodexContext, Strategies

`RoutingPolicy`: `policies.json` is "absent", "torn" or whole; each command reads it, changes its
copy and writes it back; keywords and patterns are sets of topics.  The tool score is kept in
integers, in units that make every weight exact.  `CodexContext`: files have a content with a mark,
a size and flaws; a parse finds the guides in one step (nothing is said of what two guides held at the same
time), then validates and later reads each of them in a step of its own while guides are edited; an error of
`instructions.db` leaves `--codex` to the legacy parser, which validates nothing; rows carry the time of their insertion.  `Strategies`: manifests are data; the formalisms
are operators over them, some of them recursive, so this module is only model-checked; for the same reason
the three are composed in `MCCliCommands`, and not in a module the proofs use.

### Outbound

| module | what it follows |
|---|---|
| `ModelBackend` | the key's check, `ensureModelInventory` with its time to live, the chain of candidates of a prompt, the call and the usage window; the API offers a different list at each time |
| `McpBridge` | a message from `sendMessage` to its report, with the far end, time-outs before and after it has handled a post, and retries |
| `HiveMind` | a spawn, follow-up or quick spawn: priming with retries, calls of deployAgent against two limits one after the other (`orders`), the race of the workflow with its timer, the vote, the end of the session |
| `CodexPassthrough` | two terminals that write the same documents, installations that change while they are looked for |
| `GuiClient` | attempts, timers and the shared controller |
| `Metrics` | writers of telemetry and the exporter's seven reads |
| `StagePipeline` | `Stages` and `Called` are buildWorkflow on the topics of a prompt, `Reads` its payload builders; the agenda is the set of the stages not done, taken in the order of `Stages`; `TakesStage`, `StageAnswers`, `StageThrows`, `Concludes` are the loop of executeTask, which `ValidationGate` and `TaskScheduler` follow for its gate and its tasks; a result is the set of its fields that have something in them |
| `Settings` | environment files, `system.json`, validation, updates and GPU probes of two processes and an operator |

## 3. Runs

| run | instance | properties | shows |
|---|---|---|---|
| `scheduler_core` | three tasks (two of one tenant), two agents, quota none or one, deadlines | `BooksAreSound`, `NoSlotLeak`, `KeepsContract` | the task path under every order of executions, failures, timeouts and shutdown |
| `scheduler_quota` | three tasks of one tenant, fixed quota 2 | `QuotaIsKept`, `EveryWaiterAnswered` | exact counting when quotas do not change; callers do not wait for ever |
| `consensus_core` | two proposals, three agents (one not a voter), three configurations | `DecisionMatchesVotes`, `DecisionStands`, `EveryProposalSettles` | decisions are sound and final while everything around them changes, and nobody has to vote |
| `gate_core` | a gated workflow of two stages with its operator, and an ungated one | `RecordIsSound`, `SoleWriterIsExact`, `GateHolds`, `EveryWorkflowEnds` | three writers of one record; the undisturbed record is exact; the gate holds and lets go |
| `workstation_core` | one command of `background` at a time, three daemons; and two shells, two profiles, eight commands, one fault | `OneOrchestrator`, `ServingIsKnown`, `StoppedIsDead`, `ReportsAreSound`, `RegistrationStays`, `AllEnds`, `EveryCommandEnds` | the daemon protocol is right when used sequentially, whatever crashes or hangs; a launch that reports ready is, but for what was lost after its last look |
| `fabric_core` | connection limits 1 and 4; four agents in the four shapes with healing, two without, three in the random mesh | `LinksSound`, `MembershipFollows`, `Connected` | mesh and swarm follow the registry and keep their shape through joins, departures, healing, timeouts and shutdown |
| `host_core` | two callers, two systems and failing boots; one crew with and without scaling; one server, two tenants, three requests, a failing statement and a crash | `OneLiveSystem`, `StatusIsHonest`, `EnforcedIsStored`, `TenantsAreKept`, `HostCallsEnd` | the session boots one system; what is ready runs and what is counted exists; quotas enforced are those stored |
| `commands_core` | two shells with three commands; two terminals and a console with two edits; the manifests of `MCCliCommands` | `RoutingIsSound`, `GuidesAreSound`, `StrategiesAreSound`, `SuccessNeverHurts`, `MemoryIsCurrent` | rules, guides, contexts and plans are what the files said, under concurrent commands and edits |
| `outbound_core` | two prompts, one message, nine hive-mind commands, two terminals, two requests, two writers, two processes, two workflows of five prompts | `NewestIsTimed`, `CountsAreTrue`, `SettingsAreSound`, `ReportIsTrue`, `OutcomesAreTrue`, `AskedForOffered`, `InstructionsAreSound`, `EveryErrandEnds` | the edges of the system report what happened and come to an end |
| `scheduler_orphans` | two tasks, one agent | `PendingIsQueued` | violated, see section 6 |
| `gate_approval` | one gated workflow | `ApprovalIsFiled` | violated |
| `tot_runs` | two workflows of five prompts | `TotRunsAreKept` | violated |

Several of these properties are conjunctions of named parts; the parts are stated, each with its
comment, where they are defined.

Why the bounds are enough for what they are about:

- *Tasks and agents.*  A task interferes with another through a shared agent, tenant or queue;
  two tasks of one tenant plus a more urgent stranger, and two agents of which one can fail
  while the other is offered, give every pair of roles.  `MaxDeferrals` (5 in the code) and
  `BatchLimit` (10) are lowered to 2, so both limits are reached; `MAX_TASK_DEFERRAL_MS` (5 s)
  is the choice that a deferred task may give up at any later refusal.  `MaxHops` bounds how
  many settled promises an execution awaits before it returns within the microtask queue;
  what matters is whether it returns before or after the scheduler's own continuation, which
  happens within the bound.
- *Proposals.*  Proposals share nothing but configuration and registry; two show that the
  terms of one are not those of the other.  Three agents give every quorum of the mechanisms
  including a tie and the 3f + 1 clamp.
- *Workflows.*  Two stages make "a stage before" and "the last stage".  One operator call per
  plan, since a fourth writer meets the same read, delete, insert as a third.  Only the listener
  of consensusReached sees other workflows; that several gated ones do not disturb one another is
  proved for any number (`GateSafe`).
- *Mesh and swarm.*  Four agents are the least with a ring that is not complete, a tree with two
  levels and a node whose departure would cut either; a limit of 1 is the least the code allows,
  4 makes thin nodes and lets healing fill them.  Ids are given once, so each run of the system
  deploys four agents in all.
- *Daemons.*  Three daemons let a dying one, a serving one and a starting one coexist.
- *Host.*  The second caller is the one that waits for the lock; two boots give one that fails and
  one after it; two session shutdowns, the second of which finds nothing.  A crew of three to
  four with limits of four reaches each limit; the samples are one value on each side of each
  threshold.  `MaxTimers`, `MaxBroken` and `MaxBatch` are one: a second redeployment, broken agent
  or deployed agent meets the same checks.  Three requests are a creation and two updates; two
  run at a time.  One failing statement and one crash, at every place.
- *Launch.*  Two shells make every pair of commands; two profiles make "before" and "after" the
  profile a command is at; one fault, anywhere, at any time.
- *Commands.*  A lost update takes two commands; the third reads what they left.  Windows of one
  and two entries are full after that many calls.  Two edits are one during a parse and one after
  it; a validity of 2 lies between the times of the run.
- *Outbound.*  Two calls and three lists make an answer overtake another.  The crews are those
  of the documented defaults, with the worker types that matter to the vote.  One post, `Retries`
  of two: the first attempt, one that fails again, one that ends it.  Two retries of priming
  instead of three, two attempts of a GUI request instead of three.  Five prompts: nothing, code whose
  text the linter minds, every stage, validation without code, documents and architecture.

## 4. Fairness

- `TaskScheduler`: weak fairness of `Microtask` (Node drains the queue before anything else)
  and strong fairness of `ResultTimeout`: a due timer runs although other macrotasks keep coming
  in between.  Nothing is assumed of agents, executions, the scheduler's interval or operators.
- `ConsensusManager`: weak fairness of `TimerFires`, the setTimeout of proposeConsensus.  Nobody
  has to vote.
- `ValidationGate`: every statement is answered (weak fairness of each call's next statement),
  the gate's timer fires, and a stage ends: waitForTaskResult has a timer, which is what
  `EveryWaiterAnswered` shows of the task path.
- `DaemonLifecycle`: a command goes on (its own timers guarantee it) and a shutdown that has
  begun goes on (`Closed`, `Drained`).  For `CommandsEnd` the latter is not needed: SIGKILL
  ends the wait.  No daemon has to get ready.
- `HostProcess`: reads, probes, the socket, the log and the handlers of requests come back; a
  waiting caller is resumed; the database answers each statement.  Nobody has to call, and a
  process that exits or dies owes nothing.
- `Launch`: every external command returns, with two exceptions the code has timeouts for
  (`compose up`, health probes), which fire.  `spawnCommand`, `compose ps` and `docker login` have
  no timeout in the code: if docker hangs there, so does the command.
- `Outbound`: requests and reads end by their time-outs, timers fire, statements are executed,
  each process goes on.  Nothing is assumed of agents, operators or the other ends.
- `AgentFabric`, `RoutingPolicy`, `CodexContext` and `Strategies` state safety alone and assume no fairness.

## 5. Proofs

`tlapm` checks every proof to the last leaf, for all values of the constants under the named
assumptions of the modules (finite task sets, agents as naturals, disjointness of `None`,
lower bounds of the limits).

| theorem | statement | argument |
|---|---|---|
| `TaskScheduler_proofs!TypeCorrect` | `Spec => []TypeOK` | each action; the microtask queue holds well-formed jobs only, and slots never go below zero |
| `TaskScheduler_proofs!SlotsDoNotLeak`, `BooksStaySound` | `[]NoSlotLeak`, `[]BooksAreSound` | the invariant `IInv`, see below |
| `TaskScheduler_proofs!SchedulerKeepsContract` | `Spec => KeepsContract` | the refinement mapping as lemmas: with `IInv`, `AssignHead` starts a task that was never started, only waiting promises are answered, and every other step stutters |
| `TaskScheduler_proofs!FixedQuotaIsKept` | `Spec /\ [][UNCHANGED <<limit, pastDue>>]_vars => []QuotaIsKept` | `QInv`: `IInv`, no job expires anything, slots equal to the running tasks, and those within the quota |
| `ConsensusManager_proofs!OpenUndecided`, `DecisionSound`, `QuorumFeasible`, `DecisionFinal` | `[]OpenIsUndecided`, `[]DecisionMatchesVotes`, `[]QuorumIsFeasible`, `DecisionStands` | one inductive invariant: types, *votes only where there are terms* (so that a new proposal starts empty), and the three properties; the action property follows from the guard of voting and timers once the invariant is there |
| `ValidationGate_proofs!GateSafe`, `TypeCorrect` | `[]GateHolds`, `[]TypeOK` | `GateHolds` is inductive with types: only `Decide` on a workflow's own proposal leads past the gate, an accepted proposal is never decided again, and the stage number moves only past the gate |
| `ValidationGate_proofs!RecordStaysSound`, `SoleWriterStaysExact` | `[]RecordIsSound`, `[]SoleWriterIsExact` | `PlanAt`, see below |
| `Workstation_proofs!StateFileSound`, `StopIsFinal`, `TypeCorrect`, `StopIsFinalAtWork` | `[]StateNamesReported`, `[]StoppedIsDead`, `[]TypeOK`; the second also of `WorkSpec` | strengthened by `StartedOnly` (whatever a command or the state file names was started, so that a dead process cannot come to life by being forked) and `InHand` (a command that waits, has asked or polls names a process; one that has read has no old result) |
| `Workstation_proofs!OneTerminalOneOrchestrator`, `ServingStaysKnown` | for a single client, `WorkSpec => [](OneOrchestrator /\ ServingIsKnown)`, and its second part by itself | `InTurn`: what the client read is still in the file when it acts on it, it forks only when no orchestrator is alive, and one that is alive is waited for or is in the file and serving |
| `Workstation_proofs!ReportsStaySound`, `RegistrationsStay` | `WorkSpec => []ReportsAreSound`, `[]RegistrationStays` | `LaunchAt`: whatever a launch has seen so far it may rely on, but for what was lost since, and its place says what it has seen |
| `AgentFabric_proofs!TypeCorrect`, `MembersKnown`, `RunsBounded`, `TopologyKnown`, `PeersKnown` | `[]TypeOK`, `[]MembershipFollows`, `[]RunsAreBounded`, `[]TopologySupported`, `[]PeersPresent` | one inductive invariant, with `Fresh` (before initialization there is nothing to follow); one lemma per operation of the mesh, and one for steps that leave the mesh, or the swarm, alone |
| `AgentFabric_proofs!CapacityKept`, `EdgesComplete` | `[]CapacityHolds`, `[]EdgesCover` | on top of it: the slots are counted in the step that fills them; a swarm without configuration has no particles (`EdgeInv`) |
| `AgentFabric_proofs!LinksStaySound`, `MeshStaysConnected` | `[]LinksSound`, `[]Connected` | the positions of the ids are a bijection onto `0..n-1` (`IndexOrder`, `IndexOnto`); so each topology's peers are counted, and `Rooted`: every node but the first has a connection to an earlier one |
| `HostProcess_proofs!OneSystemLives`, `StatusStaysHonest` | `HostSpec => []OneLiveSystem`, `[]StatusIsHonest` | `ProcessInv` and `CrewInv`, see below |
| `HostProcess_proofs!TenantsStayKept` | `HostSpec => []TenantsAreKept` | `DoorInv`: `TenantsAreKept`, the ids of the rows are bounded (so that an insert is the newest row), and a request that is between the statements of a creation names a tenant whose row is there, or is to be inserted by it |
| `HostProcess_proofs!EnforcedStaysStored` | for a single server with a default quota, `HostSpec => []EnforcedIsStored` | `EnforcedInv`: the same of a process whose boot has read the policies, with one lemma per statement that says how the rows of the policy, the limit, and what is unfinished change together |
| `Outbound_proofs!ReportStaysTrue` | `OutboundSpec => []ReportIsTrue` | `BridgeInv`: posts are counted by attempts, the far end handles each of them once at most, a reply that is being read was given, and a report quotes it |
| `Outbound_proofs!NewestStaysTimed` | `OutboundSpec => []NewestIsTimed` | `NewestIsTimed` is inductive with types: only a newer attempt takes the controller away, and only the end of an attempt its timer |
| `Outbound_proofs!AskedStaysOffered` | `OutboundSpec => AskedForOffered` | `BackendInv`: every list that is kept, or under way, was on offer between the time it is kept under and now; `Selection` takes a model of the chain that fits if there is one |
| `Outbound_proofs!SettingsStaySound` | `OutboundSpec => []SettingsAreSound` | `SettingsInv`: settings are valid where the boot goes on with them, what the consensus uses is within bounds, and each variable has the value of the first source that sets it, or the GPU's where that is nothing (`AsGiven`) |
| `Outbound_proofs!InstructionsStaySound` | `OutboundSpec => []InstructionsAreSound` | `PassthroughInv`: a terminal that was alone when it started still is, and the files it has written so far hold what it wrote; `Newer` is a weak order, so that a path has a first among its newest executables, by induction over its length |
| `Outbound_proofs!OutcomesStayTrue` | `OutboundSpec => []OutcomesAreTrue` | `FlowInv`: what the prompt calls for is done or on the agenda, and the results that write and look at code fit the prompt (the code is written before the linter's and the validation's turn); `HiveInv`: a review is of a workflow that has ended for good, by coordinators that are finitely many; a requirement is between one and the population, so that votes that are all alike decide it |
| `Outbound_proofs!CountsStayTrue` | `OutboundSpec => []CountsAreTrue` | `MetricsInv`, see below; `UsageInv`: the events kept are the end of the log, cut at `MaxEvents` |
| `Commands_proofs!RoutingStaysSound` | `RouterSpec => []RoutingIsSound` | `RouterInv`: each id is once in a service's rules, and the service knows a rule as the acknowledged changes have made it, but for those it is outdated about; a ranking begins with the greatest precedence |
| `Commands_proofs!SuccessStaysHarmless` | `RouterSpec => SuccessNeverHurts` | the table holds only calls some command may record; the window gains the new call and loses one at most (`WindowMoves`); so the ratio of successes does not fall (`BaseGrows`), nor the adjustment (`AdjustmentGrows`: a fraction that does not grow has no greater quotient), and cutting off keeps the order |
| `Commands_proofs!GuidesStaySound`, `MemoryStaysCurrent` | for `West <= 0`, `CodexSpec => []GuidesAreSound`; `CodexSpec => MemoryIsCurrent` | `CodexInv`, see below |

The invariants that carry the most:

- *Task path.*  `BooksAreSound` and `NoSlotLeak` are not inductive: a step runs the head of the
  microtask queue, and what it may assume was true when the job was queued.  `IInv` adds what the
  queue promises.  `JobsInv`: one job at most belongs to processTasks, the rest of a synchronous block
  comes first, and no task has two executions.  `QueueInv`: the task such a job has in hand is the
  head of `taskQueue`, a queued task that is not in hand is pending, not running and never started, and
  nothing that is still to be expired is queued.  `KnownInv`, `WorkInv`: an unknown task is nowhere, a
  task starts once, an execution that is under way has started.  `AgentInv`: only a task whose
  assignment is about to be taken back may have an agent that failed.
- *Quota.*  `QuotaIsKept` is false when quotas change while tasks run (section 6), and its run is
  an instance where they do not and no deadline passes.  The theorem says the same as a
  condition on the behaviour, `[][UNCHANGED <<limit, pastDue>>]_vars`; the specification leaves quotas
  and deadlines alone in every step but `RegisterTenantQuota` and the passing of a deadline.
- *Records.*  `PlanAt` is, for each workflow, which calls may be under way at which place
  (`TurnAt`), that a row, and a call that has read one, claim no more than is so (`HonestAt`), that a plan
  without rows has an insert outstanding (`SurvivesAt`), and what a workflow without other writers
  has written so far (`SoleAt`).
- *One orchestrator* has a condition too: one client.  With two, `OneOrchestrator` is violated
  (section 6); any number of daemons may still be dying or hanging.
- *One live system.*  `OneLiveSystem` says nothing of boots that are under way, and is not inductive.
  `ProcessInv` adds, for every system, that a boot under way is the one the session waits for, a ready
  system is that or the session's own, and a system that an uncaught error ends is shutting down; and
  which components run at each place of a boot and of a shutdown.  `CrewInv` keeps the usage equal to the
  count of agents, these within `maxAgents`, and the memory state within the hysteresis of the last sample.
- *Enforced limits* have two conditions.  One process on the table: another one's changes arrive with
  the next boot only.  A default quota: without one a boot reads no policies (section 6).
- *Guides.*  Everything a row, a parse or a context says of a file is about a write of it: the content
  was in the file from then until the next one.  Such a fact is undone by no later write, so `CodexInv` only
  has to say that rows, parses, answers and watches consist of such facts (`Parses`, `Readings`, `Tasks`,
  `Prompts`, `Contexts`), and its proof that these sets grow (`Grows`), and that each step adds members of them.  The
  condition of `GuidesStaySound` is that of the code: `getCachedInstructions` compares a UTC time with the
  local one, and west of Greenwich a row is valid for the offset longer (`src/instructions/parser.ts:404`).
- *Counts.*  `ReportAddsUp` compares totals that the report takes from one list with the sums of its
  breakdowns.  `SumOfParts` says once that the sizes of the parts of a finite set add up to the size of the
  set; it is proved from the fold the library defines sums by, by a least counterexample in size, without an
  operator as a parameter.  What is left is that every row is in one part: `MetricsInv` says that a plan has
  one row at most (`OneRow`), none between its delete and its insert (`Cleared`), that what a writer has
  still to record of a plan replaces what is there (`EntriesFit`), and that the lists read so far keep
  this although writers go on between the reads (`ListsFit`).  A delete that failed (`undeleted`) is the
  exception the property has, too; so is a plan that several callers record (`SharedPlans`), which can have
  two rows (section 6): of it only that the totals add up is claimed, not that it is counted once.
- *Routing rules.*  `RulesStay` speaks of the file alone.  `Knows` says of every service that has read the
  file, and for every rule but those changed since (`stale`), undone (`spoilt`) or about to be saved, that
  its copy has the rule as it was settled; so that whatever it writes back, it writes the settled rule.
- *Connectedness.*  `Connected` says that no set of nodes is cut off; of a set and its complement,
  the one without the first node has a first node of its own, and `Rooted` joins that one to an
  earlier node, which is on the other side.  Healing only adds peers, or builds those of the topology.

The theorems of `Commands_proofs` are of the specifications of the two components, `RouterSpec` and
`CodexSpec`; the run checks them under `CliSpec`, each of whose behaviours is one of these or leaves its
variables alone.

TLC checked each of these invariants on the instances of the runs before it was proved, except for the
parts it cannot evaluate (`RowsBounded` and the set `Verdicts`, which range over infinite sets). The
proofs changed how the models are written, and nothing of what they say: `Neighbours` and `KnownRules` are
parenthesised (SANY and `tlapm` read `UNION` before `\cup` differently); `Selection` takes the least
fitting position of its chain; sorting and filtering are ranks of positions (`Sorting`), since the provers
know neither SortSeq nor SelectSeq; functions are overridden by operators of their own (`Over`,
`ById`, `With`) and with EXCEPT (`Moved`), since they know none of the TLC module; `Find` is the set of the
rules of an id; the agenda of a workflow is a set with an order, and the calls of deployAgent are steps of
their own, instead of a filtered sequence and a recursion. Assumptions were added for what the runs had anyway: `Jobs` and `EnvFiles` are not empty, each of
the latter is three files, a mode sets mechanism, timeout and quorum at most, the catalogue and the default
models are sequences of names, there is a scenario at least, a request that creates a tenant has an id
for it, there is a configuration of the vote and each is one of `ConsensusManager`'s, installations have
versions of three numbers, a file that is not absent has flaws of the kinds
there are, every rule has an id, a precedence and a switch, a call says whether it succeeded and how long it
took, the topics with preferred agents are finitely many and code is one of them, the window has room for a
call, and a writer of the telemetry records a plan under a tenant that sees what it recorded of the plan
before: `persistRun` always passes the tenant of the plan's own record.

Only model-checked:

- liveness (`EveryWaiterAnswered`, `EveryProposalSettles`, `EveryWorkflowEnds`, `AllEnds`,
  `HostCallsEnd`, `EveryCommandEnds`, `EveryErrandEnds`), which needs fairness and ENABLED;
- `StrategiesAreSound`: `Strategies` uses recursive operators.

## 6. What the models say about the code

Three runs state what the repository says of the program and are violated; the findings in
`PROJECT.json` quote both sides.

1. `scheduler_orphans`: handleAgentFailure returns tasks to `pendingTasks` but not to
   `taskQueue`: "reassigned" tasks are never assigned again and their callers time out.
2. `gate_approval`: the checkpoint "consensus-approved" and the decision are written by two
   racing updates; one is lost.
3. `tot_runs`: the plan of the tree of thought is looked for in `artifacts.reactPlan.tot`, and is in
   `artifacts.reactPlan.plan`: no run is stored under `tot_runs`, no follow-up queued or proposed
   (`docs/tree-of-thought.md:33`, `:43`).

More are stated in the modules, next to the properties that hold, and are not kept as runs;
each is violated by the code when checked.

- `FiledIsFinal` (TaskScheduler): a task whose execution settles within the microtask queue is
  filed as completed, then marked running, and found under no status.
- `AssignmentRespectsQuota` (TaskScheduler): tasks that started before their tenant had a quota
  are not counted, and the tenant runs more than the quota until they end.
- `AcceptedWithStake` (ConsensusManager): stakes are computed and reported, and decide nothing.
- `ExhaustedMeansAllVoted` (ConsensusManager): votes of agents that are not eligible exhaust a
  proposal.
- `BlockedStaysAborted` (ValidationGate): an approval that comes after the gate's timeout turns
  the aborted plan into a running one.
- `OneOrchestrator` with two commands at a time (DaemonLifecycle): two starts within one
  start-up time run two orchestrators.
- `KnownIsReachable` (DaemonLifecycle): starting, failing and exiting daemons remove the socket
  of the one in service.
- `ExitIsDrained` (DaemonLifecycle): an ordinary stop sends a request *and* SIGTERM; the second
  shutdown call exits the process while the first is still shutting the system down.
- `OptimizingIsConfigured` (AgentFabric): startSwarm on an active swarm stores the new
  configuration and then calls stopSwarm, which clears it.
- `ReportedIsEnforced` with two servers (FrontDoor): limits are a copy in each process; a change
  by another process does not arrive before a restart.
- `EnforcedIsStored` without a default quota (FrontDoor): a boot then returns before it reads the
  policies, so that after a restart no stored limit is enforced (`src/core/system.ts:2398`).
- `SyncSeesEdits` (CodexContext): within the hour `instructions sync` re-reads nothing after an
  edit (`docs/cli/instructions.md:7`).
- `GuidesAreSound` with `West = 1` (CodexContext): west of Greenwich a cached parse is used for longer than
  its time to live, by the offset of the local clock (`src/instructions/parser.ts:406`).
- `UnsoundOnlyByRace` without its exemption of the legacy parser (CodexContext): after an error of
  `instructions.db` a command with `--codex` attaches guides that nobody validated
  (`src/cli/codex-context.ts:158`).
- `SuccessNeverHurts` without its condition on the average (RoutingPolicy): the proof of the property failed
  where `computeLatencyAdjustment` stops counting.  An average of 2000 ms or more costs 0.15, one of 1999 ms
  0.1899 (`src/tools/optimizer/index.ts:203`), so that a quick success can lower a slow tool's score.  The
  property now leaves out averages of two seconds and more, and calls that push a quicker one out of the
  window, which raises the average as it should.
- `ReportAddsUp` without its exemption of `SharedPlans` (Metrics): `logReasoningRun` deletes and inserts in
  two steps (`src/memory/memory-system.ts:171`).  When two callers record a plan at once, as a workflow, the
  handler of its decision and an operator can (`ValidationGate`), both may delete before either inserts; the
  plan then has two rows, and the exporter counts it twice.
- `ScopeHolds` (Metrics): the exporter's script opens the memory without tenancy, so `--tenant`
  scopes nothing (`docs/observability/README.md:36`).
- `InstructionsAreSound` of two terminals at a time (CodexPassthrough): both write the same five files in
  place, and what one of them reports is mixed with the other's (`src/cli/codex-guidance.ts:18`).
- `SettingsAreSound` without its exemption of `DeviceHints` (Settings): a `CUDA_VISIBLE_DEVICES` or
  `TORCH_USE_MPS` that is set to nothing, as one does to hide the devices, counts as not set and is
  overwritten (`src/core/gpu.ts:264`).
- `ClearedStaysCleared` (Settings): `consensus stake --clear` merges an empty table; the stakes
  come back with the next update.

Modelling showed further disagreements that no property states:

- "Code lint checks passed." is said of workflows without code too (`src/core/workflow-helpers.ts:118`);
  a prompt about testing alone has its validation fail, of no code; the research stage reads an
  analysis that comes after it.
- initialize that fails leaves the monitor, the components and the health checks running, and a
  process keeps an error handler of every system it made; a session shutdown during a boot is
  lost; healing timers outlive a shutdown.
- The auto-scaler acts even when scaling is switched off, between 2 and 20; `cpuPercent` is a
  cumulative count of CPU seconds (`src/core/resources.ts:160`); `maxActiveAgents` is looked at
  before a batch and not within it.
- Two concurrent creations of one tenant both answer 201; a failing insert after the delete loses
  a row that was there; a failing tenant look-up lets a request go on without a tenant
  (`docs/architecture/multi-tenancy.md:58` says 400).
- A rule without conditions makes every evaluation fall back to CODE_WORKER; `--exclude` is only
  read against a rule's own list (`src/router/router.ts:325`, while `src/cli/index.ts:4011` offers
  it as agents to exclude); a torn `policies.json` is replaced by the defaults.
- The MCP bridge cancels its time-out before the body is read and retries even after a 2xx, so a
  message may be handled twice; `MCPBridgeAgent` completes its task even on `ok: false`.
- With the default consensus settings, a crew of 23 agents or 20 workers requires four votes of
  three coordinators: every clean outcome is reported as rejected, while `src/core/system.ts:1791`
  promises a reliable quorum.  The race timer of a hive-mind command is never cleared.
- `GoapRegistry` marks itself loaded after a failed read (`src/reasoning/goap/registry.ts:89`);
  STRIPS signatures conflate an absent variable with a false one.
- Codex passthrough never launches codex (`docs/cli/codex-passthrough.md` says "Executes"); a dry
  run still writes its files.
- Requests of the GUI client that are not the newest are never timed out, and "Cancel any pending
  requests" (`src/gui/api-client.ts:128`) reaches the newest only; a POST is repeated after an error.
- Windowed counts are exported as `_total` counters and may decrease, while
  `docs/observability/README.md:70` uses `increase(...)`.
- A refused update stays in the settings, and later updates fail until it is corrected.  The
  options `--fault-tolerance` and `--stake-threshold` of `consensus mode` are never applied
  (`docs/codex-synaptic-cheat-codes.md:62`).  `src/cli/index.ts` declares `loadedEnvSources` and
  imports `RetryManager` twice, so that it does not compile as it is; of the two loaders of
  environment files only `src/cli/env-bootstrap.ts` is modelled.

## 7. Abstractions and what is not modelled

- *Task path*: capabilities are a relation `Capable`, priorities integers, deadlines and timers
  without clock values; metrics, results and messages are left out.  Agent selection by
  reputation or load does not exist in the code: the first suitable agent in Map order is taken,
  and so it is in the model.
- *Gate*: database statements do not fail, and `getLatestReasoningRun` always looks far enough
  (it reads the newest 100 rows).  `persistWorkflowArtifacts` comes after it, in `StagePipeline`.
- *Daemon*: a pid is not used again; the small files are written and read whole; `setMode` and
  `setTier`, which no command sends, and the runtime snapshot, which is only displayed, are left
  out.  A client that is killed while it waits is a client that stays away, except that its
  timeout then never fires.
- *Mesh and swarm*: weights, positions and pheromone levels, and with them the optimizers'
  arithmetic; `config.mesh.topology` is read by nothing in the code, so a new mesh is "mesh" in
  the model too.  A system that is shut down without having been initialized is left out.
- *Host*: agents are counted, not named; memory is a percentage.  Passwords and the administration
  of users are data (`admins`); a statement of the database and the code up to the next await are
  one step.  `RateLimiter`, `MemoryPool` and `updateTaskCount` have no callers.  A circuit breaker
  wraps one call of each system object (`src/core/system.ts:360`) and cannot reach its threshold.
- *Launch*: durations are "before" or "after" a time-out; the output of docker is what it says of
  a profile.
- *Commands*: prompts, keywords and patterns are sets of topics.  Trees are finite.  Q-learning is
  left out.  One repository root; the West offset of the clock (`src/instructions/parser.ts:404`) is a
  constant, 0 in the run; `--cache-status` is left out.
- *Outbound*: the default backend openai-responses; a 401 does not disable the client here as in
  the code.  `refreshOpenAIModelCatalog`, `ping` and the generateOpenAI operations have no callers.
  The A2A bridge delivers nothing at this commit.  In `StagePipeline` the key may be refused at any
  time, the vectors of the knowledge stage are left out, and so is the stage that would only come of an
  empty workflow.  Averages of the exporter, the layout of its
  report, and `CODEX_GPU_DEVICES` are left out.
- *Not modelled*: see the components with status `not_modelled` in `PROJECT.json`: the tree of
  thought, whose scores are random floating-point numbers and which shares no state; rendering,
  TUI and YAML; logging and the file wrapper; hooks and the vector client; the Python client and
  deployment files.

## 8. Plan

Done: the modules of section 2, and the proofs of section 5: every safety property a run checks is a theorem,
except `StrategiesAreSound`.  Next would be a refinement of `FrontDoor` by an abstract register of tenants,
beside the one of the task path.
