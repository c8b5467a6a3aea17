------------------------------ MODULE HiveMind ------------------------------
(***************************************************************************)
(* `hive-mind spawn`, `hive-mind follow-up` and the quick spawn of the menu: *)
(* a crew is deployed phase by phase (src/cli/hive-mind-orchestrator.ts), a  *)
(* workflow runs against a timer, the consensus coordinators vote on its     *)
(* outcome (src/cli/index.ts), and the session is closed when the command    *)
(* is over.  With --strategy goap the actions of a manifest take the place   *)
(* of the phases (src/reasoning/goap/executor.ts).                           *)
(***************************************************************************)
EXTENDS Naturals, Integers, Sequences, FiniteSets, FiniteSetsExt, SequencesExt

CONSTANTS
    Spawns,         \* [kind, agents, maxWorkers, queen, mcp, bound, attach, manifest, dry]
    Reviews,        \* configurations of the system's ConsensusManager
    AgentTypes, WorkerTypes, Reinforcement,   \* WORKER_TYPES, REINFORCEMENT_ORDER: sequences
    DefaultCrew,    \* of bootstrapDefaultAgents: pairs of a type and a count
    MaxAgents,      \* system.maxAgents
    MaxActive,      \* maxActiveAgents of the resource limits
    Artifacts,      \* [validation, lint] of an outcome
    PrimeRetries,   \* 3
    NoValue

Voters == {"consensus_coordinator", "review_worker", "planning_worker"}
AgentIds == AgentTypes \X (1..MaxAgents)

ASSUME HiveMindAssumption ==
    /\ MaxAgents \in Nat /\ MaxActive \in Nat /\ PrimeRetries \in Nat
    /\ Range(WorkerTypes) \cup Range(Reinforcement) \cup Voters \subseteq AgentTypes

VARIABLES
    spawn, reviewed,   \* the command's options; whether a vote is required
    policy,       \* configuration of the ConsensusManager
    live,        \* the system of the session
    crew,        \* agents in the registry
    orders,      \* calls of deployAgent to be made, pairs of a type and a count
    command,     \* "start", "setup", "acting", "deploying", "running", "reviewing", "over" or "threw"
    tries,       \* priming attempts that failed
    done,        \* actions of the manifest that are done
    flow,        \* workflow: "none", "planning", "waiting", "ended", "failed"
    outcome,     \* its artifacts, <<>> before
    timer,       \* of the race: "off", "armed", "fired"
    review       \* [accepted, voters, required] as reported, <<>> without a vote

hiveVars == <<spawn, reviewed, policy, live, crew, orders, command, tries, done, flow, outcome, timer, review>>

Manager == INSTANCE ConsensusManager WITH
    Proposals <- {1}, Agents <- AgentIds, VotingAgents <- {a \in AgentIds : a[1] \in Voters},
    Configs <- Reviews, StakeTable <- <<>>, None <- NoValue,
    registered <- crew, config <- policy, votes <- <<>>, outcome <- <<>>, terms <- <<>>
ASSUME ReviewsAssumption == Reviews # {} /\ Reviews \subseteq Manager!Config

-----------------------------------------------------------------------------
(* Deployment.                                                              *)
OfType(c, type) == {a \in c : a[1] = type}

\* deployAgent cuts an order off silently at maxAgents; the names are the first that are free.
Room == Max({MaxAgents - Cardinality(crew), 0})
NewAgents(type, n) ==
    LET free == ({type} \X (1..MaxAgents)) \ crew
    IN  {a \in free : Cardinality({b \in free : b[2] <= a[2]}) <= n}
Placed(list) == SelectSeq(list, LAMBDA o : o[2] > 0)

WorkerBudget(s) == Min({s.maxWorkers, Max({s.agents - 3, 0})})
\* calculateDeploymentPlan: one of each type, then reinforcements in rotation.
PlannedOf(budget, i) ==
    LET extra == Max({budget - Len(WorkerTypes), 0})
    IN  (IF i <= budget THEN 1 ELSE 0)
        + Cardinality({k \in 1..extra : Reinforcement[((k - 1) % Len(Reinforcement)) + 1] = WorkerTypes[i]})
WorkerOrders(budget) == Placed([i \in DOMAIN WorkerTypes |-> <<WorkerTypes[i], PlannedOf(budget, i)>>])

QueenOrders == <<<<"swarm_coordinator", 1>>, <<"topology_coordinator", 1>>>>
BridgeOrders == <<<<"mcp_bridge", 1>>, <<"a2a_bridge", 1>>>>
PhaseOrders(s) ==
    (IF s.queen THEN QueenOrders ELSE <<>>) \o <<<<"consensus_coordinator", 1>>>>
    \o WorkerOrders(WorkerBudget(s)) \o (IF s.mcp THEN BridgeOrders ELSE <<>>)
QuickOrders(s) ==
    <<<<"swarm_coordinator", 1>>, <<"consensus_coordinator", 1>>,
      <<"code_worker", Max({1, s.agents \div 3})>>, <<"data_worker", 1>>, <<"validation_worker", 1>>>>
FirstOrders(s) ==
    CASE s.kind = "classic" -> PhaseOrders(s)
      [] s.kind = "quick" -> QuickOrders(s)
      [] OTHER -> <<>>

-----------------------------------------------------------------------------
(* The vote.                                                                *)
\* deriveConsensusDecision.
Decision_ValidationOnly(o) == o.validation # "failed"
Decision(o) == o.validation # "failed" /\ o.lint \notin {"error", "fatal"}
Coordinators == OfType(crew, "consensus_coordinator")
\* The coordinators vote one after the other, all alike, in one go; what they leave open the
\* manager's timer turns down, which is never later than the command's own.
Accepted(o) ==
    LET yes == IF Decision(o) THEN Cardinality(Coordinators) ELSE 0
        no == Cardinality(Coordinators) - yes
    IN  \E n \in 1..Cardinality(Coordinators) :
            /\ \A k \in 1..(n - 1) : Manager!Verdict(Min({yes, k}), Min({no, k}), Manager!TermsNow) = "open"
            /\ Manager!Verdict(Min({yes, n}), Min({no, n}), Manager!TermsNow) = "accepted"

\* shouldRequireConsensus: the byzantine default is normalised to "bft", which always votes.
ReviewNeeded(mechanism, mentioned) == mechanism \in {"bft", "pow", "pos", "hybrid"} \/ mentioned

-----------------------------------------------------------------------------
HiveStart(s, t, needed) ==
    /\ spawn = s /\ policy = t /\ reviewed = needed
    /\ live = TRUE /\ crew = {} /\ orders = DefaultCrew
    /\ command = "start" /\ tries = 0 /\ done = 0
    /\ flow = "none" /\ outcome = <<>> /\ timer = "off" /\ review = <<>>

HiveInit == \E s \in Spawns, t \in Reviews : HiveStart(s, t, ReviewNeeded(s.mechanism, s.mentioned))

\* deployAgent, call after call: nothing else happens between them, and a call that is refused, the
\* limits being reached, ends the command and leaves the crew half deployed.
Deploys ==
    /\ orders # <<>>
    /\ IF Cardinality(crew) >= MaxActive
       THEN command' = "threw" /\ orders' = <<>> /\ UNCHANGED crew
       ELSE /\ crew' = crew \cup NewAgents(Head(orders)[1], Min({Head(orders)[2], Room}))
            /\ orders' = Tail(orders)
            /\ UNCHANGED command
    /\ UNCHANGED <<spawn, reviewed, policy, live, tries, done, flow, outcome, timer, review>>

StartsWork ==
    /\ command' = IF spawn.kind = "goap" THEN "acting" ELSE "setup"
    /\ orders' = FirstOrders(spawn)

\* primeCodexWithRetry: a missing password is not tried again.  (The commands of the advanced
\* strategies prime in the same way; what they run is in Strategies.)
Primes ==
    /\ command = "start" /\ orders = <<>> /\ spawn.attach /\ spawn.kind = "classic"
    /\ \/ StartsWork /\ UNCHANGED tries
       \/ command' = "threw" /\ UNCHANGED <<orders, tries>>    \* no CODEX_CLI_PASSWORD
       \/ /\ tries' = tries + 1
          /\ command' = IF tries = PrimeRetries THEN "threw" ELSE "start"
          /\ UNCHANGED orders
    /\ UNCHANGED <<spawn, reviewed, policy, live, crew, done, flow, outcome, timer, review>>

StartsPlain ==
    /\ command = "start" /\ orders = <<>> /\ ~(spawn.attach /\ spawn.kind = "classic")
    /\ StartsWork
    /\ UNCHANGED <<spawn, reviewed, policy, live, crew, tries, done, flow, outcome, timer, review>>

\* executeOrchestrationPhases and the quick spawn are done: the workflow starts, against its timer.
SetsUp ==
    /\ command = "setup" /\ orders = <<>>
    /\ command' = "running" /\ flow' = "planning"
    /\ timer' = IF spawn.bound THEN "armed" ELSE "off"
    /\ UNCHANGED <<spawn, reviewed, policy, live, crew, orders, tries, done, outcome, review>>

\* GoapExecutor: the actions in order; the first that fails ends the workflow, a dry run skips all.
Action == spawn.manifest[done + 1]
CompletesAction(f) == flow' = f /\ done' = done + 1
Acts ==
    /\ command = "acting"
    /\ \/ /\ done = Len(spawn.manifest)
          /\ command' = "over"
          /\ UNCHANGED <<orders, flow, done>>
       \/ /\ done < Len(spawn.manifest)
          /\ \/ spawn.dry /\ CompletesAction(flow) /\ UNCHANGED <<orders, command>>
             \/ /\ ~spawn.dry /\ Action.type = "deploy_agents"
                /\ orders' = Placed(Action.agents) /\ command' = "deploying"
                /\ UNCHANGED <<flow, done>>
             \/ /\ ~spawn.dry /\ Action.type = "task" /\ flow = "none"
                /\ flow' = "planning"
                /\ UNCHANGED <<orders, command, done>>
             \/ /\ ~spawn.dry /\ Action.type = "task" /\ flow = "ended"
                /\ CompletesAction("none") /\ UNCHANGED <<orders, command>>
             \/ /\ ~spawn.dry /\ Action.type = "task" /\ flow = "failed"
                /\ command' = "threw" /\ UNCHANGED <<orders, flow, done>>
             \/ /\ ~spawn.dry /\ Action.type \notin {"deploy_agents", "task"}    \* files, mesh, swarm, sleep
                /\ \/ CompletesAction(flow) /\ UNCHANGED <<orders, command>>
                   \/ command' = "threw" /\ UNCHANGED <<orders, flow, done>>
    /\ UNCHANGED <<spawn, reviewed, policy, live, crew, tries, outcome, timer, review>>
CrewStands ==
    /\ command = "deploying" /\ orders = <<>>
    /\ command' = "acting" /\ CompletesAction(flow)
    /\ UNCHANGED <<spawn, reviewed, policy, live, crew, orders, tries, outcome, timer, review>>

\* executeTask: it plans and stores, then waits for the tasks of its stages.
Plans ==
    /\ flow = "planning"
    /\ flow' \in {"waiting", "failed"}
    /\ UNCHANGED <<spawn, reviewed, policy, live, crew, orders, command, tries, done, outcome, timer, review>>
StagesEnd ==
    /\ flow = "waiting" /\ live
    /\ \/ flow' = "ended" /\ \E o \in Artifacts : outcome' = <<o>>
       \/ flow' = "failed" /\ UNCHANGED outcome
    /\ UNCHANGED <<spawn, reviewed, policy, live, crew, orders, command, tries, done, timer, review>>
\* A task given to a scheduler that was stopped waits for its own time-out.
TaskTimesOut ==
    /\ flow = "waiting" /\ flow' = "failed"
    /\ UNCHANGED <<spawn, reviewed, policy, live, crew, orders, command, tries, done, outcome, timer, review>>

\* The race is won by the workflow: the vote or the end.
WorkflowReturns ==
    /\ command = "running" /\ flow \in {"ended", "failed"}
    /\ IF flow = "failed" THEN command' = "threw" /\ UNCHANGED review
       ELSE IF spawn.kind # "classic" \/ ~reviewed \/ Coordinators = {}
            THEN command' = "over" /\ UNCHANGED review
       ELSE /\ command' = "reviewing"
            /\ review' = <<[accepted |-> Accepted(outcome[1]), voters |-> Cardinality(Coordinators),
                            required |-> Manager!TermsNow.required]>>
    /\ UNCHANGED <<spawn, reviewed, policy, live, crew, orders, tries, done, flow, outcome, timer>>

\* The decision is announced, or the manager's timer turned the proposal down.
ReviewReturns ==
    /\ command = "reviewing" /\ command' = "over"
    /\ UNCHANGED <<spawn, reviewed, policy, live, crew, orders, tries, done, flow, outcome, timer, review>>

\* The timer of the race is never cleared: it keeps the process, and rejects a command that waits.
TimerFires ==
    /\ timer = "armed" /\ timer' = "fired"
    /\ command' = IF command = "running" THEN "threw" ELSE command
    /\ UNCHANGED <<spawn, reviewed, policy, live, crew, orders, tries, done, flow, outcome, review>>

\* handleScaleDown retires idle agents, of these types only.
Retirable == {"knowledge_worker", "communication_worker", "review_worker", "analyst_worker",
              "automation_worker", "simulation_worker", "performance_worker", "memory_worker"}
Retires ==
    /\ live /\ command \in {"running", "acting"}
    /\ \E a \in crew : a[1] \in Retirable /\ crew' = crew \ {a}
    /\ UNCHANGED <<spawn, reviewed, policy, live, orders, command, tries, done, flow, outcome, timer, review>>

\* useSystem closes the session: who waits for a task is rejected, a workflow that still plans is
\* not, and goes on.
Closes ==
    /\ command \in {"over", "threw"} /\ live
    /\ live' = FALSE /\ crew' = {}
    /\ flow' = IF flow = "waiting" THEN "failed" ELSE flow
    /\ UNCHANGED <<spawn, reviewed, policy, orders, command, tries, done, outcome, timer, review>>

HiveWork ==
    Deploys \/ Primes \/ StartsPlain \/ SetsUp \/ Acts \/ CrewStands
    \/ Plans \/ TaskTimesOut \/ WorkflowReturns \/ ReviewReturns \/ TimerFires \/ Closes
HiveStep == HiveWork \/ StagesEnd \/ Retires

HiveAtRest == command \in {"over", "threw"} /\ ~live /\ flow \in {"none", "ended", "failed"} /\ timer # "armed"

-----------------------------------------------------------------------------
(* Properties.                                                              *)

\* What the vote reports follows the outcome: it never approves what failed validation or has
\* blocking lint findings, and turns down a clean outcome only when the coordinators who vote are
\* fewer than the votes required (orchestrateConsensus, calculateRequirements).
ReviewReflectsOutcome ==
    review # <<>> =>
        LET clean == outcome[1].validation # "failed" /\ outcome[1].lint \notin {"error", "fatal"}
        IN  /\ review[1].accepted => clean
            /\ (clean /\ review[1].voters >= review[1].required) => review[1].accepted
=============================================================================
