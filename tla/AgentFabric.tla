----------------------------- MODULE AgentFabric -----------------------------
(***************************************************************************)
(* The neural mesh and the swarm coordinator over one agent registry, as   *)
(* CodexSynapticSystem (src/core/system.ts) composes them: both listen to  *)
(* the registry's events, each has a run that a timer ends, and the system *)
(* starts, configures and shuts down both.                                 *)
(***************************************************************************)
EXTENDS NeuralMesh, SwarmCoordinator

CONSTANTS
    ConfiguredLimit,  \* config.mesh.maxConnections
    MinAgents         \* scaling.minAgents; 0 when redeployOnFailure is off

ASSUME FabricAssumption == ConfiguredLimit \in ConnectionLimits /\ MinAgents \in Nat

VARIABLE phase  \* "new", "up", "closing" (between the two shutdowns), "down"

vars == <<registryVars, meshVars, swarmVars, phase>>

Init ==
    /\ phase = "new"
    /\ unused = Agents /\ registered = {}
    /\ links = <<>>
    /\ topology = "mesh"
    /\ config \in Configurations
    /\ maxConnections = DefaultLimit
    /\ meshActive = FALSE /\ meshTimer = FALSE /\ healTimer = FALSE
    /\ algorithm = None /\ optimizing = FALSE /\ swarmTimer = FALSE
    /\ particles = {} /\ edges = {}

-----------------------------------------------------------------------------

Initialize ==
    /\ phase = "new" /\ phase' = "up"
    /\ MeshInitialize
    /\ UNCHANGED <<registryVars, swarmVars>>

\* How many agents deployAgent has room for.
Slots(taken) == config.maxAgents - Cardinality(taken)

\* isInitialized stays true when the system is shut down: every operation of a system
\* that has been initialized remains open.
Deploy(S) ==
    /\ phase # "new"
    /\ Cardinality(S) <= Slots(registered)
    /\ RegisterAgents(S)
    /\ AddNodes(S)
    /\ AgentsRegistered(S)
    /\ UNCHANGED phase

\* handleAgentUnregistered: below minAgents it deploys one agent, unless resources are short.
Replacements(left) ==
    {{}} \cup {{b} : b \in {b \in unused : Cardinality(left) < MinAgents /\ Slots(left) > 0}}

\* retireIdleWorkers on one agent.
Retire(a) ==
    /\ \E new \in Replacements(registered \ {a}) :
        /\ UnregisterAgent(a, new)
        /\ RemoveNode(a, new)
        /\ AgentUnregistered(a, new)
    /\ UNCHANGED phase

CreateNeuralMesh(asked) ==
    /\ phase # "new"
    /\ Configure(asked, ConfiguredLimit)
    /\ UNCHANGED <<registryVars, swarmVars, phase>>

\* The --connections option of the mesh command.
SetConnections(k) ==
    /\ phase # "new"
    /\ Connections(k)
    /\ UNCHANGED <<registryVars, swarmVars, phase>>

MeshTimes == (MeshTimeout \/ SelfHealing) /\ UNCHANGED <<registryVars, swarmVars, phase>>

StartOptimizing(chosen) ==
    /\ phase # "new"
    /\ StartSwarm(chosen, config.swarmBounded)
    /\ UNCHANGED <<registryVars, meshVars, phase>>

StopOptimizing ==
    /\ phase # "new"
    /\ StopSwarm
    /\ UNCHANGED <<registryVars, meshVars, phase>>

SwarmTimes == (SwarmTimeout \/ OptimizationStep) /\ UNCHANGED <<registryVars, meshVars, phase>>

\* shutdown awaits one component before it turns to the next.
ShutdownSwarm ==
    /\ phase = "up" /\ phase' = "closing"
    /\ SwarmShutdown
    /\ UNCHANGED <<registryVars, meshVars>>

ShutdownMesh ==
    /\ phase = "closing" /\ phase' = "down"
    /\ MeshShutdown
    /\ UNCHANGED <<registryVars, swarmVars>>

Next ==
    \/ Initialize
    \/ \E S \in SUBSET unused : Deploy(S)
    \/ \E a \in registered : Retire(a)
    \/ \E asked \in Topologies : CreateNeuralMesh(asked)
    \/ \E k \in ConnectionLimits : SetConnections(k)
    \/ MeshTimes
    \/ \E chosen \in Algorithms : StartOptimizing(chosen)
    \/ StopOptimizing
    \/ SwarmTimes
    \/ ShutdownSwarm
    \/ ShutdownMesh

Spec == Init /\ [][Next]_vars

-----------------------------------------------------------------------------
(* Properties.                                                              *)

TypeOK ==
    /\ phase \in {"new", "up", "closing", "down"}
    /\ RegistryTypeOK /\ MeshTypeOK /\ SwarmTypeOK

\* No node is linked to itself or to an agent that has left, nor to more peers than
\* maxConnections, whatever was retired, deployed, reconfigured or healed before.
LinksSound == PeersPresent /\ LimitKept

\* While the system is up the mesh has a node for every registered agent and for no other;
\* so has a configured swarm run its particles.
MembershipFollows ==
    /\ phase \in {"up", "closing"} => Nodes = registered
    /\ particles \subseteq registered
    /\ phase = "up" /\ algorithm # None => optimizing /\ particles = registered

\* There are never more agents than maxAgents, also when one is replaced from within the event
\* that reports it gone.
CapacityHolds == Cardinality(registered) <= config.maxAgents

\* What a message can reach from the nodes of S, whoever opened the connections.
Neighbours(S) == S \cup (UNION {links[n] : n \in S}) \cup {m \in Nodes : links[m] \cap S # {}}

\* A ring, star, tree or hybrid mesh is one piece: no set of its nodes is cut off from the
\* others, even with one connection per node and after nodes in its middle have left.
Connected ==
    topology # "mesh" => \A S \in (SUBSET Nodes) \ {{}, Nodes} : Neighbours(S) # S

\* The topology is one the configuration supports once the system is up.
TopologySupported == phase # "new" => topology \in Range(config.supported)

\* A run with a maximum duration always has the timer that ends it, and neither that timer
\* nor the healing loop outlives the run.
RunsAreBounded == MeshRunBounded /\ (swarmTimer <=> optimizing /\ config.swarmBounded)

\* findHighestPheromoneNeighbor weighs every pair of particles of a run: addParticle gave each
\* pair an edge, in whatever order agents and run came.
EdgesCover == phase = "up" => Pairs(particles) \subseteq edges

\* An optimization loop has a configuration to work with (coordinator.ts:69, "Swarm already
\* active; restarting with new configuration").  The code does not keep it.
OptimizingIsConfigured == optimizing => algorithm # None
=============================================================================
