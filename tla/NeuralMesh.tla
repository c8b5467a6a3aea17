----------------------------- MODULE NeuralMesh -----------------------------
(***************************************************************************)
(* NeuralMesh (src/mesh/neural-mesh.ts): a node for every registered       *)
(* agent, connections rebuilt whenever the nodes or the configuration      *)
(* change, a run that a timer ends, and a loop that heals thin nodes.      *)
(* Positions, weights and protocols of connections are left out; which     *)
(* peers a random choice takes is left open.                               *)
(***************************************************************************)
EXTENDS AgentRegistry, Sequences, Functions

CONSTANTS
    ConnectionLimits,  \* the values maxConnections may be given
    DefaultLimit,      \* the one it starts with
    Configurations     \* of the system: see ConfigurationType

Topologies == {"mesh", "ring", "star", "tree", "hybrid"}

\* supportedTopologies and selfHealing.enabled of the mesh, whether maxRunDurationMs of
\* the mesh and of the swarm are positive, and maxAgents of the system.
ConfigurationType ==
    [supported : Seq(Topologies) \ {<<>>}, healing : BOOLEAN,
     meshBounded : BOOLEAN, swarmBounded : BOOLEAN, maxAgents : Nat]

ASSUME MeshAssumption ==
    /\ ConnectionLimits \subseteq Nat \ {0}
    /\ DefaultLimit \in ConnectionLimits
    /\ Configurations \subseteq ConfigurationType

VARIABLES
    links,           \* the nodes' Map: the peers each node is connected to
    topology,
    maxConnections,
    config,          \* of the system
    meshActive,      \* updateInterval is set, and so is dynamicUpdatesActive
    meshTimer,       \* runTimeout is set
    healTimer        \* selfHealingTimer is set

meshRun == <<meshActive, meshTimer, healTimer>>
meshShape == <<topology, maxConnections>>
meshVars == <<links, meshRun, meshShape, config>>

Nodes == DOMAIN links

-----------------------------------------------------------------------------
(* Mutated forms, each a plausible bug of the definition it is named for.   *)

Taken_All(S, k) == S
Parent_Half(p, c, N) ==
    LET i(m) == Cardinality({x \in N : x < m}) IN i(c) > 1 /\ i(p) = i(c) \div 2

-----------------------------------------------------------------------------
(* Connections: which peers a node of N takes, with room for k.             *)

\* The order of the sort by id.
Index(n, N) == Cardinality({m \in N : m < n})
At(i, N) == {m \in N : Index(m, N) = i}

\* addConnection: in the order of the ids until the node is full.
Taken(S, k) == {m \in S : Cardinality({x \in S : x < m}) < k}

RingPeers(n, N, k) ==
    LET size == Cardinality(N)
        prev == At((Index(n, N) + size - 1) % size, N)
        next == At((Index(n, N) + 1) % size, N)
    IN (IF k = 1 THEN prev ELSE prev \cup next) \ {n}

StarPeers(n, N, k) == IF Index(n, N) = 0 THEN Taken(N \ {n}, k) ELSE At(0, N)

Parent(p, c, N) == Index(c, N) > 0 /\ Index(p, N) = (Index(c, N) - 1) \div 2
TreePeers(n, N, k) == Taken({m \in N : Parent(m, n, N) \/ Parent(n, m, N)}, k)

\* establishMeshConnections: random peers are added until the node is full.
Filled(S, n, N, k) ==
    {T \in SUBSET (N \ {n}) :
        /\ S \subseteq T
        /\ Cardinality(T) <= k \/ T = S
        /\ Cardinality(T) >= k \/ T = N \ {n}}

\* establishConnections, of a node that has no connection yet.
PeerChoices(n, N, shape, k) ==
    CASE shape = "ring" -> {RingPeers(n, N, k)}
      [] shape = "star" -> {StarPeers(n, N, k)}
      [] shape = "tree" -> {TreePeers(n, N, k)}
      [] shape = "hybrid" -> Filled(RingPeers(n, N, k), n, N, k)
      [] OTHER -> Filled({}, n, N, k)

\* rebuildConnections: every node starts again.
Rebuilt(N, shape, k) ==
    links' \in {f \in [N -> UNION {PeerChoices(n, N, shape, k) : n \in N}] :
                    \A n \in N : f[n] \in PeerChoices(n, N, shape, k)}

\* performSelfHealing on one node: an isolated one is connected again, a thin one gets
\* random peers, whatever the topology.
Healed(n) ==
    IF links[n] = {} THEN PeerChoices(n, Nodes, topology, maxConnections)
    ELSE IF Cardinality(links[n]) < maxConnections \div 2
    THEN Filled(links[n], n, Nodes, maxConnections)
    ELSE {links[n]}

-----------------------------------------------------------------------------
(* Operations.                                                              *)

\* activateUpdates: the timer starts anew, also when the run is on already.
ActivateUpdates ==
    /\ meshActive' = TRUE
    /\ meshTimer' = config.meshBounded
    /\ healTimer' = config.healing

\* stopDynamicUpdates.
StopUpdates ==
    /\ meshActive' = FALSE
    /\ meshTimer' = FALSE
    /\ healTimer' = FALSE

\* setTopology falls back to "mesh"; configure then takes the first of the list when
\* the result is not in it.
Configured(asked, list) ==
    LET set == IF asked \in Range(list) THEN asked ELSE "mesh" IN
    IF set \in Range(list) THEN set ELSE list[1]

\* addNode for every agent of S.
AddNodes(S) ==
    /\ Rebuilt(Nodes \cup S, topology, maxConnections)
    /\ UNCHANGED <<meshRun, meshShape, config>>

\* removeNode(a), after addNode for the agents that replace it; an agent that joined before
\* a shutdown cleared the mesh has no node.
RemoveNode(a, new) ==
    /\ IF a \notin Nodes /\ new = {} THEN UNCHANGED links
       ELSE Rebuilt((Nodes \cup new) \ {a}, topology, maxConnections)
    /\ UNCHANGED <<meshRun, meshShape, config>>

\* initialize and the configure that follows it.
MeshInitialize ==
    /\ topology' = Configured("mesh", config.supported)
    /\ ActivateUpdates
    /\ UNCHANGED <<links, maxConnections, config>>

\* configure with everything createNeuralMesh passes.
Configure(asked, k) ==
    /\ topology' = Configured(asked, config.supported)
    /\ maxConnections' = k
    /\ Rebuilt(Nodes, topology', k)
    /\ ActivateUpdates
    /\ UNCHANGED config

\* configure with maxConnections alone.
Connections(k) ==
    /\ maxConnections' = k
    /\ Rebuilt(Nodes, topology, k)
    /\ ActivateUpdates
    /\ UNCHANGED <<topology, config>>

\* The timer of the run.
MeshTimeout ==
    /\ meshTimer
    /\ StopUpdates
    /\ UNCHANGED <<links, meshShape, config>>

\* The healing timer, and the update interval of a mesh that is running.
SelfHealing ==
    /\ healTimer
    /\ links' \in {f \in [Nodes -> UNION {Healed(n) : n \in Nodes}] :
                       \A n \in Nodes : f[n] \in Healed(n)}
    /\ UNCHANGED <<meshRun, meshShape, config>>

MeshShutdown ==
    /\ StopUpdates
    /\ links' = <<>>
    /\ UNCHANGED <<meshShape, config>>

-----------------------------------------------------------------------------
(* Parts of the properties of AgentFabric.                                  *)

MeshTypeOK ==
    /\ links \in [Nodes -> SUBSET Agents] /\ Nodes \subseteq Agents
    /\ topology \in Topologies
    /\ maxConnections \in ConnectionLimits
    /\ config \in Configurations
    /\ meshActive \in BOOLEAN /\ meshTimer \in BOOLEAN /\ healTimer \in BOOLEAN

\* Nodes are linked to other nodes, and to as many as there is room for.
PeersPresent == \A n \in Nodes : links[n] \subseteq Nodes \ {n}
LimitKept == \A n \in Nodes : Cardinality(links[n]) <= maxConnections

\* The timers of a run come and go with it.
MeshRunBounded ==
    /\ meshTimer <=> meshActive /\ config.meshBounded
    /\ healTimer <=> meshActive /\ config.healing
=============================================================================
