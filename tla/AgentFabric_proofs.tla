------------------------- MODULE AgentFabric_proofs -------------------------
(***************************************************************************)
(* Proofs about AgentFabric, for any agents, limits and configurations.    *)
(* Inv, the conjunction of the properties proved but CapacityHolds, is     *)
(* inductive: that particles follow the registry needs that a run and its  *)
(* configuration come and go together while the system is up, and that     *)
(* peers are present needs the mesh's nodes to be agents.                  *)
(***************************************************************************)
EXTENDS AgentFabric, FiniteSetTheorems, TLAPS

USE AgentsAssumption, MeshAssumption, SwarmAssumption, FabricAssumption

MeshInv == MeshTypeOK /\ PeersPresent /\ MeshRunBounded

\* Before the system is initialized nobody has joined and nothing runs.
Fresh == phase = "new" => Nodes = registered /\ algorithm = None /\ ~optimizing

Inv ==
    /\ phase \in {"new", "up", "closing", "down"}
    /\ RegistryTypeOK /\ SwarmTypeOK /\ MeshInv
    /\ Fresh /\ MembershipFollows /\ TopologySupported
    /\ swarmTimer <=> optimizing /\ config.swarmBounded

-----------------------------------------------------------------------------
(* The connections.                                                         *)

\* Positions in the order of the ids are numbers.
LEMMA IndexType ==
    ASSUME NEW N, IsFiniteSet(N), NEW n
    PROVE  Index(n, N) \in Nat
<1>1. IsFiniteSet({m \in N : m < n})
  BY FS_Subset
<1> QED BY <1>1, FS_CardinalityType DEF Index

\* A parent is another node.
LEMMA ParentDiffers ==
    ASSUME NEW N, IsFiniteSet(N), NEW n
    PROVE  ~Parent(n, n, N)
<1>1. Index(n, N) \in Nat
  BY IndexType
<1> QED BY <1>1 DEF Parent

\* Whatever the topology, a node takes its peers among the other nodes.
LEMMA PeersInside ==
    ASSUME NEW N, IsFiniteSet(N), NEW n \in N, NEW shape, NEW k,
           NEW T \in PeerChoices(n, N, shape, k)
    PROVE  T \subseteq N \ {n}
<1>1. RingPeers(n, N, k) \subseteq N \ {n}
  BY DEF RingPeers, At
<1>2. StarPeers(n, N, k) \subseteq N \ {n}
  BY DEF StarPeers, Taken, At
<1>3. TreePeers(n, N, k) \subseteq N \ {n}
  BY ParentDiffers DEF TreePeers, Taken
<1>4. \A S : Filled(S, n, N, k) \subseteq SUBSET (N \ {n})
  BY DEF Filled
<1> QED BY <1>1, <1>2, <1>3, <1>4 DEF PeerChoices

\* A rebuilt mesh has exactly the nodes it is rebuilt for, linked to one another.
LEMMA RebuiltSound ==
    ASSUME NEW N, N \subseteq Agents, NEW shape, NEW k, Rebuilt(N, shape, k)
    PROVE  links' \in [N -> SUBSET Agents] /\ Nodes' = N /\ PeersPresent'
<1>1. IsFiniteSet(N)
  BY FS_Subset
<1>2. \A n \in N : \A T \in PeerChoices(n, N, shape, k) : T \subseteq N \ {n}
  BY <1>1, PeersInside
<1>3. DOMAIN links' = N /\ links' = [n \in N |-> links'[n]]
  BY DEF Rebuilt
<1>4. \A n \in N : links'[n] \in PeerChoices(n, N, shape, k)
  BY DEF Rebuilt
<1>5. \A n \in N : links'[n] \subseteq N \ {n}
  BY <1>2, <1>4
<1> QED BY <1>3, <1>5 DEF Nodes, PeersPresent

\* So has a healed one.
LEMMA HealedSound ==
    ASSUME MeshTypeOK, PeersPresent, SelfHealing
    PROVE  links' \in [Nodes -> SUBSET Agents] /\ Nodes' = Nodes /\ PeersPresent'
<1>1. Nodes \subseteq Agents /\ IsFiniteSet(Nodes)
  BY FS_Subset DEF MeshTypeOK
<1>2. ASSUME NEW n \in Nodes, NEW T \in Healed(n)
      PROVE  T \subseteq Nodes \ {n}
  <2>1. CASE T \in PeerChoices(n, Nodes, topology, maxConnections)
    BY <1>1, <2>1, PeersInside
  <2>2. CASE T \in Filled(links[n], n, Nodes, maxConnections)
    BY <2>2 DEF Filled
  <2>3. CASE T = links[n]
    BY <2>3 DEF PeersPresent
  <2> QED BY <1>2, <2>1, <2>2, <2>3 DEF Healed
<1>3. DOMAIN links' = Nodes /\ links' = [n \in Nodes |-> links'[n]]
  BY DEF SelfHealing
<1>4. \A n \in Nodes : links'[n] \in Healed(n)
  BY DEF SelfHealing
<1>5. \A n \in Nodes : links'[n] \subseteq Nodes \ {n}
  BY <1>2, <1>4
<1> QED BY <1>1, <1>3, <1>5 DEF Nodes, PeersPresent

\* The topology configure ends up with is in the configured list.
LEMMA ConfiguredSupported ==
    ASSUME NEW c \in Configurations, NEW asked
    PROVE  Configured(asked, c.supported) \in Range(c.supported) \cap Topologies
<1>1. c.supported \in Seq(Topologies) /\ c.supported # <<>>
  BY DEF ConfigurationType
<1>2. 1 \in DOMAIN c.supported /\ Range(c.supported) \subseteq Topologies
  BY <1>1 DEF Range
<1> QED BY <1>2 DEF Configured, Range

\* The settings of a configuration are Boolean.
LEMMA SettingsType ==
    ASSUME NEW c \in Configurations
    PROVE  {c.healing, c.meshBounded, c.swarmBounded} \subseteq BOOLEAN
BY DEF ConfigurationType

\* Pairs of some agents are pairs of more agents.
LEMMA PairsMonotone ==
    ASSUME NEW A, NEW B, A \subseteq B
    PROVE  Pairs(A) \subseteq Pairs(B)
<1> SUFFICES ASSUME NEW e \in Pairs(A) PROVE e \in Pairs(B)
  OBVIOUS
<1>1. PICK p \in A, q \in A : e = {p, q}
  BY DEF Pairs
<1>2. p # q
  BY <1>1 DEF Pairs
<1>3. \A x : e # {x}
  BY <1>1, <1>2
<1> QED BY <1>1, <1>3 DEF Pairs

-----------------------------------------------------------------------------
(* What the operations of the mesh keep.                                    *)

LEMMA AddNodesKeep ==
    ASSUME MeshInv, NEW S, S \subseteq Agents, AddNodes(S)
    PROVE  MeshInv' /\ Nodes' = Nodes \cup S /\ UNCHANGED <<topology, config>>
<1>1. Nodes \cup S \subseteq Agents
  BY DEF MeshInv, MeshTypeOK
<1>2. links' \in [Nodes \cup S -> SUBSET Agents] /\ Nodes' = Nodes \cup S /\ PeersPresent'
  BY <1>1, RebuiltSound DEF AddNodes
<1> QED BY <1>1, <1>2 DEF AddNodes, MeshInv, MeshTypeOK, MeshRunBounded, meshRun, meshShape

LEMMA RemoveNodeKeep ==
    ASSUME MeshInv, NEW a, NEW new, new \subseteq Agents, RemoveNode(a, new)
    PROVE  MeshInv' /\ Nodes' = (Nodes \cup new) \ {a} /\ UNCHANGED <<topology, config>>
<1> DEFINE N == (Nodes \cup new) \ {a}
<1>1. N \subseteq Agents
  BY DEF MeshInv, MeshTypeOK
<1>2. links' \in [N -> SUBSET Agents] /\ Nodes' = N /\ PeersPresent'
  <2>1. CASE a \notin Nodes /\ new = {}
    <3>1. links' = links /\ N = Nodes
      BY <2>1 DEF RemoveNode
    <3> QED BY <3>1 DEF MeshInv, MeshTypeOK, PeersPresent, Nodes
  <2>2. CASE ~(a \notin Nodes /\ new = {})
    BY <1>1, <2>2, RebuiltSound DEF RemoveNode
  <2> QED BY <2>1, <2>2
<1> QED BY <1>1, <1>2 DEF RemoveNode, MeshInv, MeshTypeOK, MeshRunBounded, meshRun, meshShape

LEMMA ConfigureKeep ==
    ASSUME MeshInv, NEW asked, NEW k \in ConnectionLimits, Configure(asked, k)
    PROVE  MeshInv' /\ Nodes' = Nodes /\ config' = config /\ topology' \in Range(config.supported)
<1>1. links' \in [Nodes -> SUBSET Agents] /\ Nodes' = Nodes /\ PeersPresent'
  BY RebuiltSound DEF Configure, MeshInv, MeshTypeOK
<1>2. topology' \in Range(config.supported) \cap Topologies
  BY ConfiguredSupported DEF Configure, MeshInv, MeshTypeOK
<1>3. config.meshBounded \in BOOLEAN /\ config.healing \in BOOLEAN
  BY SettingsType DEF MeshInv, MeshTypeOK
<1> QED BY <1>1, <1>2, <1>3
        DEF Configure, ActivateUpdates, MeshInv, MeshTypeOK, MeshRunBounded

LEMMA ConnectionsKeep ==
    ASSUME MeshInv, NEW k \in ConnectionLimits, Connections(k)
    PROVE  MeshInv' /\ Nodes' = Nodes /\ UNCHANGED <<topology, config>>
<1>1. links' \in [Nodes -> SUBSET Agents] /\ Nodes' = Nodes /\ PeersPresent'
  BY RebuiltSound DEF Connections, MeshInv, MeshTypeOK
<1>2. config.meshBounded \in BOOLEAN /\ config.healing \in BOOLEAN
  BY SettingsType DEF MeshInv, MeshTypeOK
<1> QED BY <1>1, <1>2
        DEF Connections, ActivateUpdates, MeshInv, MeshTypeOK, MeshRunBounded

LEMMA MeshInitializeKeep ==
    ASSUME MeshInv, MeshInitialize
    PROVE  MeshInv' /\ Nodes' = Nodes /\ config' = config /\ topology' \in Range(config.supported)
<1>1. topology' \in Range(config.supported) \cap Topologies
  BY ConfiguredSupported DEF MeshInitialize, MeshInv, MeshTypeOK
<1>2. config.meshBounded \in BOOLEAN /\ config.healing \in BOOLEAN
  BY SettingsType DEF MeshInv, MeshTypeOK
<1>3. Nodes' = Nodes /\ PeersPresent'
  BY DEF MeshInitialize, MeshInv, PeersPresent, Nodes
<1> QED BY <1>1, <1>2, <1>3
        DEF MeshInitialize, ActivateUpdates, MeshInv, MeshTypeOK, MeshRunBounded

LEMMA MeshTimesKeep ==
    ASSUME MeshInv, MeshTimeout \/ SelfHealing
    PROVE  MeshInv' /\ Nodes' = Nodes /\ UNCHANGED <<topology, config>>
<1>1. CASE MeshTimeout
  <2>1. Nodes' = Nodes /\ PeersPresent'
    BY <1>1 DEF MeshTimeout, MeshInv, PeersPresent, Nodes
  <2> QED BY <1>1, <2>1
          DEF MeshTimeout, StopUpdates, MeshInv, MeshTypeOK, MeshRunBounded, meshShape
<1>2. CASE SelfHealing
  <2>1. links' \in [Nodes -> SUBSET Agents] /\ Nodes' = Nodes /\ PeersPresent'
    BY <1>2, HealedSound DEF MeshInv
  <2> QED BY <1>2, <2>1
          DEF SelfHealing, MeshInv, MeshTypeOK, MeshRunBounded, meshRun, meshShape
<1> QED BY <1>1, <1>2

LEMMA MeshShutdownKeep ==
    ASSUME MeshInv, MeshShutdown
    PROVE  MeshInv' /\ UNCHANGED <<topology, config>>
<1>1. links' = <<>> /\ Nodes' = {} /\ links' \in [{} -> SUBSET Agents]
  BY DEF MeshShutdown, Nodes
<1> QED BY <1>1
        DEF MeshShutdown, StopUpdates, MeshInv, MeshTypeOK, PeersPresent, MeshRunBounded, meshShape

-----------------------------------------------------------------------------
(* What the operations of the swarm keep.                                   *)

\* addParticle in the handlers: everybody of S joins a configured run.
LEMMA JoinedSound ==
    ASSUME SwarmTypeOK, NEW S, S \subseteq Agents
    PROVE  /\ Joined(S)[1] = IF algorithm = None THEN particles ELSE particles \cup S
           /\ Joined(S)[1] \subseteq Agents
           /\ Joined(S)[2] \subseteq Pairs(Agents)
<1>1. Pairs(particles \cup S) \subseteq Pairs(Agents)
  BY PairsMonotone DEF SwarmTypeOK
<1>2. Linked(edges, particles, S) \subseteq Pairs(Agents)
  BY <1>1 DEF Linked, SwarmTypeOK
<1>3. CASE algorithm = None
  BY <1>3 DEF Joined, SwarmTypeOK
<1>4. CASE algorithm # None
  BY <1>2, <1>4 DEF Joined, Populated, SwarmTypeOK
<1> QED BY <1>3, <1>4

LEMMA StartSwarmKeep ==
    ASSUME SwarmTypeOK, RegistryTypeOK, particles \subseteq registered,
           NEW chosen \in Algorithms, NEW bounded \in BOOLEAN, StartSwarm(chosen, bounded)
    PROVE  /\ SwarmTypeOK'
           /\ optimizing' = TRUE /\ swarmTimer' = bounded
           /\ IF algorithm' = None THEN particles' = {} ELSE particles' = registered
<1>1. CASE optimizing
  BY <1>1 DEF StartSwarm, SwarmTypeOK
<1>2. CASE ~optimizing
  <2>1. particles' = registered /\ algorithm' = chosen
    BY <1>2 DEF StartSwarm, Populated
  <2>2. Pairs(particles \cup registered) \subseteq Pairs(Agents)
    BY PairsMonotone DEF SwarmTypeOK, RegistryTypeOK
  <2>3. edges' \subseteq Pairs(Agents)
    BY <1>2, <2>2 DEF StartSwarm, Linked
  <2> QED BY <2>1, <2>3 DEF StartSwarm, SwarmTypeOK, RegistryTypeOK
<1> QED BY <1>1, <1>2

-----------------------------------------------------------------------------
(* The inductive invariant.                                                 *)

LEMMA InitInv == Init => Inv
<1> SUFFICES ASSUME Init PROVE Inv
  OBVIOUS
<1>1. Nodes = {} /\ links \in [{} -> SUBSET Agents]
  BY DEF Init, Nodes
<1>2. MeshInv
  BY <1>1 DEF Init, MeshInv, MeshTypeOK, PeersPresent, MeshRunBounded, Topologies
<1>3. SwarmTypeOK
  BY DEF Init, SwarmTypeOK
<1>4. RegistryTypeOK
  BY DEF Init, RegistryTypeOK
<1> QED BY <1>1, <1>2, <1>3, <1>4
        DEF Init, Inv, Fresh, MembershipFollows, TopologySupported

\* Nothing of the swarm or of the registry changes.
LEMMA MeshStepInv ==
    ASSUME Inv, MeshInv', Nodes' = Nodes, config' = config,
           topology' = topology \/ topology' \in Range(config.supported),
           phase = "new" => topology' \in Range(config.supported),
           phase' = phase \/ (phase = "new" /\ phase' = "up"),
           UNCHANGED <<registryVars, swarmVars>>
    PROVE  Inv'
<1>1. SwarmTypeOK' /\ RegistryTypeOK'
  BY DEF Inv, SwarmTypeOK, RegistryTypeOK, registryVars, swarmVars
<1>2. (swarmTimer <=> optimizing /\ config.swarmBounded)'
  BY DEF Inv, swarmVars
<1>3. Fresh' /\ MembershipFollows'
  BY DEF Inv, Fresh, MembershipFollows, registryVars, swarmVars
<1>4. TopologySupported'
  BY DEF Inv, TopologySupported
<1> QED BY <1>1, <1>2, <1>3, <1>4 DEF Inv

\* Nothing of the mesh or of the registry changes.
LEMMA SwarmStepInv ==
    ASSUME Inv, UNCHANGED <<registryVars, meshVars>>,
           SwarmTypeOK', swarmTimer' <=> optimizing' /\ config.swarmBounded,
           particles' \subseteq registered,
           phase # "new" /\ (phase' = phase \/ (phase' = "closing" /\ phase = "up")),
           phase' = "up" /\ algorithm' # None => optimizing' /\ particles' = registered
    PROVE  Inv'
<1>1. Nodes' = Nodes /\ MeshInv'
  BY DEF Inv, MeshInv, MeshTypeOK, PeersPresent, MeshRunBounded, meshVars, meshRun, meshShape, Nodes
<1>2. RegistryTypeOK' /\ config' = config /\ topology' = topology /\ registered' = registered
  BY DEF Inv, RegistryTypeOK, registryVars, meshVars, meshShape
<1>3. MembershipFollows' /\ Fresh' /\ TopologySupported'
  BY <1>1, <1>2 DEF Inv, MembershipFollows, Fresh, TopologySupported
<1> QED BY <1>1, <1>2, <1>3 DEF Inv

LEMMA NextInv == Inv /\ [Next]_vars => Inv'
<1> SUFFICES ASSUME Inv, [Next]_vars PROVE Inv'
  OBVIOUS
<1>1. CASE Initialize
  <2>1. MeshInv' /\ Nodes' = Nodes /\ config' = config /\ topology' \in Range(config.supported)
    BY <1>1, MeshInitializeKeep DEF Initialize, Inv
  <2> QED BY <1>1, <2>1, MeshStepInv DEF Initialize
<1>2. ASSUME NEW S \in SUBSET unused, Deploy(S) PROVE Inv'
  <2>1. S \subseteq Agents /\ S \subseteq unused
    BY DEF Inv, RegistryTypeOK
  <2>2. MeshInv' /\ Nodes' = Nodes \cup S /\ UNCHANGED <<topology, config, phase>>
    BY <1>2, <2>1, AddNodesKeep DEF Deploy, Inv
  <2>3. RegistryTypeOK' /\ registered' = registered \cup S
    BY <1>2, <2>1 DEF Deploy, RegisterAgents, Inv, RegistryTypeOK
  <2>4. /\ SwarmTypeOK' /\ UNCHANGED <<algorithm, optimizing, swarmTimer>>
        /\ particles' = IF algorithm = None THEN particles ELSE particles \cup S
    BY <1>2, <2>1, JoinedSound DEF Deploy, AgentsRegistered, Inv, SwarmTypeOK
  <2>5. phase # "new"
    BY <1>2 DEF Deploy
  <2>6. MembershipFollows'
    BY <2>2, <2>3, <2>4 DEF Inv, MembershipFollows
  <2> QED BY <2>2, <2>3, <2>4, <2>5, <2>6 DEF Inv, Fresh, TopologySupported
<1>3. ASSUME NEW a \in registered, Retire(a) PROVE Inv'
  <2>1. PICK new \in Replacements(registered \ {a}) :
            UnregisterAgent(a, new) /\ RemoveNode(a, new) /\ AgentUnregistered(a, new)
    BY <1>3 DEF Retire
  <2>2. new \subseteq unused /\ new \subseteq Agents /\ a \notin new /\ phase' = phase
    BY <1>3, <2>1 DEF UnregisterAgent, Inv, RegistryTypeOK, Retire
  <2>3. MeshInv' /\ Nodes' = (Nodes \cup new) \ {a} /\ UNCHANGED <<topology, config>>
    BY <2>1, <2>2, RemoveNodeKeep DEF Inv
  <2>4. RegistryTypeOK' /\ registered' = (registered \cup new) \ {a}
    BY <2>1, <2>2 DEF UnregisterAgent, Inv, RegistryTypeOK
  <2>5. /\ SwarmTypeOK' /\ UNCHANGED <<algorithm, optimizing, swarmTimer>>
        /\ particles' = (IF algorithm = None THEN particles ELSE particles \cup new) \ {a}
    BY <2>1, <2>2, JoinedSound DEF AgentUnregistered, Inv, SwarmTypeOK
  <2>6. MembershipFollows' /\ Fresh'
    BY <2>2, <2>3, <2>4, <2>5 DEF Inv, MembershipFollows, Fresh
  <2> QED BY <2>2, <2>3, <2>4, <2>5, <2>6 DEF Inv, TopologySupported
<1>4. ASSUME NEW asked \in Topologies, CreateNeuralMesh(asked) PROVE Inv'
  <2>1. MeshInv' /\ Nodes' = Nodes /\ config' = config /\ topology' \in Range(config.supported)
    BY <1>4, ConfigureKeep DEF CreateNeuralMesh, Inv
  <2> QED BY <1>4, <2>1, MeshStepInv DEF CreateNeuralMesh
<1>5. ASSUME NEW k \in ConnectionLimits, SetConnections(k) PROVE Inv'
  <2>1. MeshInv' /\ Nodes' = Nodes /\ UNCHANGED <<topology, config>>
    BY <1>5, ConnectionsKeep DEF SetConnections, Inv
  <2> QED BY <1>5, <2>1, MeshStepInv DEF SetConnections
<1>6. CASE MeshTimes
  <2>1. MeshInv' /\ Nodes' = Nodes /\ UNCHANGED <<topology, config>>
    BY <1>6, MeshTimesKeep DEF MeshTimes, Inv
  <2>2. UNCHANGED <<registryVars, swarmVars, phase>>
    BY <1>6 DEF MeshTimes
  <2>3. SwarmTypeOK' /\ RegistryTypeOK' /\ Fresh' /\ MembershipFollows' /\ TopologySupported'
    BY <2>1, <2>2 DEF Inv, SwarmTypeOK, RegistryTypeOK, Fresh, MembershipFollows,
                      TopologySupported, registryVars, swarmVars
  <2> QED BY <2>1, <2>2, <2>3 DEF Inv, swarmVars
<1>7. ASSUME NEW chosen \in Algorithms, StartOptimizing(chosen) PROVE Inv'
  <2>1. config.swarmBounded \in BOOLEAN
    BY SettingsType DEF Inv, MeshInv, MeshTypeOK
  <2>2. /\ SwarmTypeOK' /\ optimizing' = TRUE /\ swarmTimer' = config.swarmBounded
        /\ IF algorithm' = None THEN particles' = {} ELSE particles' = registered
    BY <1>7, <2>1, StartSwarmKeep DEF StartOptimizing, Inv, MembershipFollows
  <2>3. UNCHANGED <<registryVars, meshVars>> /\ phase' = phase /\ phase # "new"
    BY <1>7 DEF StartOptimizing
  <2> QED BY <2>1, <2>2, <2>3, SwarmStepInv
<1>8. CASE StopOptimizing
  <2>1. UNCHANGED <<registryVars, meshVars>> /\ phase' = phase /\ phase # "new"
    BY <1>8 DEF StopOptimizing
  <2>2. /\ SwarmTypeOK' /\ optimizing' = FALSE /\ swarmTimer' = FALSE
        /\ particles' = {} /\ algorithm' = None
    BY <1>8 DEF StopOptimizing, StopSwarm, Stopped, Inv, SwarmTypeOK
  <2> QED BY <2>1, <2>2, SwarmStepInv
<1>9. CASE SwarmTimes
  <2>1. UNCHANGED <<registryVars, meshVars>> /\ phase' = phase
    BY <1>9 DEF SwarmTimes
  <2>2. CASE SwarmTimeout
    <3>1. phase # "new"
      BY <2>2 DEF SwarmTimeout, Inv, Fresh
    <3>2. /\ SwarmTypeOK' /\ optimizing' = FALSE /\ swarmTimer' = FALSE
          /\ particles' = {} /\ algorithm' = None
      BY <2>2 DEF SwarmTimeout, StopSwarm, Stopped, Inv, SwarmTypeOK
    <3> QED BY <2>1, <3>1, <3>2, SwarmStepInv
  <2>3. CASE OptimizationStep
    <3>1. phase # "new"
      BY <2>3 DEF OptimizationStep, Inv, Fresh
    <3>2. Pairs(particles) \subseteq Pairs(Agents)
      BY PairsMonotone DEF Inv, SwarmTypeOK
    <3>3. SwarmTypeOK' /\ UNCHANGED <<algorithm, optimizing, particles, swarmTimer>>
      BY <2>3, <3>2 DEF OptimizationStep, Inv, SwarmTypeOK
    <3> QED BY <2>1, <3>1, <3>3, SwarmStepInv DEF Inv, MembershipFollows
  <2> QED BY <1>9, <2>2, <2>3 DEF SwarmTimes
<1>10. CASE ShutdownSwarm
  <2>1. UNCHANGED <<registryVars, meshVars>> /\ phase = "up" /\ phase' = "closing"
    BY <1>10 DEF ShutdownSwarm
  <2>2. /\ SwarmTypeOK' /\ optimizing' = FALSE /\ swarmTimer' = FALSE /\ particles' = {}
    BY <1>10 DEF ShutdownSwarm, SwarmShutdown, Inv, SwarmTypeOK
  <2> QED BY <2>1, <2>2, SwarmStepInv
<1>11. CASE ShutdownMesh
  <2>1. UNCHANGED <<registryVars, swarmVars>> /\ phase = "closing" /\ phase' = "down"
    BY <1>11 DEF ShutdownMesh
  <2>2. MeshInv' /\ UNCHANGED <<topology, config>>
    BY <1>11, MeshShutdownKeep DEF ShutdownMesh, Inv
  <2>3. SwarmTypeOK' /\ RegistryTypeOK' /\ Fresh' /\ MembershipFollows' /\ TopologySupported'
    BY <2>1, <2>2 DEF Inv, SwarmTypeOK, RegistryTypeOK, Fresh, MembershipFollows,
                      TopologySupported, registryVars, swarmVars
  <2> QED BY <2>1, <2>2, <2>3 DEF Inv, swarmVars
<1>12. CASE UNCHANGED vars
  <2>1. Nodes' = Nodes /\ MeshInv'
    BY <1>12 DEF vars, Inv, MeshInv, MeshTypeOK, PeersPresent, MeshRunBounded, meshVars,
                 meshRun, meshShape, Nodes
  <2>2. SwarmTypeOK' /\ RegistryTypeOK' /\ Fresh' /\ MembershipFollows' /\ TopologySupported'
    BY <1>12, <2>1 DEF vars, Inv, SwarmTypeOK, RegistryTypeOK, Fresh, MembershipFollows,
                       TopologySupported, registryVars, swarmVars, meshVars, meshShape
  <2> QED BY <1>12, <2>1, <2>2 DEF vars, Inv, swarmVars, meshVars
<1> QED BY <1>1, <1>2, <1>3, <1>4, <1>5, <1>6, <1>7, <1>8, <1>9, <1>10, <1>11, <1>12 DEF Next

-----------------------------------------------------------------------------
(* Theorems.                                                                *)

THEOREM InvHolds == Spec => []Inv
  BY InitInv, NextInv, PTL DEF Spec

\* Every variable keeps its type, whatever agents come and go.
THEOREM TypeCorrect == Spec => []TypeOK
<1>1. Inv => TypeOK
  BY DEF Inv, MeshInv, TypeOK
<1> QED BY <1>1, InvHolds, PTL

\* Mesh and swarm follow the registry, whatever joins, leaves or is replaced from within the
\* event that reports it gone.
THEOREM MembersKnown == Spec => []MembershipFollows
<1>1. Inv => MembershipFollows
  BY DEF Inv
<1> QED BY <1>1, InvHolds, PTL

\* The timers come and go with the runs they end.
THEOREM RunsBounded == Spec => []RunsAreBounded
<1>1. Inv => RunsAreBounded
  BY DEF Inv, MeshInv, RunsAreBounded
<1> QED BY <1>1, InvHolds, PTL

\* An initialized mesh never has a topology the configuration does not support.
THEOREM TopologyKnown == Spec => []TopologySupported
<1>1. Inv => TopologySupported
  BY DEF Inv
<1> QED BY <1>1, InvHolds, PTL

\* No node of the mesh is linked to itself or to an agent that has left it.
THEOREM PeersKnown == Spec => []PeersPresent
<1>1. Inv => PeersPresent
  BY DEF Inv, MeshInv
<1> QED BY <1>1, InvHolds, PTL

-----------------------------------------------------------------------------
(* Capacity.                                                                *)

\* Two sets of agents together have at most as many members as each has.
LEMMA UnionBound ==
    ASSUME NEW A, NEW B, IsFiniteSet(A), IsFiniteSet(B)
    PROVE  /\ Cardinality(A) \in Nat /\ Cardinality(B) \in Nat /\ Cardinality(A \cup B) \in Nat
           /\ Cardinality(A \cup B) <= Cardinality(A) + Cardinality(B)
<1>1. /\ IsFiniteSet(A \cup B) /\ IsFiniteSet(A \cap B)
      /\ Cardinality(A \cup B) = Cardinality(A) + Cardinality(B) - Cardinality(A \cap B)
  BY FS_Union, FS_Intersection
<1>2. /\ Cardinality(A) \in Nat /\ Cardinality(B) \in Nat
      /\ Cardinality(A \cup B) \in Nat /\ Cardinality(A \cap B) \in Nat
  BY <1>1, FS_CardinalityType
<1> QED BY <1>1, <1>2

LEMMA CapacityStep == Inv /\ CapacityHolds /\ [Next]_vars => CapacityHolds'
<1> SUFFICES ASSUME Inv, CapacityHolds, [Next]_vars PROVE CapacityHolds'
  OBVIOUS
<1>1. IsFiniteSet(registered) /\ IsFiniteSet(unused)
  BY FS_Subset DEF Inv, RegistryTypeOK
<1>2. config \in Configurations /\ config.maxAgents \in Nat
  BY DEF Inv, MeshInv, MeshTypeOK, ConfigurationType
<1>3. ASSUME NEW S \in SUBSET unused, Deploy(S) PROVE CapacityHolds'
  <2>1. IsFiniteSet(S)
    BY <1>1, FS_Subset
  <2>2. /\ Cardinality(S) \in Nat /\ Cardinality(registered) \in Nat
        /\ Cardinality(registered \cup S) \in Nat
        /\ Cardinality(registered \cup S) <= Cardinality(registered) + Cardinality(S)
    BY <1>1, <2>1, UnionBound
  <2>3. registered' = registered \cup S /\ config' = config
    BY <1>3 DEF Deploy, RegisterAgents, AddNodes
  <2>4. Cardinality(S) <= config.maxAgents - Cardinality(registered)
    BY <1>3 DEF Deploy, Slots
  <2> QED BY <1>2, <2>2, <2>3, <2>4 DEF CapacityHolds
<1>4. ASSUME NEW a \in registered, Retire(a) PROVE CapacityHolds'
  <2> DEFINE left == registered \ {a}
  <2>1. PICK new \in Replacements(left) :
            UnregisterAgent(a, new) /\ RemoveNode(a, new)
    BY <1>4 DEF Retire
  <2>2. registered' = left \cup new /\ config' = config
    BY <2>1 DEF UnregisterAgent, RemoveNode
  <2>3. /\ IsFiniteSet(left) /\ Cardinality(left) \in Nat /\ Cardinality(registered) \in Nat
        /\ Cardinality(left) <= Cardinality(registered)
    BY <1>1, FS_Subset, FS_CardinalityType
  <2>4. CASE new = {}
    <3>1. registered' = left
      BY <2>2, <2>4
    <3> QED BY <1>2, <2>2, <2>3, <3>1 DEF CapacityHolds
  <2>5. ASSUME NEW b \in unused, new = {b}, Slots(left) > 0 PROVE CapacityHolds'
    <3>1. IsFiniteSet({b}) /\ Cardinality({b}) = 1
      BY FS_Singleton
    <3>2. /\ Cardinality(left \cup {b}) \in Nat
          /\ Cardinality(left \cup {b}) <= Cardinality(left) + Cardinality({b})
      BY <2>3, <3>1, UnionBound
    <3>3. config.maxAgents - Cardinality(left) > 0
      BY <2>5 DEF Slots
    <3> QED BY <1>2, <2>2, <2>3, <2>5, <3>1, <3>2, <3>3 DEF CapacityHolds
  <2> QED BY <2>1, <2>4, <2>5 DEF Replacements
<1>5. ASSUME UNCHANGED <<registered, config>> PROVE CapacityHolds'
  BY <1>5 DEF CapacityHolds
<1>6. ASSUME Initialize \/ (\E t \in Topologies : CreateNeuralMesh(t))
             \/ (\E k \in ConnectionLimits : SetConnections(k)) \/ MeshTimes
             \/ (\E c \in Algorithms : StartOptimizing(c)) \/ StopOptimizing \/ SwarmTimes
             \/ ShutdownSwarm \/ ShutdownMesh \/ UNCHANGED vars
      PROVE  UNCHANGED <<registered, config>>
  BY <1>6 DEF Initialize, MeshInitialize, CreateNeuralMesh, Configure, SetConnections,
              Connections, MeshTimes, MeshTimeout, SelfHealing, StartOptimizing,
              StopOptimizing, SwarmTimes, ShutdownSwarm, ShutdownMesh, MeshShutdown,
              vars, registryVars, meshVars
<1> QED BY <1>3, <1>4, <1>5, <1>6 DEF Next

\* There are never more agents than maxAgents, also when an agent is replaced from within the
\* event that reports it gone.
THEOREM CapacityKept == Spec => []CapacityHolds
<1>1. Init => CapacityHolds
  <2> SUFFICES ASSUME Init PROVE CapacityHolds
    OBVIOUS
  <2>1. Cardinality(registered) = 0
    BY FS_EmptySet DEF Init
  <2>2. config.maxAgents \in Nat
    BY DEF Init, ConfigurationType
  <2> QED BY <2>1, <2>2 DEF CapacityHolds
<1> QED BY <1>1, CapacityStep, InvHolds, PTL DEF Spec

-----------------------------------------------------------------------------
(* Pheromone edges.                                                         *)

\* EdgesCover needs that a swarm without a configuration has no particles: the first run would
\* otherwise find particles it does not link to one another.
EdgeInv ==
    phase \in {"new", "up"} =>
        (algorithm = None => particles = {}) /\ Pairs(particles) \subseteq edges

\* A pair of the members of P and S lies in P or meets what S adds.
LEMMA LinkedCovers ==
    ASSUME NEW P, NEW S, NEW E, Pairs(P) \subseteq E
    PROVE  Pairs(P \cup S) \subseteq Linked(E, P, S)
<1> SUFFICES ASSUME NEW e \in Pairs(P \cup S), e \notin Linked(E, P, S) PROVE FALSE
  OBVIOUS
<1>1. PICK p \in P \cup S, q \in P \cup S : e = {p, q}
  BY DEF Pairs
<1>2. e \cap (S \ P) = {} /\ e \notin E
  BY DEF Linked
<1>3. p \in P /\ q \in P
  BY <1>1, <1>2
<1>4. \A x : e # {x}
  <2>1. p # q
    BY <1>1 DEF Pairs
  <2> QED BY <1>1, <2>1
<1>5. e \in Pairs(P)
  <2>1. e \in {{x, y} : x, y \in P}
    BY <1>1, <1>3
  <2>2. e \notin {{x} : x \in P}
    BY <1>4
  <2> QED BY <2>1, <2>2 DEF Pairs
<1> QED BY <1>2, <1>5

LEMMA EdgeStep == Inv /\ EdgeInv /\ [Next]_vars => EdgeInv'
<1> SUFFICES ASSUME Inv, EdgeInv, [Next]_vars, phase' \in {"new", "up"}
             PROVE  (algorithm' = None => particles' = {}) /\ Pairs(particles') \subseteq edges'
  BY DEF EdgeInv
<1>1. Pairs({}) = {}
  BY DEF Pairs
<1>2. ASSUME phase \in {"new", "up"}, NEW S, S \subseteq Agents, algorithm' = algorithm,
             NEW gone, particles' = Joined(S)[1] \ gone, edges' = Joined(S)[2]
      PROVE  (algorithm' = None => particles' = {}) /\ Pairs(particles') \subseteq edges'
  <2>1. CASE algorithm = None
    BY <1>1, <1>2, <2>1 DEF Joined, EdgeInv
  <2>2. CASE algorithm # None
    <3>1. particles' \subseteq particles \cup S /\ edges' = Linked(edges, particles, S)
      BY <1>2, <2>2 DEF Joined, Populated
    <3>2. Pairs(particles \cup S) \subseteq edges'
      BY <1>2, <3>1, LinkedCovers DEF EdgeInv
    <3>3. Pairs(particles') \subseteq Pairs(particles \cup S)
      BY <3>1, PairsMonotone
    <3> QED BY <1>2, <2>2, <3>2, <3>3
  <2> QED BY <2>1, <2>2
<1>3. ASSUME NEW S \in SUBSET unused, Deploy(S)
      PROVE  (algorithm' = None => particles' = {}) /\ Pairs(particles') \subseteq edges'
  <2>1. S \subseteq Agents /\ phase' = phase
    BY <1>3 DEF Deploy, Inv, RegistryTypeOK
  <2>2. algorithm' = algorithm /\ particles' = Joined(S)[1] \ {} /\ edges' = Joined(S)[2]
    BY <1>3 DEF Deploy, AgentsRegistered
  <2> QED BY <1>2, <2>1, <2>2
<1>4. ASSUME NEW a \in registered, Retire(a)
      PROVE  (algorithm' = None => particles' = {}) /\ Pairs(particles') \subseteq edges'
  <2>1. PICK new \in Replacements(registered \ {a}) :
            UnregisterAgent(a, new) /\ AgentUnregistered(a, new)
    BY <1>4 DEF Retire
  <2>2. new \subseteq Agents /\ phase' = phase
    BY <1>4, <2>1 DEF Retire, UnregisterAgent, Inv, RegistryTypeOK
  <2>3. algorithm' = algorithm /\ particles' = Joined(new)[1] \ {a} /\ edges' = Joined(new)[2]
    BY <2>1 DEF AgentUnregistered
  <2> QED BY <1>2, <2>2, <2>3
<1>5. ASSUME NEW chosen \in Algorithms, StartOptimizing(chosen)
      PROVE  (algorithm' = None => particles' = {}) /\ Pairs(particles') \subseteq edges'
  <2>1. StartSwarm(chosen, config.swarmBounded) /\ phase = "up"
    BY <1>5 DEF StartOptimizing
  <2>2. CASE optimizing
    BY <1>1, <2>1, <2>2 DEF StartSwarm
  <2>3. CASE ~optimizing
    <3>1. particles = {}
      BY <2>1, <2>3 DEF EdgeInv, Inv, MembershipFollows
    <3>2. algorithm' # None /\ particles' = {} \cup registered /\ edges' = Linked({}, {}, registered)
      BY <2>1, <2>3, <3>1 DEF StartSwarm, Populated
    <3> QED BY <1>1, <3>2, LinkedCovers
  <2> QED BY <2>2, <2>3
<1>6. ASSUME particles' = {}
      PROVE  (algorithm' = None => particles' = {}) /\ Pairs(particles') \subseteq edges'
  BY <1>1, <1>6
<1>7. ASSUME phase \in {"new", "up"}, UNCHANGED <<algorithm, particles>>, edges \subseteq edges'
      PROVE  (algorithm' = None => particles' = {}) /\ Pairs(particles') \subseteq edges'
  BY <1>7 DEF EdgeInv
<1>8. ASSUME StopOptimizing \/ (SwarmTimes /\ SwarmTimeout)
      PROVE  particles' = {}
  BY <1>8 DEF StopOptimizing, SwarmTimeout, StopSwarm, Stopped
<1>9. ASSUME SwarmTimes, OptimizationStep
      PROVE  /\ phase \in {"new", "up"} /\ UNCHANGED <<algorithm, particles>>
             /\ edges \subseteq edges'
  BY <1>9 DEF SwarmTimes, OptimizationStep
<1>10. ASSUME Initialize \/ (\E t \in Topologies : CreateNeuralMesh(t))
              \/ (\E k \in ConnectionLimits : SetConnections(k)) \/ MeshTimes \/ UNCHANGED vars
       PROVE  /\ phase \in {"new", "up"} /\ UNCHANGED <<algorithm, particles>>
              /\ edges \subseteq edges'
  BY <1>10 DEF Initialize, CreateNeuralMesh, SetConnections, MeshTimes, vars, swarmVars
<1>11. ~ShutdownSwarm /\ ~ShutdownMesh
  BY DEF ShutdownSwarm, ShutdownMesh
<1>12. CASE SwarmTimes
  BY <1>6, <1>7, <1>8, <1>9, <1>12 DEF SwarmTimes
<1>13. CASE StopOptimizing
  BY <1>6, <1>8, <1>13
<1> QED BY <1>3, <1>4, <1>5, <1>7, <1>10, <1>11, <1>12, <1>13 DEF Next

\* A run weighs every pair of its particles, in whatever order agents and runs came.
THEOREM EdgesComplete == Spec => []EdgesCover
<1>1. Init => EdgeInv
  BY DEF Init, EdgeInv, Pairs
<1>2. EdgeInv => EdgesCover
  BY DEF EdgeInv, EdgesCover
<1> QED BY <1>1, <1>2, EdgeStep, InvHolds, PTL DEF Spec

-----------------------------------------------------------------------------
(* The number of links.                                                     *)

\* The order of the ids: a smaller one comes before, and no position is beyond the last.
LEMMA IndexOrder ==
    ASSUME NEW N, N \subseteq Nat, IsFiniteSet(N), NEW n \in N
    PROVE  /\ Index(n, N) \in 0..(Cardinality(N) - 1)
           /\ \A m \in N : m < n => Index(m, N) < Index(n, N)
<1> DEFINE Below(m) == {x \in N : x < m}
<1>1. IsFiniteSet(Below(n)) /\ Cardinality(N) \in Nat
  BY FS_Subset, FS_CardinalityType
<1>2. Index(n, N) < Cardinality(N)
  <2>1. Below(n) \subseteq N /\ Below(n) # N
    OBVIOUS
  <2> HIDE DEF Below
  <2>2. Cardinality(Below(n)) <= Cardinality(N) /\ Cardinality(Below(n)) # Cardinality(N)
    BY <2>1, FS_Subset
  <2>3. Cardinality(Below(n)) \in Nat
    BY <1>1, FS_CardinalityType
  <2>4. Index(n, N) = Cardinality(Below(n))
    BY DEF Index, Below
  <2> QED BY <1>1, <2>2, <2>3, <2>4
<1>3. ASSUME NEW m \in N, m < n PROVE Index(m, N) < Index(n, N)
  <2> m \in Nat /\ n \in Nat
    OBVIOUS
  <2>5. \A x \in N : x < m => x < n
    <3> TAKE x \in N
    <3> x \in Nat
      OBVIOUS
    <3> QED BY <1>3
  <2>6. ~(m < m)
    OBVIOUS
  <2>1. Below(m) \subseteq Below(n) /\ m \in Below(n) /\ m \notin Below(m)
    BY <1>3, <2>5, <2>6
  <2>2. Index(m, N) = Cardinality(Below(m)) /\ Index(n, N) = Cardinality(Below(n))
    BY DEF Index
  <2>3. Index(m, N) \in Nat /\ Index(n, N) \in Nat
    BY IndexType
  <2> HIDE DEF Below
  <2>4. Cardinality(Below(m)) <= Cardinality(Below(n)) /\ Cardinality(Below(m)) # Cardinality(Below(n))
    BY <1>1, <2>1, FS_Subset
  <2> QED BY <2>2, <2>3, <2>4
<1>4. Index(n, N) \in Nat
  BY IndexType
<1> QED BY <1>1, <1>2, <1>3, <1>4

\* No two nodes have the same position.
LEMMA IndexUnique ==
    ASSUME NEW N, N \subseteq Nat, IsFiniteSet(N), NEW m \in N, NEW n \in N, Index(m, N) = Index(n, N)
    PROVE  m = n
<1>1. m \in Nat /\ n \in Nat /\ Index(n, N) \in Nat
  BY IndexType
<1>2. ~(m < n)
  <2>1. m < n => Index(m, N) < Index(n, N)
    BY IndexOrder
  <2> QED BY <1>1, <2>1
<1>3. ~(n < m)
  <2>1. n < m => Index(n, N) < Index(m, N)
    BY IndexOrder
  <2> QED BY <1>1, <2>1
<1> QED BY <1>1, <1>2, <1>3

\* Every position up to the last is somebody's.
LEMMA IndexOnto ==
    ASSUME NEW N, N \subseteq Nat, IsFiniteSet(N), NEW i \in 0..(Cardinality(N) - 1)
    PROVE  \E m \in N : Index(m, N) = i
<1> DEFINE f == [m \in N |-> Index(m, N)]
           T == 0..(Cardinality(N) - 1)
<1>1. Cardinality(N) \in Nat
  BY FS_CardinalityType
<1>2. IsFiniteSet(T) /\ Cardinality(T) = Cardinality(N)
  BY <1>1, FS_Interval
<1>3. f \in Injection(N, T)
  <2>1. f \in [N -> T]
    BY IndexOrder
  <2>2. \A m, n \in N : f[m] = f[n] => m = n
    BY IndexUnique
  <2> QED BY <2>1, <2>2 DEF Injection, IsInjective
<1> HIDE DEF f, T
<1>4. f \in Surjection(N, T)
  BY <1>2, <1>3, FS_Injection
<1> QED BY <1>4 DEF Surjection, f, T

\* One position is one node's at most.
LEMMA AtIsOne ==
    ASSUME NEW N, N \subseteq Nat, IsFiniteSet(N), NEW i
    PROVE  IsFiniteSet(At(i, N)) /\ Cardinality(At(i, N)) \in 0..1
<1>1. CASE At(i, N) = {}
  BY <1>1, FS_EmptySet
<1>2. CASE At(i, N) # {}
  <2>1. PICK x : x \in At(i, N)
    BY <1>2
  <2>2. At(i, N) = {x}
    BY <2>1, IndexUnique DEF At
  <2>3. IsFiniteSet({x}) /\ Cardinality({x}) = 1
    BY FS_Singleton
  <2> QED BY <2>2, <2>3
<1> QED BY <1>1, <1>2

\* addConnection stops when the node is full.
LEMMA TakenBound ==
    ASSUME NEW S, S \subseteq Nat, IsFiniteSet(S), NEW k \in Nat
    PROVE  Cardinality(Taken(S, k)) <= k
<1> DEFINE f == [m \in Taken(S, k) |-> Index(m, S)]
           T == 0..(k - 1)
<1>1. Taken(S, k) \subseteq S /\ \A m \in Taken(S, k) : Index(m, S) < k
  BY DEF Taken, Index
<1>2. \A m \in Taken(S, k) : Index(m, S) \in T
  <2> SUFFICES ASSUME NEW m \in Taken(S, k) PROVE Index(m, S) \in T
    OBVIOUS
  <2>1. Index(m, S) \in Nat
    BY IndexType
  <2> QED BY <1>1, <2>1
<1>3. f \in Injection(Taken(S, k), T)
  <2>1. f \in [Taken(S, k) -> T]
    BY <1>2
  <2>2. \A m, n \in Taken(S, k) : f[m] = f[n] => m = n
    BY <1>1, IndexUnique
  <2> QED BY <2>1, <2>2 DEF Injection, IsInjective
<1>4. IsFiniteSet(T) /\ Cardinality(T) = k
  BY FS_Interval
<1> HIDE DEF f, T
<1> QED BY <1>3, <1>4, FS_Injection

\* Whatever the topology, a node takes as many peers as there is room for.
LEMMA PeersBounded ==
    ASSUME NEW N, N \subseteq Nat, IsFiniteSet(N), NEW n \in N, NEW shape, NEW k \in Nat \ {0},
           NEW X \in PeerChoices(n, N, shape, k)
    PROVE  Cardinality(X) <= k
<1>1. Cardinality(RingPeers(n, N, k)) <= k
  <2>1. PICK i, j : RingPeers(n, N, k) = (IF k = 1 THEN At(i, N) ELSE At(i, N) \cup At(j, N)) \ {n}
    BY DEF RingPeers
  <2> DEFINE both == At(i, N) \cup At(j, N)
  <2>2. /\ IsFiniteSet(At(i, N)) /\ Cardinality(At(i, N)) \in 0..1
        /\ IsFiniteSet(At(j, N)) /\ Cardinality(At(j, N)) \in 0..1
    BY AtIsOne
  <2>3. IsFiniteSet(both) /\ Cardinality(both) <= 2 /\ Cardinality(both) \in Nat
    <3>1. IsFiniteSet(both)
      BY <2>2, FS_Union
    <3> QED BY <2>2, <3>1, UnionBound
  <2>4. CASE k = 1
    <3>1. RingPeers(n, N, k) \subseteq At(i, N)
      BY <2>1, <2>4
    <3>2. IsFiniteSet(RingPeers(n, N, k)) /\ Cardinality(RingPeers(n, N, k)) <= Cardinality(At(i, N))
      BY <2>2, <3>1, FS_Subset
    <3>3. Cardinality(RingPeers(n, N, k)) \in Nat
      BY <3>2, FS_CardinalityType
    <3> QED BY <2>2, <2>4, <3>2, <3>3
  <2>5. CASE k # 1
    <3>1. RingPeers(n, N, k) \subseteq both
      BY <2>1, <2>5
    <3> HIDE DEF both
    <3>2. IsFiniteSet(RingPeers(n, N, k)) /\ Cardinality(RingPeers(n, N, k)) <= Cardinality(both)
      BY <2>3, <3>1, FS_Subset
    <3>3. Cardinality(RingPeers(n, N, k)) \in Nat
      BY <3>2, FS_CardinalityType
    <3> QED BY <2>3, <2>5, <3>2, <3>3
  <2> QED BY <2>4, <2>5
<1>2. Cardinality(StarPeers(n, N, k)) <= k
  <2>1. Cardinality(Taken(N \ {n}, k)) <= k
    <3>1. IsFiniteSet(N \ {n})
      BY FS_Subset
    <3> QED BY <3>1, TakenBound
  <2>2. Cardinality(At(0, N)) \in 0..1
    BY AtIsOne
  <2>3. Cardinality(At(0, N)) <= k
    BY <2>2
  <2> QED BY <2>1, <2>3 DEF StarPeers
<1>3. Cardinality(TreePeers(n, N, k)) <= k
  <2> DEFINE S == {m \in N : Parent(m, n, N) \/ Parent(n, m, N)}
  <2>1. S \subseteq Nat /\ IsFiniteSet(S)
    BY FS_Subset
  <2> HIDE DEF S
  <2>2. Cardinality(Taken(S, k)) <= k
    BY <2>1, TakenBound
  <2> QED BY <2>2 DEF TreePeers, S
<1>4. ASSUME NEW S, Cardinality(S) <= k, NEW Y \in Filled(S, n, N, k) PROVE Cardinality(Y) <= k
  BY <1>4 DEF Filled
<1>5. Cardinality({}) <= k
  BY FS_EmptySet
<1> QED BY <1>1, <1>2, <1>3, <1>4, <1>5 DEF PeerChoices

\* A rebuilt mesh keeps the limit it was rebuilt for.
LEMMA RebuiltBounded ==
    ASSUME NEW N, N \subseteq Agents, NEW shape, NEW k \in ConnectionLimits, Rebuilt(N, shape, k),
           maxConnections' = k
    PROVE  LimitKept'
<1>1. IsFiniteSet(N) /\ N \subseteq Nat /\ k \in Nat \ {0}
  BY FS_Subset
<1>2. DOMAIN links' = N /\ \A n \in N : links'[n] \in PeerChoices(n, N, shape, k)
  BY DEF Rebuilt
<1>3. \A n \in N : Cardinality(links'[n]) <= k
  BY <1>1, <1>2, PeersBounded
<1> QED BY <1>2, <1>3 DEF LimitKept, Nodes

\* So does a healed one.
LEMMA HealedBounded ==
    ASSUME MeshTypeOK, LimitKept, SelfHealing, maxConnections' = maxConnections PROVE LimitKept'
<1>1. Nodes \subseteq Agents /\ IsFiniteSet(Nodes) /\ Nodes \subseteq Nat /\ maxConnections \in Nat \ {0}
  BY FS_Subset DEF MeshTypeOK
<1>2. DOMAIN links' = Nodes /\ \A n \in Nodes : links'[n] \in Healed(n)
  BY DEF SelfHealing
<1>3. ASSUME NEW n \in Nodes, NEW X \in Healed(n) PROVE Cardinality(X) <= maxConnections
  <2>1. CASE X \in PeerChoices(n, Nodes, topology, maxConnections)
    BY <1>1, <2>1, PeersBounded
  <2>2. CASE X \in Filled(links[n], n, Nodes, maxConnections)
    BY <2>2 DEF Filled, LimitKept
  <2>3. CASE X = links[n]
    BY <2>3 DEF LimitKept
  <2> QED BY <1>3, <2>1, <2>2, <2>3 DEF Healed
<1>4. \A n \in Nodes : Cardinality(links'[n]) <= maxConnections
  BY <1>2, <1>3
<1> QED BY <1>2, <1>4 DEF LimitKept, Nodes

\* Where and how the links of a step come about: they stay, they are rebuilt for agents and a limit in
\* force after the step, they are healed, or they go.
LinksChange ==
    \/ UNCHANGED <<links, maxConnections>> /\ (topology' = topology \/ Nodes = {})
    \/ \E N \in SUBSET Agents : Rebuilt(N, topology', maxConnections')
    \/ SelfHealing /\ UNCHANGED <<maxConnections, topology>>
    \/ links' = <<>>
LEMMA LinksComeAbout ==
    ASSUME Inv, phase = "new" => Nodes = {}, [Next]_vars
    PROVE  LinksChange /\ (phase' = "new" => Nodes' = {})
<1> USE DEF LinksChange
<1>1. Nodes \subseteq Agents /\ registered \subseteq Agents /\ unused \subseteq Agents
  BY DEF Inv, MeshInv, MeshTypeOK, RegistryTypeOK
<1>2. CASE Initialize
  BY <1>2 DEF Initialize, MeshInitialize
<1>3. ASSUME NEW S \in SUBSET unused, Deploy(S) PROVE LinksChange /\ phase' # "new"
  <2>1. Rebuilt(Nodes \cup S, topology, maxConnections) /\ UNCHANGED <<topology, maxConnections, phase>> /\ phase # "new"
    BY <1>3 DEF Deploy, AddNodes, meshShape
  <2>2. Nodes \cup S \in SUBSET Agents
    BY <1>1
  <2> QED BY <2>1, <2>2
<1>4. ASSUME NEW a \in registered, Retire(a) PROVE LinksChange /\ (phase' = "new" => Nodes' = {})
  <2>1. PICK new \in Replacements(registered \ {a}) : RemoveNode(a, new)
    BY <1>4 DEF Retire
  <2>2. new \subseteq Agents
    BY <1>1, <2>1 DEF Replacements
  <2>3. UNCHANGED <<topology, maxConnections, phase>>
    BY <1>4, <2>1 DEF Retire, RemoveNode, meshShape
  <2>4. phase # "new"
    BY <1>4 DEF Inv, Fresh
  <2>5. CASE UNCHANGED links
    BY <2>3, <2>4, <2>5
  <2>6. CASE Rebuilt((Nodes \cup new) \ {a}, topology, maxConnections)
    <3>1. (Nodes \cup new) \ {a} \in SUBSET Agents
      BY <1>1, <2>2
    <3> QED BY <2>3, <2>4, <2>6, <3>1
  <2> QED BY <2>1, <2>5, <2>6 DEF RemoveNode
<1>5. ASSUME NEW asked \in Topologies, CreateNeuralMesh(asked) PROVE LinksChange /\ phase' # "new"
  <2>1. Rebuilt(Nodes, topology', ConfiguredLimit) /\ maxConnections' = ConfiguredLimit /\ phase' # "new"
    BY <1>5 DEF CreateNeuralMesh, Configure
  <2> QED BY <1>1, <2>1
<1>6. ASSUME NEW k \in ConnectionLimits, SetConnections(k) PROVE LinksChange /\ phase' # "new"
  <2>1. Rebuilt(Nodes, topology, k) /\ maxConnections' = k /\ topology' = topology /\ phase' # "new"
    BY <1>6 DEF SetConnections, Connections
  <2> QED BY <1>1, <2>1
<1>7. CASE MeshTimes
  <2>1. CASE MeshTimeout
    BY <1>7, <2>1 DEF MeshTimes, MeshTimeout, meshShape, Nodes
  <2>2. CASE SelfHealing
    <3>1. Nodes' = Nodes /\ UNCHANGED <<maxConnections, topology, phase>>
      BY <1>7, <2>2 DEF MeshTimes, SelfHealing, meshShape, Nodes
    <3> QED BY <2>2, <3>1
  <2> QED BY <1>7, <2>1, <2>2 DEF MeshTimes
<1>8. CASE \/ \E c \in Algorithms : StartOptimizing(c)
           \/ StopOptimizing \/ SwarmTimes \/ ShutdownSwarm \/ UNCHANGED vars
  <2>1. UNCHANGED <<links, topology, maxConnections>> /\ (phase' = "new" => phase = "new")
    BY <1>8 DEF StartOptimizing, StopOptimizing, SwarmTimes, ShutdownSwarm, vars, meshVars, meshShape
  <2> QED BY <2>1 DEF Nodes
<1>9. CASE ShutdownMesh
  BY <1>9 DEF ShutdownMesh, MeshShutdown
<1> QED BY <1>2, <1>3, <1>4, <1>5, <1>6, <1>7, <1>8, <1>9 DEF Next

\* No step leaves a node with more peers than maxConnections.
LEMMA LimitStep ==
    ASSUME Inv, Inv', LimitKept, phase = "new" => Nodes = {}, [Next]_vars PROVE LimitKept'
<1>1. maxConnections' \in ConnectionLimits /\ MeshTypeOK
  BY DEF Inv, MeshInv, MeshTypeOK
<1>2. CASE UNCHANGED <<links, maxConnections>>
  BY <1>2 DEF LimitKept, Nodes
<1>3. ASSUME NEW N \in SUBSET Agents, Rebuilt(N, topology', maxConnections') PROVE LimitKept'
  BY <1>1, <1>3, RebuiltBounded
<1>4. CASE SelfHealing /\ UNCHANGED maxConnections
  BY <1>1, <1>4, HealedBounded
<1>5. CASE links' = <<>>
  BY <1>5 DEF LimitKept, Nodes
<1> QED BY <1>2, <1>3, <1>4, <1>5, LinksComeAbout DEF LinksChange

\* Nodes are linked to other nodes that are there, and to no more of them than maxConnections, whatever
\* was retired, deployed, reconfigured or healed before.
THEOREM LinksStaySound == Spec => []LinksSound
<1> DEFINE J == LimitKept /\ (phase = "new" => Nodes = {})
<1>1. Init => J
  BY DEF Init, LimitKept, Nodes
<1>2. Inv /\ Inv' /\ J /\ [Next]_vars => J'
  <2> SUFFICES ASSUME Inv, Inv', J, [Next]_vars PROVE J'
    OBVIOUS
  <2>1. LimitKept'
    BY LimitStep
  <2>2. phase' = "new" => Nodes' = {}
    BY LinksComeAbout
  <2> QED BY <2>1, <2>2
<1>3. Inv /\ J => LinksSound
  BY DEF Inv, MeshInv, LinksSound
<1> HIDE DEF J
<1> QED BY <1>1, <1>2, <1>3, InvHolds, PTL DEF Spec

-----------------------------------------------------------------------------
(* One piece.                                                               *)

\* Some members of a finite set of numbers come before all others.
LEMMA FirstOf ==
    ASSUME NEW S, S \subseteq Nat, IsFiniteSet(S), S # {}
    PROVE  \E m \in S : Index(m, S) = 0 /\ \A x \in S : m <= x
<1>1. Cardinality(S) \in Nat /\ Cardinality(S) # 0
  BY FS_CardinalityType, FS_EmptySet
<1>2. 0 \in 0..(Cardinality(S) - 1)
  BY <1>1
<1>3. PICK m \in S : Index(m, S) = 0
  BY <1>2, IndexOnto
<1>4. ASSUME NEW x \in S PROVE m <= x
  <2>1. Index(x, S) \in Nat
    BY IndexType
  <2>2. x < m => Index(x, S) < Index(m, S)
    BY IndexOrder
  <2>3. ~(x < m)
    BY <1>3, <2>1, <2>2
  <2>4. x \in Nat /\ m \in Nat
    OBVIOUS
  <2> QED BY <2>3, <2>4
<1> QED BY <1>3, <1>4

\* There is a node at every position before another's, and it comes before that one.
LEMMA EarlierAt ==
    ASSUME NEW N, N \subseteq Nat, IsFiniteSet(N), NEW n \in N, NEW i \in Nat, i < Index(n, N)
    PROVE  \E p \in At(i, N) : p < n /\ p \in N
<1>1. Index(n, N) \in 0..(Cardinality(N) - 1) /\ Cardinality(N) \in Nat
  BY IndexOrder, FS_CardinalityType
<1>2. i \in 0..(Cardinality(N) - 1)
  BY <1>1
<1>3. PICK p \in N : Index(p, N) = i
  BY <1>2, IndexOnto
<1>4. ~(n < p)
  <2>1. n < p => Index(n, N) < Index(p, N)
    BY IndexOrder
  <2> QED BY <1>1, <1>3, <2>1
<1>5. p \in Nat /\ n \in Nat /\ p # n
  BY <1>1, <1>3
<1> QED BY <1>3, <1>4, <1>5 DEF At

\* In every topology but "mesh" a node that is not the first takes a peer that comes before it,
\* also when there is room for one peer only.
LEMMA PeersRooted ==
    ASSUME NEW N, N \subseteq Nat, IsFiniteSet(N), NEW n \in N, NEW m \in N, m < n,
           NEW shape \in Topologies \ {"mesh"}, NEW k \in Nat \ {0}, NEW X \in PeerChoices(n, N, shape, k)
    PROVE  \E p \in X : p < n
<1> DEFINE i == Index(n, N)
<1>1. i \in 0..(Cardinality(N) - 1) /\ Cardinality(N) \in Nat /\ i > 0
  <2>1. Index(m, N) \in Nat /\ Index(m, N) < i
    BY IndexOrder, IndexType
  <2>2. i \in 0..(Cardinality(N) - 1) /\ Cardinality(N) \in Nat
    BY IndexOrder, FS_CardinalityType
  <2> HIDE DEF i
  <2> QED BY <2>1, <2>2
<1>2. \E p \in RingPeers(n, N, k) : p < n
  <2> DEFINE size == Cardinality(N)
  <2>1. (i + size - 1) % size = i - 1 /\ i - 1 \in Nat /\ i - 1 < i
    <3> HIDE DEF i, size
    <3> QED BY <1>1 DEF size
  <2>2. PICK p \in At(i - 1, N) : p < n /\ p \in N
    BY <2>1, EarlierAt
  <2>3. p # n
    BY <2>2
  <2>4. At((i + size - 1) % size, N) \ {n} \subseteq RingPeers(n, N, k)
    BY DEF RingPeers
  <2> QED BY <2>1, <2>2, <2>3, <2>4
<1>3. \E p \in StarPeers(n, N, k) : p < n
  <2>1. \E p \in At(0, N) : p < n
    BY <1>1, EarlierAt
  <2> QED BY <1>1, <2>1 DEF StarPeers
<1>4. \E p \in TreePeers(n, N, k) : p < n
  <2> DEFINE S == {x \in N : Parent(x, n, N) \/ Parent(n, x, N)}
  <2>1. (i - 1) \div 2 \in Nat /\ (i - 1) \div 2 < i
    <3> HIDE DEF i
    <3> QED BY <1>1
  <2>2. PICK p \in At((i - 1) \div 2, N) : p < n /\ p \in N
    BY <2>1, EarlierAt
  <2>3. p \in S
    BY <1>1, <2>2 DEF At, Parent
  <2>4. S \subseteq Nat /\ IsFiniteSet(S) /\ S # {}
    BY <2>3, FS_Subset
  <2> HIDE DEF S
  <2>5. PICK q \in S : Index(q, S) = 0 /\ q <= p
    BY <2>3, <2>4, FirstOf
  <2>6. q \in Nat /\ p \in Nat /\ n \in Nat
    BY <2>2, <2>4
  <2>7. q < n
    BY <2>2, <2>5, <2>6
  <2>8. q \in Taken(S, k)
    BY <2>5 DEF Taken, Index
  <2> QED BY <2>7, <2>8 DEF TreePeers, S
<1>5. X \in Filled(RingPeers(n, N, k), n, N, k) => RingPeers(n, N, k) \subseteq X
  BY DEF Filled
<1> QED BY <1>2, <1>3, <1>4, <1>5 DEF PeerChoices, Topologies

\* Every node but the first is connected to one before it.
Rooted ==
    topology # "mesh" => \A n \in Nodes : (\E m \in Nodes : m < n) => \E p \in links[n] : p < n

\* Rebuilding a mesh and healing one keep it so.
LEMMA RebuiltRooted ==
    ASSUME NEW N, N \subseteq Agents, topology' \in Topologies, maxConnections' \in ConnectionLimits,
           Rebuilt(N, topology', maxConnections')
    PROVE  Rooted'
<1>1. IsFiniteSet(N) /\ N \subseteq Nat /\ maxConnections' \in Nat \ {0}
  BY FS_Subset
<1>2. DOMAIN links' = N /\ \A n \in N : links'[n] \in PeerChoices(n, N, topology', maxConnections')
  BY DEF Rebuilt
<1>3. ASSUME topology' # "mesh", NEW n \in N, NEW m \in N, m < n PROVE \E p \in links'[n] : p < n
  BY <1>1, <1>2, <1>3, PeersRooted
<1> QED BY <1>2, <1>3 DEF Rooted, Nodes

LEMMA HealedRooted ==
    ASSUME MeshTypeOK, Rooted, SelfHealing, topology' = topology PROVE Rooted'
<1>1. /\ Nodes \subseteq Agents /\ IsFiniteSet(Nodes) /\ Nodes \subseteq Nat
      /\ maxConnections \in Nat \ {0} /\ topology \in Topologies
  BY FS_Subset DEF MeshTypeOK
<1>2. DOMAIN links' = Nodes /\ \A n \in Nodes : links'[n] \in Healed(n)
  BY DEF SelfHealing
<1>3. ASSUME topology # "mesh", NEW n \in Nodes, NEW m \in Nodes, m < n, NEW X \in Healed(n)
      PROVE  \E p \in X : p < n
  <2>1. CASE X \in PeerChoices(n, Nodes, topology, maxConnections)
    BY <1>1, <1>3, <2>1, PeersRooted
  <2>2. CASE links[n] \subseteq X
    BY <1>3, <2>2 DEF Rooted
  <2> QED BY <1>3, <2>1, <2>2 DEF Healed, Filled
<1>4. ASSUME topology # "mesh", NEW n \in Nodes, NEW m \in Nodes, m < n PROVE \E p \in links'[n] : p < n
  BY <1>2, <1>3, <1>4
<1> QED BY <1>2, <1>4 DEF Rooted, Nodes

LEMMA RootedStep ==
    ASSUME Inv, Inv', Rooted, phase = "new" => Nodes = {}, [Next]_vars PROVE Rooted'
<1>1. maxConnections' \in ConnectionLimits /\ topology' \in Topologies /\ MeshTypeOK
  BY DEF Inv, MeshInv, MeshTypeOK
<1>2. CASE UNCHANGED links /\ (topology' = topology \/ Nodes = {})
  BY <1>2 DEF Rooted, Nodes
<1>3. ASSUME NEW N \in SUBSET Agents, Rebuilt(N, topology', maxConnections') PROVE Rooted'
  BY <1>1, <1>3, RebuiltRooted
<1>4. CASE SelfHealing /\ UNCHANGED topology
  BY <1>1, <1>4, HealedRooted
<1>5. CASE links' = <<>>
  BY <1>5 DEF Rooted, Nodes
<1> QED BY <1>2, <1>3, <1>4, <1>5, LinksComeAbout DEF LinksChange

\* Whoever has a connection into a set neighbours it.
LEMMA NeighboursInto ==
    ASSUME NEW S, NEW m \in Nodes, links[m] \cap S # {} PROVE m \in Neighbours(S)
BY DEF Neighbours

\* From the first node, every set of nodes is reached or left: the first of those outside, or the
\* first of those inside, is connected to one on the other side.
LEMMA RootedConnects ==
    ASSUME Inv, Rooted PROVE Connected
<1> SUFFICES ASSUME topology # "mesh", NEW S \in (SUBSET Nodes) \ {{}, Nodes}, Neighbours(S) = S PROVE FALSE
  BY DEF Connected
<1>1. Nodes \subseteq Nat /\ IsFiniteSet(Nodes) /\ \A n \in Nodes : links[n] \subseteq Nodes
  BY FS_Subset DEF Inv, MeshInv, MeshTypeOK, PeersPresent
<1>2. /\ S \subseteq Nat /\ IsFiniteSet(S) /\ S # {} /\ S \subseteq Nodes
      /\ Nodes \ S \subseteq Nat /\ IsFiniteSet(Nodes \ S) /\ Nodes \ S # {}
  BY <1>1, FS_Subset
<1>3. PICK s \in S : \A x \in S : s <= x
  BY <1>2, FirstOf
<1>4. PICK u \in Nodes \ S : \A x \in Nodes \ S : u <= x
  BY <1>2, FirstOf
<1>5. s \in Nat /\ u \in Nat /\ s # u /\ s \in Nodes /\ u \in Nodes
  BY <1>2, <1>3, <1>4
<1>6. CASE u < s
  <2>1. PICK p \in links[s] : p < s
    BY <1>5, <1>6 DEF Rooted
  <2>2. p \in S
    BY <2>1, <1>3 DEF Neighbours
  <2>3. p \in Nat /\ s <= p
    BY <1>2, <1>3, <2>2
  <2> QED BY <1>5, <2>1, <2>3
<1>7. CASE s < u
  <2>1. PICK p \in links[u] : p < u
    BY <1>5, <1>7 DEF Rooted
  <2>2. p \in Nodes
    BY <1>1, <1>5, <2>1
  <2>3. p \notin Nodes \ S
    <3>1. p \in Nodes \ S => u <= p
      BY <1>4
    <3>2. p \in Nat
      BY <1>1, <2>2
    <3> QED BY <1>5, <2>1, <3>1, <3>2
  <2>4. links[u] \cap S # {}
    BY <1>5, <2>1, <2>2, <2>3
  <2>5. u \in Neighbours(S)
    BY <1>5, <2>4, NeighboursInto
  <2> QED BY <1>4, <2>5
<1> QED BY <1>5, <1>6, <1>7

\* A ring, star, tree or hybrid mesh is one piece at any time: no set of its nodes is cut off from the
\* others, for any number of agents and connections.
THEOREM MeshStaysConnected == Spec => []Connected
<1> DEFINE J == Rooted /\ (phase = "new" => Nodes = {})
<1>1. Init => J
  BY DEF Init, Rooted, Nodes
<1>2. Inv /\ Inv' /\ J /\ [Next]_vars => J'
  <2> SUFFICES ASSUME Inv, Inv', J, [Next]_vars PROVE J'
    OBVIOUS
  <2>1. Rooted'
    BY RootedStep
  <2>2. phase' = "new" => Nodes' = {}
    BY LinksComeAbout
  <2> QED BY <2>1, <2>2
<1>3. Inv /\ J => Connected
  BY RootedConnects
<1> HIDE DEF J
<1> QED BY <1>1, <1>2, <1>3, InvHolds, PTL DEF Spec
=============================================================================
