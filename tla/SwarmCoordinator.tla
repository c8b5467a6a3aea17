-------------------------- MODULE SwarmCoordinator --------------------------
(***************************************************************************)
(* SwarmCoordinator (src/swarm/coordinator.ts): particles for the agents   *)
(* while a configuration is set, pheromone levels for pairs of particles,  *)
(* an optimization loop and a timer that ends a run.  Positions,           *)
(* velocities and levels are left out; a pheromone edge is a pair of ids.  *)
(***************************************************************************)
EXTENDS AgentRegistry

CONSTANTS
    Algorithms,  \* the algorithms a run may be started with
    None         \* currentConfiguration is undefined

ASSUME SwarmAssumption == None \notin Algorithms

VARIABLES
    algorithm,     \* currentConfiguration
    optimizing,    \* optimizationInterval is set
    particles,
    edges,         \* the keys of pheromoneMatrix
    swarmTimer     \* runTimeout is set

swarmVars == <<algorithm, optimizing, particles, edges, swarmTimer>>

\* getEdgeKey of every pair.
Pairs(P) == {{p, q} : p, q \in P} \ {{p} : p \in P}

-----------------------------------------------------------------------------
(* Mutated forms, each a plausible bug of the definition it is named for.   *)

AgentUnregistered_Kept(a, new) == UNCHANGED swarmVars

-----------------------------------------------------------------------------

\* addParticle for the agents of S, one after another.
Populated(P, S) == P \cup S
Linked(E, P, S) == E \cup {e \in Pairs(P \cup S) : e \cap (S \ P) # {}}

\* stopSwarm forgets the configuration and the particles, and keeps the edges.
Stopped ==
    /\ optimizing' = FALSE
    /\ swarmTimer' = FALSE
    /\ particles' = {}
    /\ algorithm' = None

\* startSwarm, with a maximum duration or without.  On a run that is on already, stopSwarm
\* comes after the new configuration is set and before addParticle reads it: the loop then
\* runs with neither configuration nor particles.
StartSwarm(chosen, bounded) ==
    /\ optimizing' = TRUE
    /\ swarmTimer' = bounded
    /\ IF optimizing
       THEN /\ algorithm' = None
            /\ particles' = {}
            /\ edges' = {}
       ELSE /\ algorithm' = chosen
            /\ particles' = Populated(particles, registered)
            /\ edges' = Linked({}, particles, registered)

StopSwarm == Stopped /\ UNCHANGED edges

\* The timer of the run.
SwarmTimeout == swarmTimer /\ StopSwarm

\* performOptimizationStep: "aco" and "hybrid" lay pheromone between all particles.
OptimizationStep ==
    /\ optimizing
    /\ algorithm \in {"aco", "hybrid"}
    /\ edges' = edges \cup Pairs(particles)
    /\ UNCHANGED <<algorithm, optimizing, particles, swarmTimer>>

\* The handlers of the registry's events.
Joined(S) ==
    IF algorithm = None THEN <<particles, edges>>
    ELSE <<Populated(particles, S), Linked(edges, particles, S)>>

AgentsRegistered(S) ==
    /\ particles' = Joined(S)[1]
    /\ edges' = Joined(S)[2]
    /\ UNCHANGED <<algorithm, optimizing, swarmTimer>>

\* The edges of the agent stay, and the agents that replace it still get one to it.
AgentUnregistered(a, new) ==
    /\ particles' = Joined(new)[1] \ {a}
    /\ edges' = Joined(new)[2]
    /\ UNCHANGED <<algorithm, optimizing, swarmTimer>>

\* shutdown keeps the configuration.
SwarmShutdown ==
    /\ optimizing' = FALSE
    /\ swarmTimer' = FALSE
    /\ particles' = {}
    /\ edges' = {}
    /\ UNCHANGED algorithm

\* The part of TypeOK about the swarm.
SwarmTypeOK ==
    /\ algorithm \in Algorithms \cup {None}
    /\ optimizing \in BOOLEAN /\ swarmTimer \in BOOLEAN
    /\ particles \subseteq Agents
    /\ edges \subseteq Pairs(Agents)
=============================================================================
