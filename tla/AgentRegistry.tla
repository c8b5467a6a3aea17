---------------------------- MODULE AgentRegistry ----------------------------
(***************************************************************************)
(* The membership of AgentRegistry (src/agents/registry.ts), as far as the *)
(* neural mesh and the swarm listen to it.  Ids are compared by            *)
(* localeCompare in the code; here they are numbers.  An id is a fresh     *)
(* UUID: it is given once.                                                 *)
(***************************************************************************)
EXTENDS Integers, FiniteSets

CONSTANT Agents  \* the ids

ASSUME AgentsAssumption == Agents \subseteq Nat /\ IsFiniteSet(Agents)

VARIABLES
    unused,      \* the ids no agent has had yet
    registered   \* the keys of the registry's Map

registryVars == <<unused, registered>>

\* deployAgent registers a number of agents in one synchronous block.
RegisterAgents(S) ==
    /\ S # {}
    /\ S \subseteq unused
    /\ unused' = unused \ S
    /\ registered' = registered \cup S

\* unregisterAgent(a).  The system hears of it before the mesh and the swarm do (it has
\* listened for longer) and may deploy other agents from within the event.
UnregisterAgent(a, new) ==
    /\ a \in registered
    /\ new \subseteq unused
    /\ registered' = (registered \ {a}) \cup new
    /\ unused' = unused \ new
\* The part of TypeOK about the registry.
RegistryTypeOK == registered \subseteq Agents /\ unused \subseteq Agents \ registered
=============================================================================
