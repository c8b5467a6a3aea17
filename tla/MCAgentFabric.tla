---------------------------- MODULE MCAgentFabric ----------------------------
(* Small instances of AgentFabric. *)
EXTENDS AgentFabric

FourAgents == 1..4
Limits == {1, 4}

\* Four agents in the shapes the code builds, two where nothing heals, three in the random
\* mesh, which is also what an unsupported topology falls back to.
Mixed ==
    {[supported |-> <<"tree", "ring", "star", "hybrid">>, healing |-> b,
      meshBounded |-> b, swarmBounded |-> ~b, maxAgents |-> IF b THEN 4 ELSE 2] : b \in BOOLEAN}
    \cup
    {[supported |-> <<"mesh", "star">>, healing |-> TRUE,
      meshBounded |-> FALSE, swarmBounded |-> FALSE, maxAgents |-> 3]}
=============================================================================
