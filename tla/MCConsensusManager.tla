------------------------- MODULE MCConsensusManager -------------------------
(* Instances of ConsensusManager for TLC.                                   *)
EXTENDS ConsensusManager, TLC

CONSTANTS p1, p2, coordinator, reviewer, planner, worker

\* The documented default, a bft cluster that asks for more votes than there are
\* agents, and a stake-based one.
MCRaft == [mechanism |-> "raft", minVotes |-> 2, num |-> 2, den |-> 5,
           faultTolerance |-> None, percent |-> 67]
MCBft  == [mechanism |-> "bft", minVotes |-> 1, num |-> 1, den |-> 2,
           faultTolerance |-> 1, percent |-> 67]
MCPos  == [mechanism |-> "pos", minVotes |-> 1, num |-> 1, den |-> 2,
           faultTolerance |-> None, percent |-> 75]

MCConfigs    == {MCRaft, MCBft, MCPos}
MCStakes == [a \in {coordinator} |-> 2]
MCSymmetry == Permutations({p1, p2})
=============================================================================
