SPECIFICATION Spec
CONSTANTS
    p1 = p1
    p2 = p2
    coordinator = coordinator
    reviewer = reviewer
    planner = planner
    worker = worker
    None = None
    Proposals = {p1, p2}
    Agents = {coordinator, reviewer, worker}
    VotingAgents = {coordinator, reviewer}
    Configs <- MCConfigs
    StakeTable <- MCStakes
INVARIANTS
    DecisionMatchesVotes
PROPERTIES
    DecisionStands
    EveryProposalSettles
