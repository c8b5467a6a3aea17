-------------------------- MODULE ConsensusManager --------------------------
(***************************************************************************)
(* ConsensusManager (src/consensus/manager.ts): proposals, votes, the      *)
(* decision and its timeout, over an AgentRegistry whose agents come and   *)
(* go and a configuration that operators change while proposals are open.  *)
(* Every method is synchronous, so each is one action.                     *)
(***************************************************************************)
EXTENDS Integers, FiniteSets, FiniteSetsExt

CONSTANTS
    Proposals,
    Agents,        \* agents that may be registered
    VotingAgents,  \* those of type consensus_coordinator, review_worker, planning_worker
    Configs,       \* the configurations updateConfig may set
    StakeTable,    \* stakeTable of every configuration: stakes of some of the agents
    None           \* "undefined" in the code

\* A configuration: quorumFactor is num/den, stakeThreshold is percent/100.
Config == [mechanism : {"raft", "bft", "pow", "pos", "hybrid"},
           minVotes : Nat \ {0}, num : Nat, den : Nat \ {0},
           faultTolerance : Nat \cup {None}, percent : Nat]

ASSUME FiniteAssumption == IsFiniteSet(Proposals) /\ IsFiniteSet(Agents)
ASSUME AgentsAssumption == /\ VotingAgents \subseteq Agents
                           /\ DOMAIN StakeTable \subseteq Agents
                           /\ \A a \in DOMAIN StakeTable : StakeTable[a] \in Nat
ASSUME ConfigAssumption == Configs \subseteq Config /\ Configs # {}

\* What proposeConsensus fixes for a proposal.
Terms == [required : Nat, population : Nat, voters : SUBSET Agents, percent : Nat \cup {None}]
ASSUME NoneAssumption == None \notin Nat /\ None \notin Terms

VARIABLES
    registered,  \* the agents in the registry
    config,      \* the configuration in force
    terms,       \* what proposeConsensus fixed for a proposal, None before that
    votes,       \* the votes of a proposal, kept here after it is decided
    outcome      \* "open" while in activeProposals, then what took it out of there

vars == <<registered, config, terms, votes, outcome>>

Outcome == {"none", "open", "accepted", "outvoted", "exhausted", "timed out", "dropped"}
Vote    == {"none", "yes", "no"}

Voted(p) == {a \in Agents : votes[p][a] # "none"}
Yes(p)   == {a \in Agents : votes[p][a] = "yes"}
No(p)    == {a \in Agents : votes[p][a] = "no"}

AtLeast(m, n) == IF m >= n THEN m ELSE n
Ceiling(m, n) == (m + n - 1) \div n

-----------------------------------------------------------------------------
(* Mutated forms, each a plausible bug of the definition it is named for.   *)

Verdict_Turnout(yes, no, t) ==
    IF yes + no >= t.required THEN IF yes >= no THEN "accepted" ELSE "outvoted"
    ELSE IF yes + no >= t.population THEN "exhausted" ELSE "open"
MayVote_Late(p, a) == terms[p] # None /\ a \notin Voted(p)
TimerFires_IfUnvoted(p) ==
    /\ outcome[p] = "open"
    /\ Voted(p) = {}
    /\ outcome' = [outcome EXCEPT ![p] = "timed out"]
    /\ UNCHANGED <<registered, config, terms, votes>>

-----------------------------------------------------------------------------
(* calculateRequirements.                                                   *)

Voters == registered \cap VotingAgents

\* With no voting agent the whole registry counts, with nobody at all one.
VotingPopulation ==
    AtLeast(Cardinality(IF Voters # {} THEN Voters ELSE registered), 1)

FaultTolerance(population) ==
    IF config.faultTolerance # None THEN config.faultTolerance ELSE (population - 1) \div 3

\* The bft and hybrid modes ask for 3f + 1 votes.
Wanted(population) ==
    LET quorum == AtLeast(config.minVotes, Ceiling(population * config.num, config.den))
    IN IF config.mechanism \in {"bft", "hybrid"}
       THEN AtLeast(quorum, 3 * FaultTolerance(population) + 1) ELSE quorum

\* A requirement no turnout could meet is lowered to the population.
Clamped(required, population) == IF required > population THEN population ELSE required

\* requiredStake is a share of the stakes of the voters, in the stake-based modes only.
TermsNow ==
    [required   |-> Clamped(Wanted(VotingPopulation), VotingPopulation),
     population |-> VotingPopulation,
     voters     |-> Voters,
     percent    |-> IF config.mechanism \in {"pos", "hybrid"} THEN config.percent ELSE None]

StakeOf(a) == IF a \in DOMAIN StakeTable THEN StakeTable[a] ELSE 1
Stakes(S) == MapThenSumSet(StakeOf, S)

\* requiredStake, in hundredths: without voters the whole table counts, and
\* without any stake the population.
RequiredStake(t) ==
    LET total == Stakes(IF t.voters # {} THEN t.voters ELSE DOMAIN StakeTable)
    IN t.percent * (IF total # 0 THEN total ELSE t.population)

-----------------------------------------------------------------------------
(* The handlers.                                                            *)

\* checkConsensus: the first of its tests that holds.
Verdict(yes, no, t) ==
    IF yes >= t.required THEN "accepted"
    ELSE IF no >= t.required THEN "outvoted"
    ELSE IF yes + no >= t.population THEN "exhausted" ELSE "open"

Init ==
    /\ registered = {}
    /\ config \in Configs
    /\ terms = [p \in Proposals |-> None]
    /\ votes = [p \in Proposals |-> [a \in Agents |-> "none"]]
    /\ outcome = [p \in Proposals |-> "none"]

RegisterAgent(a) ==
    /\ a \notin registered
    /\ registered' = registered \cup {a}
    /\ UNCHANGED <<config, terms, votes, outcome>>

UnregisterAgent(a) ==
    /\ a \in registered
    /\ registered' = registered \ {a}
    /\ UNCHANGED <<config, terms, votes, outcome>>

\* Proposals that are open keep the terms they were made under.
UpdateConfig(c) ==
    /\ config # c
    /\ config' = c
    /\ UNCHANGED <<registered, terms, votes, outcome>>

\* The proposer is any agent found in the registry; a proposal's id is fresh.
ProposeConsensus(p) ==
    /\ registered # {}
    /\ outcome[p] = "none"
    /\ terms' = [terms EXCEPT ![p] = TermsNow]
    /\ outcome' = [outcome EXCEPT ![p] = "open"]
    /\ UNCHANGED <<registered, config, votes>>

\* Unknown and decided proposals take no votes, and nobody votes twice.
MayVote(p, a) == outcome[p] = "open" /\ a \notin Voted(p)

\* submitVote, with checkConsensus and finalizeConsensus.  Whoever asks names
\* the voter, who need only be registered: its type is not looked at.
SubmitVote(p, a, v) ==
    /\ MayVote(p, a)
    /\ a \in registered
    /\ votes' = [votes EXCEPT ![p][a] = v]
    /\ outcome' = [outcome EXCEPT ![p] = Verdict(Cardinality(Yes(p)'), Cardinality(No(p)'), terms[p])]
    /\ UNCHANGED <<registered, config, terms>>

\* checkConsensusTimeout: the timer outlives the decision and then does nothing.
TimerFires(p) ==
    /\ outcome[p] = "open"
    /\ outcome' = [outcome EXCEPT ![p] = "timed out"]
    /\ UNCHANGED <<registered, config, terms, votes>>

\* shutdown forgets the open proposals and tells nobody.
Shutdown ==
    /\ outcome' = [p \in Proposals |-> IF outcome[p] = "open" THEN "dropped" ELSE outcome[p]]
    /\ UNCHANGED <<registered, config, terms, votes>>

Next ==
    \/ \E a \in Agents : RegisterAgent(a) \/ UnregisterAgent(a)
    \/ \E c \in Configs : UpdateConfig(c)
    \/ \E p \in Proposals : ProposeConsensus(p) \/ TimerFires(p)
    \/ \E p \in Proposals, a \in Agents, v \in {"yes", "no"} : SubmitVote(p, a, v)
    \/ Shutdown

\* setTimeout fires: only a crash of the process keeps the timer from it.
Fairness == \A p \in Proposals : WF_vars(TimerFires(p))

Spec == Init /\ [][Next]_vars /\ Fairness

-----------------------------------------------------------------------------
(* Properties.                                                              *)

\* The variables keep their types, and a proposal has its terms from the moment
\* it exists.
TypeOK ==
    /\ registered \subseteq Agents
    /\ config \in Configs
    /\ terms \in [Proposals -> Terms \cup {None}]
    /\ votes \in [Proposals -> [Agents -> Vote]]
    /\ outcome \in [Proposals -> Outcome]
    /\ \A p \in Proposals : outcome[p] = "none" <=> terms[p] = None

\* A proposal whose votes settle it is never left waiting for its timer: while
\* it is open neither side has its quorum and somebody may still vote, however
\* the registry and the configuration changed since it was made (checkConsensus).
OpenIsUndecided ==
    \A p \in Proposals : outcome[p] = "open" =>
        /\ Cardinality(Yes(p)) < terms[p].required
        /\ Cardinality(No(p)) < terms[p].required
        /\ Cardinality(Voted(p)) < terms[p].population

\* The verdict is the one the recorded votes carry: the side that reached the
\* quorum wins, never both, and nothing is accepted without it (finalizeConsensus).
DecisionMatchesVotes ==
    \A p \in Proposals :
        LET yes == Cardinality(Yes(p))
            no  == Cardinality(No(p))
        IN /\ outcome[p] = "accepted" => yes = terms[p].required /\ no < terms[p].required
           /\ outcome[p] = "outvoted" => no = terms[p].required /\ yes < terms[p].required
           /\ outcome[p] \in {"exhausted", "timed out", "dropped"} =>
                  yes < terms[p].required /\ no < terms[p].required

\* The requirement can be met by the voters there are, in every mode and with
\* every minimum and fault tolerance: the manager lowers it "to avoid deadlock"
\* (calculateRequirements).
QuorumIsFeasible ==
    \A p \in Proposals : terms[p] # None => terms[p].required \in 1 .. terms[p].population

\* A decision is final: afterwards neither it nor the votes it rests on change.
DecisionStands ==
    [][\A p \in Proposals : outcome[p] \notin {"none", "open"} =>
           outcome'[p] = outcome[p] /\ votes'[p] = votes[p] /\ terms'[p] = terms[p]]_vars

\* Every proposal is decided in the end, by its votes or by its timer.
EveryProposalSettles == \A p \in Proposals : outcome[p] = "open" ~> outcome[p] # "open"

\* In the stake-based modes whoever accepts holds the required stake.
\* The code does not see to it.
AcceptedWithStake ==
    \A p \in Proposals : outcome[p] = "accepted" /\ terms[p].percent # None =>
        100 * Stakes(Yes(p)) >= RequiredStake(terms[p])

\* The third test of checkConsensus: "All eligible voters participated".
\* The code counts the votes of agents that are not eligible.
ExhaustedMeansAllVoted ==
    \A p \in Proposals : outcome[p] = "exhausted" => terms[p].voters \subseteq Voted(p)
=============================================================================
