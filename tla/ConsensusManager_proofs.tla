----------------------- MODULE ConsensusManager_proofs -----------------------
(***************************************************************************)
(* What a consensus decision rests on, for every set of agents, proposals  *)
(* and configurations: TypeOK, QuorumIsFeasible, OpenIsUndecided and       *)
(* DecisionMatchesVotes are one inductive invariant, and DecisionStands    *)
(* follows from the guards of the actions under TypeOK.                    *)
(***************************************************************************)
EXTENDS ConsensusManager, FiniteSetTheorems, TLAPS

\* Votes only come to proposals that exist.  Without it a new proposal could
\* start with votes, and OpenIsUndecided would not be inductive.
VotesHaveTerms ==
    \A p \in Proposals : outcome[p] = "none" => Voted(p) = {}

Inv == TypeOK /\ VotesHaveTerms /\ QuorumIsFeasible /\ OpenIsUndecided /\ DecisionMatchesVotes

-----------------------------------------------------------------------------
(* Arithmetic of calculateRequirements.                                     *)

\* The voting population is a positive number of agents.
LEMMA PopulationType ==
  ASSUME registered \subseteq Agents
  PROVE  VotingPopulation \in Nat \ {0}
<1> DEFINE S == IF Voters # {} THEN Voters ELSE registered
<1>1. S \subseteq Agents
  BY DEF Voters
<1>2. Cardinality(S) \in Nat
  BY <1>1, FiniteAssumption, FS_Subset, FS_CardinalityType
<1>3. VotingPopulation = AtLeast(Cardinality(S), 1)
  BY DEF VotingPopulation
<1> QED
  BY <1>2, <1>3 DEF AtLeast

\* A requirement is positive in every mode.
LEMMA WantedType ==
  ASSUME config \in Configs, NEW n \in Nat \ {0}
  PROVE  Wanted(n) \in Nat \ {0}
<1>1. config \in Config
  BY ConfigAssumption
<1>2. config.minVotes \in Nat \ {0} /\ config.num \in Nat /\ config.den \in Nat \ {0}
  BY <1>1 DEF Config
<1>3. config.faultTolerance \in Nat \/ config.faultTolerance = None
  BY <1>1 DEF Config
<1> DEFINE f == FaultTolerance(n)
           q == AtLeast(config.minVotes, Ceiling(n * config.num, config.den))
<1>4. f \in Nat
  BY <1>3, NoneAssumption DEF FaultTolerance
<1>5. n * config.num \in Int
  BY <1>2
<1>6. Ceiling(n * config.num, config.den) \in Int
  BY <1>2, <1>5 DEF Ceiling
<1>7. q \in Nat \ {0}
  BY <1>2, <1>6 DEF AtLeast
<1>8. AtLeast(q, 3 * f + 1) \in Nat \ {0}
  BY <1>4, <1>7 DEF AtLeast
<1>9. Wanted(n) = IF config.mechanism \in {"bft", "hybrid"} THEN AtLeast(q, 3 * f + 1) ELSE q
  BY DEF Wanted
<1> QED
  BY <1>7, <1>8, <1>9

\* The terms of a new proposal have their types, and their quorum is feasible.
LEMMA TermsNowType ==
  ASSUME registered \subseteq Agents, config \in Configs
  PROVE  TermsNow \in Terms /\ TermsNow.required \in 1 .. TermsNow.population
<1>1. VotingPopulation \in Nat \ {0}
  BY PopulationType
<1>2. Wanted(VotingPopulation) \in Nat \ {0}
  BY <1>1, WantedType
<1>3. Clamped(Wanted(VotingPopulation), VotingPopulation) \in 1 .. VotingPopulation
  BY <1>1, <1>2 DEF Clamped
<1>4. Voters \subseteq Agents
  BY DEF Voters
<1>5. config.percent \in Nat
  BY ConfigAssumption DEF Config
<1> QED
  BY <1>1, <1>3, <1>4, <1>5 DEF TermsNow, Terms

-----------------------------------------------------------------------------
(* The votes of one proposal.                                               *)

\* A ballot with a yes, a no or nothing of every agent: the counts are numbers,
\* and nobody counts on both sides.
LEMMA Tally ==
  ASSUME NEW f \in [Agents -> Vote]
  PROVE  LET yes == {a \in Agents : f[a] = "yes"}
             no  == {a \in Agents : f[a] = "no"}
             all == {a \in Agents : f[a] # "none"}
         IN /\ Cardinality(yes) \in Nat
            /\ Cardinality(no) \in Nat
            /\ Cardinality(all) = Cardinality(yes) + Cardinality(no)
<1> DEFINE yes == {a \in Agents : f[a] = "yes"}
           no  == {a \in Agents : f[a] = "no"}
           all == {a \in Agents : f[a] # "none"}
<1>1. IsFiniteSet(yes) /\ IsFiniteSet(no)
  BY FiniteAssumption, FS_Subset
<1>2. all = yes \cup no
  BY DEF Vote
<1>3. yes \cap no = {}
  OBVIOUS
<1> HIDE DEF yes, no, all
<1>4. Cardinality(yes) \in Nat /\ Cardinality(no) \in Nat
  BY <1>1, FS_CardinalityType
<1>5. Cardinality(yes \cup no) = Cardinality(yes) + Cardinality(no) - Cardinality(yes \cap no)
  BY <1>1, FS_Union
<1>6. Cardinality(yes \cap no) = 0
  BY <1>3, FS_EmptySet
<1>7. /\ Cardinality(yes) \in Nat /\ Cardinality(no) \in Nat
      /\ Cardinality(all) = Cardinality(yes) + Cardinality(no)
  BY <1>2, <1>4, <1>5, <1>6
<1> QED
  BY <1>7 DEF yes, no, all

\* A vote raises the count of its side by one and leaves the other side's.
LEMMA VoteCounts ==
  ASSUME TypeOK, NEW p \in Proposals, NEW a \in Agents, NEW v \in {"yes", "no"},
         SubmitVote(p, a, v)
  PROVE  /\ Cardinality(Yes(p)') = Cardinality(Yes(p)) + (IF v = "yes" THEN 1 ELSE 0)
         /\ Cardinality(No(p)') = Cardinality(No(p)) + (IF v = "no" THEN 1 ELSE 0)
<1>1. IsFiniteSet(Yes(p)) /\ IsFiniteSet(No(p))
  BY FiniteAssumption, FS_Subset DEF Yes, No
<1>2. votes[p][a] = "none"
  BY DEF SubmitVote, MayVote, Voted
<1>3. votes'[p] = [votes[p] EXCEPT ![a] = v]
  BY DEF SubmitVote, TypeOK
<1>4. votes'[p][a] = v /\ \A b \in Agents \ {a} : votes'[p][b] = votes[p][b]
  BY <1>3 DEF TypeOK
<1>5. a \notin Yes(p) /\ a \notin No(p)
  BY <1>2 DEF Yes, No
<1>6. CASE v = "yes"
  <2>1. Yes(p)' = Yes(p) \cup {a} /\ No(p)' = No(p)
    BY <1>2, <1>4, <1>6 DEF Yes, No
  <2>2. Cardinality(Yes(p) \cup {a}) = Cardinality(Yes(p)) + 1
    BY <1>1, <1>5, FS_AddElement
  <2>3. Cardinality(No(p)) \in Nat
    BY <1>1, FS_CardinalityType
  <2>4. v # "no"
    BY <1>6
  <2> QED
    BY <1>6, <2>1, <2>2, <2>3, <2>4
<1>7. CASE v = "no"
  <2>1. No(p)' = No(p) \cup {a} /\ Yes(p)' = Yes(p)
    BY <1>2, <1>4, <1>7 DEF Yes, No
  <2>2. Cardinality(No(p) \cup {a}) = Cardinality(No(p)) + 1
    BY <1>1, <1>5, FS_AddElement
  <2>3. Cardinality(Yes(p)) \in Nat
    BY <1>1, FS_CardinalityType
  <2>4. v # "yes"
    BY <1>7
  <2> QED
    BY <1>7, <2>1, <2>2, <2>3, <2>4
<1> QED
  BY <1>6, <1>7

\* Where the votes of a proposal stay, so do its counts.
LEMMA SameVotes ==
  ASSUME NEW p \in Proposals, votes'[p] = votes[p]
  PROVE  Yes(p)' = Yes(p) /\ No(p)' = No(p) /\ Voted(p)' = Voted(p)
BY DEF Yes, No, Voted

-----------------------------------------------------------------------------
(* Inv is inductive.                                                        *)

\* What Inv says of one proposal.
Sound(p) ==
    LET yes == Cardinality(Yes(p))
        no  == Cardinality(No(p))
        t   == terms[p]
    IN /\ outcome[p] = "none" => Voted(p) = {}
       /\ t # None => t.required \in 1 .. t.population
       /\ outcome[p] = "open" =>
              yes < t.required /\ no < t.required /\ Cardinality(Voted(p)) < t.population
       /\ outcome[p] = "accepted" => yes = t.required /\ no < t.required
       /\ outcome[p] = "outvoted" => no = t.required /\ yes < t.required
       /\ outcome[p] \in {"exhausted", "timed out", "dropped"} =>
              yes < t.required /\ no < t.required

\* Inv says it of every proposal.
LEMMA InvIsSound == Inv <=> TypeOK /\ \A p \in Proposals : Sound(p)
BY DEF Inv, Sound, VotesHaveTerms, QuorumIsFeasible, OpenIsUndecided, DecisionMatchesVotes

\* A proposal no step touches stays sound.
LEMMA Untouched ==
  ASSUME NEW p \in Proposals, Sound(p), votes'[p] = votes[p], terms'[p] = terms[p],
         outcome'[p] = outcome[p]
  PROVE  Sound(p)'
BY SameVotes DEF Sound

\* The initial states satisfy it.
LEMMA InitInv == Init => Inv
<1> SUFFICES ASSUME Init PROVE Inv
  OBVIOUS
<1>1. TypeOK
  BY DEF Init, TypeOK, Outcome, Vote
<1>2. ASSUME NEW p \in Proposals PROVE Sound(p)
  BY DEF Init, Sound, Voted
<1> QED
  BY <1>1, <1>2, InvIsSound

\* Every step keeps the types.
LEMMA TypeStep ==
  ASSUME TypeOK, [Next]_vars
  PROVE  TypeOK'
<1>1. CASE UNCHANGED vars
  BY <1>1 DEF TypeOK, vars
<1>2. ASSUME NEW a \in Agents, RegisterAgent(a) \/ UnregisterAgent(a) PROVE TypeOK'
  BY <1>2 DEF TypeOK, RegisterAgent, UnregisterAgent
<1>3. ASSUME NEW c \in Configs, UpdateConfig(c) PROVE TypeOK'
  BY <1>3 DEF TypeOK, UpdateConfig
<1>4. ASSUME NEW p \in Proposals, ProposeConsensus(p) PROVE TypeOK'
  <2>1. TermsNow \in Terms
    BY TermsNowType DEF TypeOK
  <2>2. TermsNow # None
    BY <2>1, NoneAssumption
  <2> HIDE DEF TermsNow
  <2> QED
    BY <1>4, <2>1, <2>2 DEF TypeOK, ProposeConsensus, Outcome
<1>5. ASSUME NEW p \in Proposals, TimerFires(p) PROVE TypeOK'
  BY <1>5 DEF TypeOK, TimerFires, Outcome
<1>6. ASSUME NEW p \in Proposals, NEW a \in Agents, NEW v \in {"yes", "no"},
             SubmitVote(p, a, v)
      PROVE  TypeOK'
  <2>1. \A m, n, t : Verdict(m, n, t) \in Outcome \ {"none"}
    BY DEF Verdict, Outcome
  <2>2. PICK d \in Outcome \ {"none"} : outcome' = [outcome EXCEPT ![p] = d]
    BY <1>6, <2>1 DEF SubmitVote
  <2>3. outcome[p] # "none"
    BY <1>6 DEF SubmitVote, MayVote
  <2>4. votes' = [votes EXCEPT ![p][a] = v] /\ UNCHANGED <<registered, config, terms>>
    BY <1>6 DEF SubmitVote
  <2>5. votes' \in [Proposals -> [Agents -> Vote]]
    BY <2>4 DEF TypeOK, Vote
  <2> QED
    BY <2>2, <2>3, <2>4, <2>5 DEF TypeOK
<1>7. CASE Shutdown
  BY <1>7 DEF TypeOK, Shutdown, Outcome
<1> QED
  BY <1>1, <1>2, <1>3, <1>4, <1>5, <1>6, <1>7 DEF Next

\* Every step keeps a proposal sound.
LEMMA SoundStep ==
  ASSUME TypeOK, TypeOK', [Next]_vars, NEW p \in Proposals, Sound(p)
  PROVE  Sound(p)'
<1>1. CASE UNCHANGED <<terms, votes, outcome>>
  BY <1>1, Untouched
<1>2. ASSUME NEW q \in Proposals, ProposeConsensus(q) PROVE Sound(p)'
  <2>1. CASE q # p
    BY <1>2, <2>1, Untouched DEF ProposeConsensus, TypeOK
  <2>2. CASE q = p
    <3>1. terms'[p] = TermsNow /\ outcome'[p] = "open" /\ votes'[p] = votes[p]
      BY <1>2, <2>2 DEF ProposeConsensus, TypeOK
    <3>2. TermsNow.required \in 1 .. TermsNow.population /\ TermsNow \in Terms
      BY TermsNowType DEF TypeOK
    <3>3. TermsNow.required \in Nat \ {0} /\ TermsNow.population \in Nat \ {0}
      BY <3>2 DEF Terms
    <3>4. Voted(p) = {}
      BY <1>2, <2>2 DEF ProposeConsensus, Sound
    <3>5. Yes(p) = {} /\ No(p) = {}
      BY <3>4 DEF Voted, Yes, No
    <3>6. Yes(p)' = {} /\ No(p)' = {} /\ Voted(p)' = {}
      BY <3>1, <3>4, <3>5, SameVotes
    <3>7. Cardinality({}) = 0
      BY FS_EmptySet
    <3>8. /\ Cardinality(Yes(p)') = 0 /\ Cardinality(No(p)') = 0
          /\ Cardinality(Voted(p)') = 0
      BY <3>6, <3>7
    <3>9. terms'[p].required \in Nat \ {0} /\ terms'[p].population \in Nat \ {0}
      BY <3>1, <3>3
    <3>10. terms'[p].required \in 1 .. terms'[p].population
      BY <3>1, <3>2
    <3>11. /\ 0 < terms'[p].required /\ 0 < terms'[p].population
           /\ outcome'[p] = "open"
      BY <3>1, <3>9
    <3> QED
      BY <3>8, <3>10, <3>11 DEF Sound
  <2> QED
    BY <2>1, <2>2
<1>3. ASSUME NEW q \in Proposals, TimerFires(q) PROVE Sound(p)'
  <2>1. CASE q # p
    BY <1>3, <2>1, Untouched DEF TimerFires, TypeOK
  <2>2. CASE q = p
    <3>1. /\ outcome[p] = "open" /\ outcome'[p] = "timed out"
          /\ terms'[p] = terms[p] /\ votes'[p] = votes[p]
      BY <1>3, <2>2 DEF TimerFires, TypeOK
    <3> QED
      BY <3>1, SameVotes DEF Sound
  <2> QED
    BY <2>1, <2>2
<1>4. ASSUME NEW q \in Proposals, NEW a \in Agents, NEW v \in {"yes", "no"},
             SubmitVote(q, a, v)
      PROVE  Sound(p)'
  <2>1. CASE q # p
    BY <1>4, <2>1, Untouched DEF SubmitVote, TypeOK
  <2>2. CASE q = p
    <3> DEFINE yes == Cardinality(Yes(p))
               no  == Cardinality(No(p))
               t   == terms[p]
    <3>1. SubmitVote(p, a, v) /\ outcome[p] = "open"
      BY <1>4, <2>2 DEF SubmitVote, MayVote
    <3>2. votes[p] \in [Agents -> Vote] /\ votes'[p] \in [Agents -> Vote]
      BY DEF TypeOK
    <3>3. yes \in Nat /\ no \in Nat /\ yes' \in Nat /\ no' \in Nat
      BY <3>2, Tally DEF Yes, No
    <3>4. Cardinality(Voted(p)') = yes' + no'
      BY <3>2, Tally DEF Yes, No, Voted
    <3>5. \/ yes' = yes + 1 /\ no' = no
          \/ yes' = yes /\ no' = no + 1
      BY <3>1, <3>3, VoteCounts
    <3>6. yes < t.required /\ no < t.required
      BY <3>1 DEF Sound
    <3>7. t \in Terms /\ t.required \in Nat /\ t.population \in Nat
      BY <3>1 DEF TypeOK, Terms
    <3>8. terms'[p] = t /\ outcome'[p] = Verdict(yes', no', t)
      BY <3>1 DEF SubmitVote, TypeOK
    <3>9. t # None => t.required \in 1 .. t.population
      BY DEF Sound
    <3> HIDE DEF yes, no, t
    <3>10. \/ outcome'[p] = "accepted" /\ yes' >= t.required
           \/ outcome'[p] = "outvoted" /\ yes' < t.required /\ no' >= t.required
           \/ outcome'[p] = "exhausted" /\ yes' < t.required /\ no' < t.required
           \/ /\ outcome'[p] = "open" /\ yes' < t.required /\ no' < t.required
              /\ yes' + no' < t.population
      BY <3>3, <3>7, <3>8 DEF Verdict
    <3>11. \/ outcome'[p] = "accepted" /\ yes' = t.required /\ no' < t.required
           \/ outcome'[p] = "outvoted" /\ yes' < t.required /\ no' = t.required
           \/ outcome'[p] = "exhausted" /\ yes' < t.required /\ no' < t.required
           \/ /\ outcome'[p] = "open" /\ yes' < t.required /\ no' < t.required
              /\ yes' + no' < t.population
      BY <3>3, <3>5, <3>6, <3>7, <3>10
    <3> QED
      BY <3>4, <3>8, <3>9, <3>11 DEF Sound, yes, no, t
  <2> QED
    BY <2>1, <2>2
<1>5. CASE Shutdown
  <2>1. /\ terms'[p] = terms[p] /\ votes'[p] = votes[p]
        /\ outcome'[p] = IF outcome[p] = "open" THEN "dropped" ELSE outcome[p]
    BY <1>5 DEF Shutdown
  <2> QED
    BY <2>1, SameVotes DEF Sound
<1> QED
  BY <1>1, <1>2, <1>3, <1>4, <1>5
     DEF Next, vars, RegisterAgent, UnregisterAgent, UpdateConfig

\* The invariant is inductive: one step keeps it.
LEMMA InvStep ==
  ASSUME Inv, [Next]_vars
  PROVE  Inv'
<1>1. TypeOK /\ \A p \in Proposals : Sound(p)
  BY InvIsSound
<1>2. TypeOK'
  BY <1>1, TypeStep
<1>3. \A p \in Proposals : Sound(p)'
  BY <1>1, <1>2, SoundStep
<1> QED
  BY <1>2, <1>3
     DEF Inv, Sound, VotesHaveTerms, QuorumIsFeasible, OpenIsUndecided, DecisionMatchesVotes

-----------------------------------------------------------------------------
(* The theorems.                                                            *)

\* Everything Inv says holds in every reachable state.
THEOREM Invariance == Spec => []Inv
<1>1. Inv /\ [Next]_vars => Inv'
  BY InvStep
<1> QED
  BY InitInv, <1>1, PTL DEF Spec

\* An open proposal is one its votes do not settle, whatever became of the
\* registry and the configuration (checkConsensus).
THEOREM OpenUndecided == Spec => []OpenIsUndecided
<1>1. Inv => OpenIsUndecided
  BY DEF Inv
<1> QED
  BY Invariance, <1>1, PTL

\* A decision is the one its votes carry (finalizeConsensus).
THEOREM DecisionSound == Spec => []DecisionMatchesVotes
<1>1. Inv => DecisionMatchesVotes
  BY DEF Inv
<1> QED
  BY Invariance, <1>1, PTL

\* No mode and no configuration asks for more votes than there are voters, nor
\* for none (calculateRequirements).
THEOREM QuorumFeasible == Spec => []QuorumIsFeasible
<1>1. Inv => QuorumIsFeasible
  BY DEF Inv
<1> QED
  BY Invariance, <1>1, PTL

\* A decided proposal, its terms and its votes never change again.
THEOREM DecisionFinal == Spec => DecisionStands
<1> DEFINE Decided(p) == outcome[p] \notin {"none", "open"}
           Kept(p) == outcome'[p] = outcome[p] /\ votes'[p] = votes[p] /\ terms'[p] = terms[p]
<1>1. ASSUME TypeOK, [Next]_vars, NEW p \in Proposals, Decided(p) PROVE Kept(p)
  <2>1. CASE UNCHANGED <<terms, votes, outcome>>
    BY <2>1
  <2>2. ASSUME NEW q \in Proposals, ProposeConsensus(q) PROVE Kept(p)
    BY <1>1, <2>2 DEF ProposeConsensus, TypeOK
  <2>3. ASSUME NEW q \in Proposals, TimerFires(q) PROVE Kept(p)
    BY <1>1, <2>3 DEF TimerFires, TypeOK
  <2>4. ASSUME NEW q \in Proposals, NEW a \in Agents, NEW v \in {"yes", "no"},
               SubmitVote(q, a, v)
        PROVE  Kept(p)
    <3>1. p # q
      BY <1>1, <2>4 DEF SubmitVote, MayVote
    <3> QED
      BY <1>1, <2>4, <3>1 DEF SubmitVote, TypeOK
  <2>5. CASE Shutdown
    BY <1>1, <2>5 DEF Shutdown
  <2> QED
    BY <1>1, <2>1, <2>2, <2>3, <2>4, <2>5
       DEF Next, vars, RegisterAgent, UnregisterAgent, UpdateConfig
<1>2. TypeOK /\ [Next]_vars => [\A p \in Proposals : Decided(p) => Kept(p)]_vars
  BY <1>1
<1>3. Inv => TypeOK
  BY DEF Inv
<1> QED
  BY Invariance, <1>2, <1>3, PTL DEF Spec, DecisionStands
=============================================================================
