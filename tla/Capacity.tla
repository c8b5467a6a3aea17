------------------------------ MODULE Capacity ------------------------------
(***************************************************************************)
(* How a system grows and shrinks: the usage and the memory state kept by  *)
(* ResourceManager, the recommendations of AutoScaler (both                *)
(* src/core/resources.ts), deployAgent, the scaling handlers and the self- *)
(* healing of CodexSynapticSystem (src/core/system.ts).                    *)
(*                                                                         *)
(* Agents are counted by kind and status: a "helper" is of a type that     *)
(* retireIdleWorkers may retire, a "worker" of one it may not.  Memory is a*)
(* percentage of its limit.                                                *)
(***************************************************************************)
EXTENDS Integers, FiniteSets, SequencesExt

CONSTANTS
    Rotation,      \* the kinds of deployBalancedWorkers' rotation, in order
    BootCrew,      \* [Kinds -> Nat]: bootstrapDefaultAgents' counts
    MaxBatch,      \* agents an operator asks for at once
    MaxTimers,     \* bound on the redeployments that wait
    MaxBroken      \* bound on the agents in error or offline

Kinds == {"worker", "helper"}
Statuses == {"idle", "busy", "error", "offline"}

ASSUME CrewAssumption == BootCrew \in [Kinds -> Nat] /\ Rotation \in Seq(Kinds) \ {<<>>}
ASSUME BoundsAssumption == MaxBatch \in Nat /\ MaxTimers \in Nat /\ MaxBroken \in Nat

VARIABLES
    settings,     \* the configuration: maxAgents, maxActive, scaling, min, max, healing; and the
                  \* scenario: the samples (memory, seconds) a behaviour may find
    crew,         \* [Kinds -> [Statuses -> Nat]]: the registry
    activeAgents, \* ResourceManager.currentUsage.activeAgents
    memoryState,  \* ResourceManager.memoryState
    rss, cpu,     \* the last sample: RSS, and the cumulated CPU seconds it takes for a percentage
    cooling,      \* AutoScaler: less than cooldownMs since lastScaleAction
    healDelay,    \* kinds whose selfHealingCooldowns entry lies in the future
    healTimers    \* [Kinds -> Nat]: redeployments waiting for their timer

capVars == <<settings, crew, activeAgents, memoryState, rss, cpu, cooling, healDelay, healTimers>>

CpuLimit == 80      \* maxCpuPercent
MemoryStates == {"normal", "elevated", "critical"}

CapTypeOK ==
    /\ crew \in [Kinds -> [Statuses -> Nat]]
    /\ activeAgents \in Nat
    /\ memoryState \in MemoryStates
    /\ cooling \in BOOLEAN
    /\ healDelay \subseteq Kinds
    /\ healTimers \in [Kinds -> 0..MaxTimers]

OfKind(c, k) == c[k]["idle"] + c[k]["busy"] + c[k]["error"] + c[k]["offline"]
Total(c) == OfKind(c, "worker") + OfKind(c, "helper")
Broken == crew["worker"]["error"] + crew["worker"]["offline"]
          + crew["helper"]["error"] + crew["helper"]["offline"]
Smaller(a, b) == IF a < b THEN a ELSE b
Larger(a, b) == IF a > b THEN a ELSE b

-----------------------------------------------------------------------------
(* ResourceManager.                                                         *)

\* evaluateMemoryState: each state is left at a lower mark than it is entered at.
StateAfter(m) ==
    LET fresh == IF m >= 85 THEN "elevated" ELSE "normal" IN
    CASE memoryState = "critical" -> IF m < 95 THEN fresh ELSE "critical"
      [] memoryState = "elevated" -> IF m >= 100 THEN "critical"
                                     ELSE IF m < 80 THEN "normal" ELSE "elevated"
      [] OTHER -> IF m >= 100 THEN "critical" ELSE fresh

\* checkResourceAvailability; tasks are never counted (updateTaskCount has no caller).
Available(state, active) == state # "critical" /\ active < settings.maxActive

\* AutoScaler.scalingConfig: the configured range when scaling is enabled, 2..20 otherwise.
ScaleRange == IF settings.scaling THEN [min |-> settings.min, max |-> settings.max]
              ELSE [min |-> 2, max |-> 20]

\* evaluateScaling: how many agents to add (or, negative, to retire).  A percentage above
\* 80 calls for growth, one below 30 for retirement; CPU seconds count as a percentage.
Utilization(m, c) == Larger(m, (100 * c) \div CpuLimit)
ScaleBy(n, u) ==
    IF u > 80 /\ n < ScaleRange.max
    THEN Smaller(n + (n + 1) \div 2, ScaleRange.max) - n
    ELSE IF u < 30 /\ n > ScaleRange.min
    THEN Larger(n - (3 * n + 9) \div 10, ScaleRange.min) - n
    ELSE 0
Recommends(n, u) == (u > 80 /\ n < ScaleRange.max) \/ (u < 30 /\ n > ScaleRange.min)

-----------------------------------------------------------------------------
(* deployAgent and the changes of the crew.                                 *)

Counted(c) == Total(c)

\* updateAgentCount follows every change of the crew by a deployment or a scaling.
Crewed(after) ==
    \E c \in {after} :
        /\ crew' = c
        /\ activeAgents' = IF c = crew THEN activeAgents ELSE Counted(c)

\* deployAgent: refused when resources are short, cut to the configured maximum.
Deploy(c, k, n) ==
    [c EXCEPT ![k]["idle"] = @ + Smaller(n, Larger(settings.maxAgents - Total(c), 0))]
TryDeploy(ready, k, n) ==
    IF ready /\ Available(memoryState, activeAgents) THEN Deploy(crew, k, n) ELSE crew

\* deployBalancedWorkers and handleScaleUp: one deployAgent after the other, each of the next
\* kind of the rotation, until one is refused for lack of resources or of capacity.
ScaledUp(ready, n, state) ==
    LET room == Smaller(Larger(settings.maxAgents - Total(crew), 0),
                        Larger(settings.maxActive - Total(crew), 1))
        added == IF ready /\ Available(state, activeAgents) THEN Smaller(n, room) ELSE 0
        share(k) == Cardinality({i \in 1..added : Rotation[((i - 1) % Len(Rotation)) + 1] = k})
    IN  [k \in Kinds |-> [crew[k] EXCEPT !["idle"] = @ + share(k)]]

\* retireIdleWorkers and handleScaleDown: idle helpers leave one by one.  One missing to the
\* minimum is replaced at once (handleAgentUnregistered), if it may be deployed.
Retired(ready, n, state) ==
    LET wanted == Smaller(n, crew["helper"]["idle"])
        spare == Larger(Total(crew) - settings.min, 0)
        replaced == settings.healing /\ ready /\ Available(state, activeAgents)
    IN  [crew EXCEPT !["helper"]["idle"] = @ - IF replaced THEN Smaller(wanted, spare) ELSE wanted]

Scaled(ready, by, state) ==
    IF by > 0 THEN ScaledUp(ready, by, state)
    ELSE IF by < 0 THEN Retired(ready, -by, state) ELSE crew

\* bootstrapDefaultAgents: what is missing of the default crew.
Bootstrapped ==
    LET missing(k) == Larger(BootCrew[k] - OfKind(crew, k), 0)
    IN  Deploy(Deploy(crew, "worker", missing("worker")), "helper", missing("helper"))

-----------------------------------------------------------------------------
NoCrew == [k \in Kinds |-> [s \in Statuses |-> 0]]

CapInit ==
    /\ crew = NoCrew
    /\ activeAgents = 0
    /\ memoryState = "normal"
    /\ rss = 0 /\ cpu = 0
    /\ cooling = FALSE
    /\ healDelay = {}
    /\ healTimers = [k \in Kinds |-> 0]

\* A new system object starts from nothing.
CapReset ==
    /\ crew' = NoCrew /\ activeAgents' = 0
    /\ memoryState' = "normal" /\ rss' = 0 /\ cooling' = FALSE
    /\ healDelay' = {} /\ healTimers' = [k \in Kinds |-> 0]
    /\ UNCHANGED <<settings, cpu>>

\* updateResourceUsage, and evaluateScaling that listens to it, then handleScaleUp/Down.
Sample(ready, m, c) ==
    /\ c >= cpu
    /\ rss' = m /\ cpu' = c
    /\ \E u \in {Utilization(m, c)}, state \in {StateAfter(m)} :
          /\ memoryState' = state
          /\ cooling' = (cooling \/ Recommends(activeAgents, u))
          /\ IF cooling THEN UNCHANGED <<crew, activeAgents>>
             ELSE \E by \in {ScaleBy(activeAgents, u)} : Crewed(Scaled(ready, by, state))
    /\ UNCHANGED <<settings, healDelay, healTimers>>

CooldownPasses ==
    /\ cooling
    /\ cooling' = FALSE
    /\ UNCHANGED <<settings, crew, activeAgents, memoryState, rss, cpu, healDelay, healTimers>>

\* deployAgent for a command.
OperatorDeploys(ready, k, n) ==
    /\ Crewed(TryDeploy(ready, k, n))
    /\ UNCHANGED <<settings, memoryState, rss, cpu, cooling, healDelay, healTimers>>

Moved(k, from, to) == [crew EXCEPT ![k][from] = @ - 1, ![k][to] = @ + 1]

\* updateAgentStatus on behalf of the scheduler or the heartbeat check, and
\* handleAgentStatusChange: one timer per kind and cooldown, unless an agent of the kind
\* recovers, which forgets the cooldown but not the timer.
StatusChanges(k, from, to) ==
    /\ <<from, to>> \in {<<"idle", "busy">>, <<"busy", "idle">>, <<"busy", "error">>,
                         <<"error", "idle">>, <<"busy", "offline">>, <<"error", "offline">>}
    /\ crew[k][from] > 0
    /\ to \in {"error", "offline"} /\ from = "busy" => Broken < MaxBroken
    /\ crew' = Moved(k, from, to)
    /\ IF settings.healing /\ to \in {"error", "offline"} /\ k \notin healDelay
       THEN /\ healTimers["worker"] + healTimers["helper"] < MaxTimers
            /\ healDelay' = healDelay \cup {k}
            /\ healTimers' = [healTimers EXCEPT ![k] = @ + 1]
       ELSE /\ healDelay' = IF settings.healing /\ from = "error" /\ to = "idle"
                            THEN healDelay \ {k} ELSE healDelay
            /\ UNCHANGED healTimers
    /\ UNCHANGED <<settings, activeAgents, memoryState, rss, cpu, cooling>>

\* The timer of a redeployment; with the timer armed last its cooldown is over as well.
\* Nobody clears a timer when the system shuts down.
HealingFires(ready, k) ==
    /\ healTimers[k] > 0
    /\ healTimers' = [healTimers EXCEPT ![k] = @ - 1]
    /\ healDelay' = IF healTimers[k] = 1 THEN healDelay \ {k} ELSE healDelay
    /\ Crewed(TryDeploy(ready, k, 1))
    /\ UNCHANGED <<settings, memoryState, rss, cpu, cooling>>
=============================================================================
