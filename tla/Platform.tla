------------------------------ MODULE Platform ------------------------------
(***************************************************************************)
(* One process: the CLI session, the systems it boots one after the other, *)
(* and the crew of the newest of them.  An older one is shut down or never *)
(* got initialized, and deploys nothing.                                   *)
(***************************************************************************)
EXTENDS CliSession, Capacity

CONSTANTS
    Scenarios   \* the configurations, each with what a behaviour is about

ASSUME ScenariosAssumption ==
    /\ Scenarios # {}
    /\ \A c \in Scenarios :
        /\ c.maxAgents \in Nat /\ c.maxActive \in Nat /\ c.min \in Nat /\ c.max \in Nat
        /\ {c.scaling, c.healing, c.grows, c.faults} \subseteq BOOLEAN
        /\ c.users \subseteq Callers /\ c.boots \in Systems /\ c.stops \in Nat
        /\ c.memory \subseteq Nat /\ c.seconds \subseteq Nat

platformVars == <<lifeVars, sessionVars, capVars>>

Newest == built
DeploysOf(s) == s = Newest /\ initialized[s]

PlatformStart(c) ==
    /\ settings = c
    /\ LifeInit /\ SessionInit /\ CapInit

-----------------------------------------------------------------------------
\* BootSystem: the new system object has a registry and a resource manager of its own.
Boots(c) == built < settings.boots /\ BootSystem(c) /\ CapReset

\* The first sample is taken when the monitor starts, before anything may be deployed.
StartsMonitor(s) ==
    /\ ConfigLoaded(s)
    /\ \E m \in settings.memory, c \in settings.seconds : Sample(FALSE, m, c)
    /\ UNCHANGED sessionVars

\* The default agents are deployed between the probes and the API server.
Starts(s) ==
    /\ IF Available(memoryState, activeAgents)
       THEN Probed(s) /\ Crewed(Bootstrapped)
       ELSE ProbedInVain(s) /\ UNCHANGED <<crew, activeAgents>>
    /\ UNCHANGED <<sessionVars, settings, memoryState, rss, cpu, cooling, healDelay, healTimers>>

\* A bridge of the configuration cannot be connected.
BridgeFails(s) ==
    /\ settings.faults
    /\ ProbedInVain(s)
    /\ UNCHANGED <<sessionVars, capVars>>

LifeGoesOn(s) ==
    /\ \/ PortTaken(s) \/ Listens(s)
       \/ settings.faults /\ (ConfigUnreadable(s) \/ CannotListen(s))
       \/ settings.faults /\ RequestArrives(s)
       \/ RequestAnswered(s)
       \/ ApiClosed(s) \/ Halted(s)
    /\ UNCHANGED <<sessionVars, capVars>>

SessionGoesOn ==
    /\ \/ \E c \in settings.users : SessionStep(c)
       \/ BootDelivers \/ BootRejects \/ SessionEnds
       \/ shutdowns < settings.stops /\ SessionShutdown
    /\ UNCHANGED capVars

Crash == settings.faults /\ UncaughtError /\ UNCHANGED <<sessionVars, capVars>>

\* The ten-second interval of the newest system.
Samples ==
    /\ settings.grows
    /\ "monitor" \in up[Newest]
    /\ \E m \in settings.memory, c \in settings.seconds : Sample(DeploysOf(Newest), m, c)

CrewChanges ==
    /\ settings.grows
    /\ built > 0
    /\ \/ Samples
       \/ CooldownPasses
       \/ \E k \in Kinds, n \in 1..MaxBatch :
              Ready(Newest) /\ OperatorDeploys(DeploysOf(Newest), k, n)
       \/ \E k \in Kinds, a, b \in Statuses : "registry" \in up[Newest] /\ StatusChanges(k, a, b)
       \/ \E k \in Kinds : HealingFires(DeploysOf(Newest), k)
    /\ UNCHANGED <<lifeVars, sessionVars>>

PlatformNext ==
    /\ ~exited
    /\ \/ \E c \in settings.users : Boots(c)
       \/ \E s \in Systems :
              StartsMonitor(s) \/ Starts(s) \/ BridgeFails(s) \/ LifeGoesOn(s)
       \/ SessionGoesOn
       \/ Crash
       \/ CrewChanges

\* Reads, probes, the socket, the log and the handlers of requests come back; a waiting
\* caller is resumed.  Nobody has to call anything.
BootGoesOn(s) == /\ ~exited
                 /\ StartsMonitor(s) \/ Starts(s)
                    \/ (Listens(s) /\ UNCHANGED <<sessionVars, capVars>>)
HaltGoesOn(s) == /\ ~exited
                 /\ RequestAnswered(s) \/ ApiClosed(s) \/ Halted(s)
                 /\ UNCHANGED <<sessionVars, capVars>>
CallerGoesOn(c) == /\ ~exited
                   /\ c \in settings.users
                   /\ \/ (TakeLock(c) \/ FindsSystem(c)) /\ UNCHANGED capVars
                      \/ Boots(c)
SessionSettles == /\ ~exited
                  /\ BootDelivers \/ BootRejects \/ SessionEnds
                  /\ UNCHANGED capVars

-----------------------------------------------------------------------------
TypeOK == LifeTypeOK /\ SessionTypeOK /\ CapTypeOK

\* However callers, failed boots and shutdowns interleave, at most one system of the process
\* is initialized and not shutting down (CliSession.ensureSystem).
OneLiveSystem == Cardinality({s \in Systems : Ready(s)}) <= 1

\* What a system reports of itself is so.  One that is ready has all its components, its
\* monitor and its health checks running: nothing but its memory may fail a health check.
\* Of one whose shutdown has ended nothing runs on (its monitor, its API server, a timer).
\* The process answers signals exactly while its session has a system.  The count of agents
\* that the limits and the auto-scaler go by is that of the registered ones, which no path of
\* deployment takes over the configured maximum.  And the memory state is one the last sample
\* admits: hysteresis never reports normal at or above 85 % of the limit, elevated below 80 %
\* or from the limit on, critical below 95 % (initialize, shutdown, deployAgent,
\* updateResourceUsage).
ReadyMeansRunning ==
    \A s \in Systems : Ready(s) =>
        /\ Core \cup {"monitor", "health"} \subseteq up[s]
        /\ FailedChecks(s, memoryState) \subseteq {"memory-usage"}
HaltedIsQuiet == \A s \in Systems : halt[s] = "done" /\ ~exited => up[s] = {}
UsageIsExact == activeAgents = Total(crew) /\ Total(crew) <= settings.maxAgents
MemoryStateFits ==
    CASE memoryState = "normal" -> rss < 85
      [] memoryState = "elevated" -> rss >= 80 /\ rss < 100
      [] OTHER -> rss >= 95
StatusIsHonest ==
    TypeOK /\ ReadyMeansRunning /\ HaltedIsQuiet /\ (hooks <=> system # NoSystem) /\ UsageIsExact /\ MemoryStateFits

\* Every caller of ensureSystem gets a system or an error and every session shutdown ends,
\* unless the process exits (or a behaviour has used up the systems it may boot).
Stuck == exited \/ (built = settings.boots /\ \E c \in Callers : caller[c] = "locked")
SessionCallsEnd ==
    /\ \A c \in Callers : []<>(caller[c] \notin {"lock", "locked", "boot"} \/ Stuck)
    /\ []<>(~ending \/ exited)
=============================================================================
