------------------------- MODULE HostProcess_proofs -------------------------
(***************************************************************************)
(* Proofs about HostProcess, for any number of systems, callers, agents,   *)
(* requests and tenants: a process has one live system at most, which is   *)
(* what it says it is, and tenants that were acknowledged are kept.        *)
(***************************************************************************)
EXTENDS HostProcess, FiniteSetTheorems, WellFoundedInduction, TLAPS

\* What a step of the host is to Platform and to FrontDoor.
LEMMA HostSteps ==
    ASSUME [HostNext]_hostVars
    PROVE  /\ PlatformNext \/ UNCHANGED platformVars
           /\ DoorNext \/ UNCHANGED doorVars
BY DEF HostNext, On, hostVars

-----------------------------------------------------------------------------
(* Boots, halts and the session: the inductive invariant.                   *)

Underway == {"config", "probe", "listen", "relisten"}

\* A system that boots is the one the session waits for, one that is ready is that or the
\* session's own, and what runs of it fits how far it has booted or halted.
SystemAt(s) ==
    /\ s > built => boot[s] = "none" /\ ~shuttingDown[s]
    /\ Ready(s) => s \in {system, startPromise}
    /\ boot[s] \in Underway => s = startPromise
    /\ initialized[s] => boot[s] \in {"listen", "relisten", "up"}
    /\ halt[s] # "no" <=> shuttingDown[s]
    /\ s \in dying => shuttingDown[s] /\ (halt[s] = "done" => exited)
    /\ shuttingDown[s] /\ s \notin dying => boot[s] = "up"

PartsAt(s) ==
    /\ Ready(s) => Core \cup {"monitor", "health"} \subseteq up[s]
    /\ boot[s] = "probe" /\ ~shuttingDown[s] => "monitor" \in up[s]
    /\ halt[s] = "closing" /\ s \notin dying => up[s] \subseteq {"monitor", "api"}
    /\ halt[s] \in {"flushing", "done"} /\ s \notin dying => up[s] = {}

\* The session has one system or waits for one, and its signal handlers go with the system.
SessionInv ==
    /\ system # NoSystem => startPromise = NoSystem /\ boot[system] = "up"
    /\ ending => system # NoSystem
    /\ hooks <=> system # NoSystem

ProcessInv ==
    /\ LifeTypeOK /\ SessionTypeOK /\ SessionInv
    /\ \A s \in Systems : SystemAt(s) /\ PartsAt(s)

\* The numbers of the systems.
LEMMA Numbers ==
    /\ Systems \subseteq Nat \ {0} /\ NoSystem \notin Systems
    /\ \A s \in Systems : 1..s \subseteq Systems
<1>1. Cardinality(Systems) \in Nat
  BY SystemsAssumption, FS_CardinalityType
<1>2. Systems = 1..Cardinality(Systems)
  BY SystemsAssumption
<1> DEFINE n == Cardinality(Systems)
<1> HIDE DEF n
<1>3. n \in Nat /\ Systems = 1..n
  BY <1>1, <1>2 DEF n
<1> QED BY <1>3, CallersAssumption

\* No system is built at first, and the session has none.
LEMMA ProcessStarts == HostInit => ProcessInv
<1> SUFFICES ASSUME HostInit PROVE ProcessInv
  OBVIOUS
<1>1. LifeInit /\ SessionInit
  BY DEF HostInit, PlatformStart
<1>2. LifeTypeOK /\ SessionTypeOK
  <2>1. SessionTypeOK
    BY <1>1 DEF SessionInit, SessionTypeOK, CallerPlaces
  <2>2. requests \in [Systems -> 0..MaxRequests] /\ up \in [Systems -> SUBSET Parts]
    BY <1>1, RequestsAssumption DEF LifeInit
  <2>3. boot \in [Systems -> BootPlaces] /\ halt \in [Systems -> HaltPlaces]
    BY <1>1 DEF LifeInit, BootPlaces, HaltPlaces
  <2>4. initialized \in [Systems -> BOOLEAN] /\ shuttingDown \in [Systems -> BOOLEAN]
    BY <1>1 DEF LifeInit
  <2> QED BY <1>1, <2>1, <2>2, <2>3, <2>4 DEF LifeInit, LifeTypeOK
<1>3. SessionInv
  BY <1>1 DEF SessionInit, SessionInv
<1>4. \A s \in Systems : SystemAt(s) /\ PartsAt(s)
  BY <1>1 DEF LifeInit, SystemAt, PartsAt, Ready, Underway
<1> QED BY <1>2, <1>3, <1>4 DEF ProcessInv

-----------------------------------------------------------------------------
(* The steps that leave the session alone.                                  *)

\* What a step of one system leaves of the others.
OthersStay(s) ==
    \A o \in Systems \ {s} : /\ boot'[o] = boot[o] /\ halt'[o] = halt[o] /\ up'[o] = up[o]
                             /\ initialized'[o] = initialized[o] /\ shuttingDown'[o] = shuttingDown[o]
SessionStays == UNCHANGED <<system, startPromise, ending, hooks>>

\* A step that touches one system keeps the invariant, if what it says of that system is kept.
LEMMA OneSystemKeeps ==
    ASSUME ProcessInv, NEW s \in Systems, LifeTypeOK', SessionTypeOK', SessionStays,
           UNCHANGED <<built, dying>>, exited => exited', OthersStay(s),
           boot[s] = "up" => boot'[s] = "up", SystemAt(s)', PartsAt(s)'
    PROVE  ProcessInv'
<1> USE DEF SessionStays
<1>1. SessionInv'
  BY DEF ProcessInv, SessionInv, SessionTypeOK, OthersStay
<1>2. ASSUME NEW o \in Systems \ {s} PROVE SystemAt(o)' /\ PartsAt(o)'
  BY <1>2 DEF ProcessInv, OthersStay, SystemAt, PartsAt, Ready
<1> QED BY <1>1, <1>2 DEF ProcessInv

\* The steps of initialize, of shutdown and of requests keep the invariant.
SystemSteps(s) ==
    \/ ConfigLoaded(s) \/ Probed(s) \/ ProbedInVain(s) \/ PortTaken(s) \/ Listens(s)
    \/ ConfigUnreadable(s) \/ CannotListen(s)
    \/ RequestArrives(s) \/ RequestAnswered(s) \/ ApiClosed(s) \/ Halted(s)

\* Booting, halting and requests keep the invariant.
LEMMA SystemStepsKeep ==
    ASSUME ProcessInv, ~exited, NEW s \in Systems, SystemSteps(s), UNCHANGED sessionVars
    PROVE  ProcessInv'
<1> USE DEF SystemSteps, ConfigUnreadable, CannotListen, BootFails
<1>1. LifeTypeOK /\ SessionTypeOK /\ SystemAt(s) /\ PartsAt(s) /\ SessionInv
  BY DEF ProcessInv
<1>2. SessionTypeOK' /\ SessionStays
  BY <1>1 DEF sessionVars, SessionTypeOK, SessionStays
<1>3. UNCHANGED <<built, dying>> /\ OthersStay(s)
  BY <1>1 DEF LifeTypeOK, OthersStay, ConfigLoaded, Probed, ProbedInVain, PortTaken, Listens,
        RequestArrives, RequestAnswered, ApiClosed, Halted
<1>4. boot[s] = "up" => boot'[s] = "up"
  BY <1>1 DEF LifeTypeOK, ConfigLoaded, Probed, ProbedInVain, PortTaken, Listens,
        RequestArrives, RequestAnswered, ApiClosed, Halted
<1>5. LifeTypeOK'
  <2>1. CASE RequestArrives(s) \/ RequestAnswered(s)
    BY <1>1, <2>1, RequestsAssumption DEF LifeTypeOK, RequestArrives, RequestAnswered
  <2>2. CASE ApiClosed(s) \/ Halted(s)
    <3>1. halt' \in [Systems -> HaltPlaces]
      BY <1>1, <2>2 DEF LifeTypeOK, HaltPlaces, ApiClosed, Halted
    <3>3. exited' \in BOOLEAN
      <4>1. exited' = exited \/ exited' = (s \in dying)
        BY <2>2 DEF ApiClosed, Halted
      <4>2. exited \in BOOLEAN /\ (s \in dying) \in BOOLEAN
        BY <1>1 DEF LifeTypeOK
      <4> QED BY <4>1, <4>2
    <3>2. up' \in [Systems -> SUBSET Parts]
      BY <1>1, <2>2 DEF LifeTypeOK, ApiClosed, Halted
    <3> QED BY <1>1, <2>2, <3>1, <3>2, <3>3 DEF LifeTypeOK, ApiClosed, Halted
  <2>3. CASE ConfigLoaded(s) \/ Probed(s) \/ ProbedInVain(s) \/ PortTaken(s) \/ Listens(s)
             \/ ConfigUnreadable(s) \/ CannotListen(s)
    <3> USE DEF ConfigLoaded, Probed, ProbedInVain, PortTaken, Listens
    <3>1. boot' \in [Systems -> BootPlaces]
      BY <1>1, <2>3 DEF LifeTypeOK, BootPlaces
    <3>2. initialized' \in [Systems -> BOOLEAN]
      BY <1>1, <2>3 DEF LifeTypeOK
    <3>3. {"cleanup", "monitor", "health", "api"} \cup Core \subseteq Parts
      BY DEF Parts
    <3>4. up' \in [Systems -> SUBSET Parts]
      BY <1>1, <2>3, <3>3 DEF LifeTypeOK
    <3> QED BY <1>1, <2>3, <3>1, <3>2, <3>4 DEF LifeTypeOK
  <2> QED BY <2>1, <2>2, <2>3
<1>6. SystemAt(s)'
  <2> USE DEF SystemAt, Ready, Underway
  <2>1. CASE RequestArrives(s) \/ RequestAnswered(s)
    BY <1>1, <1>2, <2>1 DEF LifeTypeOK, SessionStays, RequestArrives, RequestAnswered
  <2>2. CASE ApiClosed(s) \/ Halted(s)
    BY <1>1, <1>2, <2>2 DEF LifeTypeOK, SessionStays, ApiClosed, Halted
  <2>3. CASE ConfigLoaded(s) \/ PortTaken(s) \/ Listens(s)
    BY <1>1, <1>2, <2>3 DEF LifeTypeOK, SessionStays, ConfigLoaded, PortTaken, Listens
  <2>4. CASE Probed(s) \/ ProbedInVain(s)
    BY <1>1, <1>2, <2>4 DEF LifeTypeOK, SessionStays, Probed, ProbedInVain
  <2>5. CASE ConfigUnreadable(s) \/ CannotListen(s)
    BY <1>1, <1>2, <2>5 DEF LifeTypeOK, SessionStays
  <2> QED BY <2>1, <2>2, <2>3, <2>4, <2>5
<1>7. PartsAt(s)'
  <2> USE DEF PartsAt, SystemAt, Ready
  <2>1. CASE RequestArrives(s) \/ RequestAnswered(s)
    BY <1>1, <2>1 DEF LifeTypeOK, RequestArrives, RequestAnswered
  <2>2. CASE ApiClosed(s) \/ Halted(s)
    BY <1>1, <2>2 DEF LifeTypeOK, ApiClosed, Halted, InfraDown
  <2>3. CASE ConfigLoaded(s) \/ PortTaken(s) \/ Listens(s)
    BY <1>1, <2>3 DEF LifeTypeOK, ConfigLoaded, PortTaken, Listens, Core
  <2>4. CASE Probed(s) \/ ProbedInVain(s)
    BY <1>1, <2>4 DEF LifeTypeOK, Probed, ProbedInVain, Core
  <2>5. CASE ConfigUnreadable(s) \/ CannotListen(s)
    BY <1>1, <2>5 DEF LifeTypeOK
  <2> QED BY <2>1, <2>2, <2>3, <2>4, <2>5
<1> QED BY <1>2, <1>3, <1>4, <1>5, <1>6, <1>7, OneSystemKeeps

-----------------------------------------------------------------------------
(* The steps of the session, and uncaught errors.                           *)

\* A caller that looks, takes the lock or is given the system changes neither.
LEMMA CallersKeep ==
    ASSUME ProcessInv, NEW c \in Callers, SessionStep(c) PROVE ProcessInv'
<1>1. UNCHANGED <<lifeVars, system, startPromise, ending, hooks, shutdowns>>
  BY DEF SessionStep, Ensure, TakeLock, FindsSystem
<1>2. SessionTypeOK'
  <2>1. given' \in [Callers -> Systems \cup {NoSystem}] /\ caller' \in [Callers -> CallerPlaces]
    BY DEF ProcessInv, SessionTypeOK, SessionStep, Ensure, TakeLock, FindsSystem, Give, CallerPlaces
  <2>2. initLock' \in Callers \cup {NoSystem}
    BY DEF ProcessInv, SessionTypeOK, SessionStep, Ensure, TakeLock, FindsSystem, Released
  <2> QED BY <1>1, <2>1, <2>2 DEF ProcessInv, SessionTypeOK
<1> QED BY <1>1, <1>2 DEF ProcessInv, LifeTypeOK, SessionInv, SystemAt, PartsAt, Ready, lifeVars

\* A boot begins when the session has no system and waits for none.
LEMMA BootBeginKeeps ==
    ASSUME ProcessInv, NEW c \in Callers, BootSystem(c) PROVE ProcessInv'
<1>1. PICK s \in Systems : Construct(s) /\ startPromise' = s
  BY DEF BootSystem
<1>2. system = NoSystem /\ startPromise = NoSystem
  BY DEF BootSystem, Rechecks
<1>3. s \in Nat /\ built \in Nat /\ s = built + 1 /\ s # NoSystem /\ NoSystem \notin Systems
  BY <1>1, Numbers DEF Construct, ProcessInv, LifeTypeOK
<1>4. LifeTypeOK'
  BY <1>1 DEF ProcessInv, LifeTypeOK, Construct, BootPlaces
<1>5. SessionTypeOK'
  BY <1>1 DEF ProcessInv, SessionTypeOK, BootSystem, CallerPlaces
<1>6. SessionInv'
  BY <1>2 DEF ProcessInv, SessionInv, BootSystem
<1>7. SystemAt(s)' /\ PartsAt(s)'
  BY <1>1, <1>3 DEF ProcessInv, LifeTypeOK, SystemAt, PartsAt, Ready, Construct, Underway
<1>8. ASSUME NEW o \in Systems \ {s} PROVE SystemAt(o)' /\ PartsAt(o)'
  <2>1. o \in Nat
    BY Numbers
  <2>2. SystemAt(o) /\ PartsAt(o) /\ boot'[o] = boot[o]
    BY <1>1 DEF ProcessInv, LifeTypeOK, Construct
  <2>3. ~Ready(o) /\ boot[o] \notin Underway
    BY <1>2, <1>3, <2>2 DEF SystemAt
  <2>4. UNCHANGED <<halt, up, initialized, shuttingDown, dying, exited>> /\ built' = built + 1
    BY <1>1, <1>3 DEF Construct
  <2> QED BY <1>3, <2>1, <2>2, <2>3, <2>4 DEF SystemAt, PartsAt, Ready
<1> QED BY <1>4, <1>5, <1>6, <1>7, <1>8 DEF ProcessInv

\* A boot ends, or the session's shutdown.
LEMMA SessionSettlesKeeps ==
    ASSUME ProcessInv, BootDelivers \/ BootRejects \/ SessionEnds PROVE ProcessInv'
<1>1. UNCHANGED lifeVars /\ LifeTypeOK' /\ LifeTypeOK /\ SessionTypeOK /\ SessionInv
  BY DEF ProcessInv, LifeTypeOK, lifeVars, BootDelivers, BootRejects, SessionEnds
<1>2. SessionTypeOK'
  <2>1. initLock' \in Callers \cup {NoSystem}
    BY <1>1 DEF SessionTypeOK, BootDelivers, BootRejects, SessionEnds, LockAfterBoot, Released
  <2>2. caller' \in [Callers -> CallerPlaces]
    BY <1>1 DEF SessionTypeOK, BootDelivers, BootRejects, SessionEnds, CallerPlaces
  <2>3. given' \in [Callers -> Systems \cup {NoSystem}]
    BY <1>1 DEF SessionTypeOK, BootDelivers, BootRejects, SessionEnds
  <2> QED BY <1>1, <2>1, <2>2, <2>3 DEF SessionTypeOK, BootDelivers, BootRejects, SessionEnds
<1>3. SessionInv'
  BY <1>1 DEF SessionInv, BootDelivers, BootRejects, SessionEnds, lifeVars
<1>4. ASSUME NEW s \in Systems PROVE SystemAt(s)' /\ PartsAt(s)'
  <2>1. SystemAt(s) /\ PartsAt(s)
    BY DEF ProcessInv
  <2>2. PartsAt(s)'
    BY <1>1, <2>1 DEF PartsAt, Ready, lifeVars
  <2>3. Ready(s)' => s \in {system', startPromise'}
    <3>1. CASE BootDelivers
      BY <1>1, <2>1, <3>1, Numbers DEF BootDelivers, SystemAt, Ready, SessionInv, lifeVars
    <3>2. CASE BootRejects
      BY <1>1, <2>1, <3>2 DEF BootRejects, SystemAt, Ready, lifeVars
    <3>3. CASE SessionEnds
      <4>1. system \in Systems /\ startPromise = NoSystem
        BY <1>1, <3>3 DEF SessionEnds, SessionInv, SessionTypeOK
      <4>2. shuttingDown[system]
        BY <3>3, <4>1 DEF SessionEnds, ProcessInv, SystemAt
      <4> QED BY <1>1, <2>1, <4>1, <4>2, Numbers DEF SystemAt, Ready, lifeVars
    <3> QED BY <3>1, <3>2, <3>3
  <2>4. boot'[s] \in Underway => s = startPromise'
    <3>1. CASE BootDelivers \/ BootRejects
      BY <1>1, <2>1, <3>1 DEF BootDelivers, BootRejects, SystemAt, Underway, lifeVars
    <3>2. CASE SessionEnds
      BY <1>1, <2>1, <3>2, Numbers DEF SessionEnds, SystemAt, SessionInv, lifeVars
    <3> QED BY <3>1, <3>2
  <2> QED BY <1>1, <2>1, <2>2, <2>3, <2>4 DEF SystemAt, lifeVars
<1> QED BY <1>1, <1>2, <1>3, <1>4 DEF ProcessInv

\* Systems S stop, those of by for an uncaught error.
LEMMA BeginShutdownKeeps ==
    ASSUME ProcessInv, NEW S \in SUBSET Systems, NEW by \in SUBSET S, BeginShutdown(S, by),
           \A s \in S : ~shuttingDown[s] /\ s <= built /\ (s \notin by => boot[s] = "up"),
           UNCHANGED <<built, boot, initialized, requests, system, startPromise>>,
           exited' \in BOOLEAN, exited => exited'
    PROVE  LifeTypeOK' /\ \A s \in Systems : SystemAt(s)' /\ PartsAt(s)'
<1>1. LifeTypeOK'
  <2>1. up' \in [Systems -> SUBSET Parts]
    BY DEF ProcessInv, LifeTypeOK, BeginShutdown
  <2>2. halt' \in [Systems -> HaltPlaces]
    BY DEF ProcessInv, LifeTypeOK, BeginShutdown, HaltPlaces
  <2>3. shuttingDown' \in [Systems -> BOOLEAN]
    BY DEF ProcessInv, LifeTypeOK, BeginShutdown
  <2> QED BY <2>1, <2>2, <2>3 DEF ProcessInv, LifeTypeOK, BeginShutdown
<1>2. ASSUME NEW s \in S PROVE SystemAt(s)' /\ PartsAt(s)'
  <2>1. s \in Nat /\ built \in Nat /\ SystemAt(s) /\ PartsAt(s) /\ up[s] \subseteq Parts
    BY Numbers DEF ProcessInv, LifeTypeOK
  <2>2. shuttingDown'[s] /\ halt'[s] = "closing" /\ up'[s] = up[s] \ (Core \cup {"cleanup", "health"})
    BY DEF BeginShutdown
  <2>3. up'[s] \subseteq {"monitor", "api"}
    BY <2>1, <2>2 DEF Parts
  <2>4. s \notin dying
    BY <2>1 DEF SystemAt
  <2>5. dying' = dying \cup by
    BY DEF BeginShutdown
  <2> QED BY <2>1, <2>2, <2>3, <2>4, <2>5 DEF SystemAt, PartsAt, Ready
<1>3. ASSUME NEW s \in Systems \ S PROVE SystemAt(s)' /\ PartsAt(s)'
  <2>1. SystemAt(s) /\ PartsAt(s)
    BY DEF ProcessInv
  <2>2. shuttingDown'[s] = shuttingDown[s] /\ halt'[s] = halt[s] /\ up'[s] = up[s] /\ (s \in dying' <=> s \in dying)
    BY DEF BeginShutdown, ProcessInv, LifeTypeOK
  <2> QED BY <2>1, <2>2 DEF SystemAt, PartsAt, Ready
<1> QED BY <1>1, <1>2, <1>3

\* The session gives up its system, which begins to stop unless it does already.
LEMMA SessionShutdownKeeps ==
    ASSUME ProcessInv, SessionShutdown PROVE ProcessInv'
<1>1. SessionTypeOK' /\ SessionTypeOK /\ SessionInv
  <2>1. SessionTypeOK /\ SessionInv
    BY DEF ProcessInv
  <2>2. ending' \in BOOLEAN /\ hooks' \in BOOLEAN
    BY <2>1 DEF SessionTypeOK, SessionShutdown
  <2> QED BY <2>1, <2>2 DEF SessionTypeOK, SessionShutdown
<1>2. CASE UNCHANGED lifeVars
  <2>1. SessionInv'
    BY <1>1, <1>2 DEF SessionInv, SessionShutdown, lifeVars
  <2> QED BY <1>1, <1>2, <2>1 DEF ProcessInv, LifeTypeOK, SystemAt, PartsAt, Ready, lifeVars, SessionShutdown
<1>3. CASE ~UNCHANGED lifeVars
  <2>1. /\ system # NoSystem /\ ~shuttingDown[system] /\ BeginShutdown({system}, {})
        /\ UNCHANGED <<built, boot, initialized, requests, exited, hooks, system, startPromise>>
    BY <1>3 DEF SessionShutdown
  <2>2. system \in Systems /\ boot[system] = "up"
    BY <1>1, <2>1 DEF SessionTypeOK, SessionInv
  <2>3. system <= built
    <3>1. system \in Nat /\ built \in Nat /\ SystemAt(system)
      BY <2>2, Numbers DEF ProcessInv, LifeTypeOK
    <3> QED BY <2>2, <3>1 DEF SystemAt
  <2>4. exited' \in BOOLEAN
    BY <2>1 DEF ProcessInv, LifeTypeOK
  <2>5. LifeTypeOK' /\ \A s \in Systems : SystemAt(s)' /\ PartsAt(s)'
    BY <2>1, <2>2, <2>3, <2>4, BeginShutdownKeeps
  <2>6. SessionInv'
    BY <1>1, <2>1 DEF SessionInv
  <2> QED BY <1>1, <2>5, <2>6 DEF ProcessInv
<1> QED BY <1>2, <1>3

\* An uncaught error stops every system that is not yet stopping, or ends the process.
LEMMA UncaughtErrorKeeps ==
    ASSUME ProcessInv, ~exited, UncaughtError, UNCHANGED sessionVars PROVE ProcessInv'
<1> DEFINE live == {s \in 1..built : ~shuttingDown[s]}
<1>1. BeginShutdown(live, live) /\ exited' = (live # 1..built) /\ UNCHANGED <<built, boot, initialized, requests>>
  BY DEF UncaughtError
<1>2. live \subseteq Systems /\ \A s \in live : s <= built
  <2>1. built \in Systems
    BY DEF ProcessInv, LifeTypeOK, UncaughtError
  <2>2. built \in Nat /\ 1..built \subseteq Systems
    BY <2>1, Numbers
  <2> QED BY <2>2
<1>3. \A s \in live : ~shuttingDown[s]
  OBVIOUS
<1>4. UNCHANGED <<system, startPromise, ending, hooks>> /\ SessionTypeOK'
  BY DEF sessionVars, ProcessInv, SessionTypeOK
<1>5. exited' \in BOOLEAN
  BY <1>1
<1> HIDE DEF live
<1>6. LifeTypeOK' /\ \A s \in Systems : SystemAt(s)' /\ PartsAt(s)'
  BY <1>1, <1>2, <1>3, <1>4, <1>5, BeginShutdownKeeps
<1>7. SessionInv'
  BY <1>1, <1>4 DEF ProcessInv, SessionInv
<1> QED BY <1>4, <1>6, <1>7 DEF ProcessInv

\* Every step of the process.
LEMMA ProcessStep ==
    ASSUME ProcessInv, settings \in Scenarios, PlatformNext \/ UNCHANGED platformVars PROVE ProcessInv'
<1>1. CASE UNCHANGED platformVars
  BY <1>1 DEF platformVars, lifeVars, sessionVars, ProcessInv, LifeTypeOK, SessionTypeOK, SessionInv,
              SystemAt, PartsAt, Ready
<1>2. CASE PlatformNext
  <2>1. settings.users \subseteq Callers /\ ~exited
    BY <1>2, ScenariosAssumption DEF PlatformNext
  <2>2. ASSUME NEW c \in settings.users, Boots(c) PROVE ProcessInv'
    BY <2>1, <2>2, BootBeginKeeps DEF Boots
  <2>3. ASSUME NEW s \in Systems, StartsMonitor(s) \/ Starts(s) \/ BridgeFails(s) \/ LifeGoesOn(s)
        PROVE  ProcessInv'
    <3>1. SystemSteps(s) /\ UNCHANGED sessionVars
      BY <2>3 DEF StartsMonitor, Starts, BridgeFails, LifeGoesOn, SystemSteps
    <3> QED BY <2>1, <3>1, SystemStepsKeep
  <2>4. CASE SessionGoesOn
    <3>1. ASSUME NEW c \in settings.users, SessionStep(c) PROVE ProcessInv'
      BY <2>1, <3>1, CallersKeep
    <3> QED BY <2>4, <3>1, SessionSettlesKeeps, SessionShutdownKeeps DEF SessionGoesOn
  <2>5. CASE Crash
    BY <2>1, <2>5, UncaughtErrorKeeps DEF Crash
  <2>6. CASE CrewChanges
    BY <2>6 DEF CrewChanges, lifeVars, sessionVars, ProcessInv, LifeTypeOK, SessionTypeOK, SessionInv,
                SystemAt, PartsAt, Ready
  <2> QED BY <1>2, <2>2, <2>3, <2>4, <2>5, <2>6 DEF PlatformNext
<1> QED BY <1>1, <1>2

\* At most one system is ready, and the session's answers follow.
LEMMA ProcessIsSound ==
    ASSUME ProcessInv PROVE OneLiveSystem /\ ReadyMeansRunning /\ HaltedIsQuiet /\ (hooks <=> system # NoSystem)
<1>1. OneLiveSystem
  <2> DEFINE live == {s \in Systems : Ready(s)}
             only == IF system # NoSystem THEN system ELSE startPromise
  <2>1. live \subseteq {only}
    BY Numbers DEF ProcessInv, SessionInv, SystemAt
  <2>2. IsFiniteSet({only}) /\ Cardinality({only}) = 1
    BY FS_Singleton
  <2> HIDE DEF live, only
  <2>3. IsFiniteSet(live) /\ Cardinality(live) <= 1
    BY <2>1, <2>2, FS_Subset
  <2> QED BY <2>3 DEF OneLiveSystem, live
<1>2. ReadyMeansRunning
  <2> SUFFICES ASSUME NEW s \in Systems, Ready(s)
               PROVE  /\ Core \cup {"monitor", "health"} \subseteq up[s]
                      /\ FailedChecks(s, memoryState) \subseteq {"memory-usage"}
    BY DEF ReadyMeansRunning
  <2>1. Core \cup {"monitor", "health"} \subseteq up[s]
    BY DEF ProcessInv, PartsAt
  <2>2. {"registry", "scheduler", "consensus"} \subseteq Core
    BY DEF Core
  <2> QED BY <2>1, <2>2 DEF FailedChecks
<1>3. HaltedIsQuiet
  BY DEF HaltedIsQuiet, ProcessInv, SystemAt, PartsAt
<1> QED BY <1>1, <1>2, <1>3 DEF ProcessInv, SessionInv

-----------------------------------------------------------------------------
(* The crew and the memory state: the inductive invariant.                  *)

Crews == [Kinds -> [Statuses -> Nat]]
Within(c) == c \in Crews /\ Total(c) <= settings.maxAgents

CrewInv ==
    /\ settings \in Scenarios /\ rss \in Nat /\ cpu \in Nat
    /\ CapTypeOK /\ UsageIsExact /\ MemoryStateFits

\* How many agents there are.
LEMMA TotalType ==
    ASSUME NEW c \in Crews PROVE Total(c) \in Nat /\ \A k \in Kinds : OfKind(c, k) \in Nat
BY DEF Crews, Total, OfKind, Kinds, Statuses

\* The settings a scenario may have.
LEMMA SettingsAre ==
    ASSUME settings \in Scenarios
    PROVE  settings.maxAgents \in Nat /\ settings.maxActive \in Nat /\ settings.min \in Nat /\ settings.max \in Nat
BY ScenariosAssumption

\* Idle agents join: as many as are counted.
LEMMA Joining ==
    ASSUME NEW c \in Crews, NEW k \in Kinds, NEW n \in Nat
    PROVE  /\ [c EXCEPT ![k]["idle"] = @ + n] \in Crews
           /\ Total([c EXCEPT ![k]["idle"] = @ + n]) = Total(c) + n
<1> DEFINE d == [c EXCEPT ![k]["idle"] = @ + n]
<1>1. d \in Crews
  BY DEF Crews, Kinds, Statuses
<1>2. CASE k = "worker"
  <2>1. OfKind(d, "worker") = OfKind(c, "worker") + n /\ OfKind(d, "helper") = OfKind(c, "helper")
    BY <1>2 DEF Crews, Kinds, Statuses, OfKind
  <2> QED BY <1>1, <2>1, TotalType DEF Total, Kinds
<1>3. CASE k = "helper"
  <2>1. OfKind(d, "helper") = OfKind(c, "helper") + n /\ OfKind(d, "worker") = OfKind(c, "worker")
    BY <1>3 DEF Crews, Kinds, Statuses, OfKind
  <2> QED BY <1>1, <2>1, TotalType DEF Total, Kinds
<1> QED BY <1>1, <1>2, <1>3 DEF Kinds

\* deployAgent stays within the configured maximum.
LEMMA DeployWithin ==
    ASSUME settings \in Scenarios, NEW c, Within(c), NEW k \in Kinds, NEW n \in Nat PROVE Within(Deploy(c, k, n))
<1> DEFINE m == Smaller(n, Larger(settings.maxAgents - Total(c), 0))
<1>1. m \in Nat /\ Total(c) + m <= settings.maxAgents /\ c \in Crews
  BY SettingsAre, TotalType DEF Within, Smaller, Larger
<1> HIDE DEF m
<1>2. Deploy(c, k, n) = [c EXCEPT ![k]["idle"] = @ + m]
  BY DEF Deploy, m
<1> DEFINE d == [c EXCEPT ![k]["idle"] = @ + m]
<1>3. d \in Crews /\ Total(d) = Total(c) + m
  BY <1>1, Joining
<1> HIDE DEF d
<1>4. Deploy(c, k, n) = d
  BY <1>2 DEF d
<1> QED BY <1>1, <1>3, <1>4 DEF Within

\* And so does a deployment that is refused for lack of resources.
LEMMA TryDeployWithin ==
    ASSUME settings \in Scenarios, Within(crew), NEW ready, NEW k \in Kinds, NEW n \in Nat
    PROVE  Within(TryDeploy(ready, k, n))
BY DeployWithin DEF TryDeploy

\* The default crew stays within the configured maximum (bootstrapDefaultAgents).
LEMMA BootstrappedWithin ==
    ASSUME settings \in Scenarios, Within(crew) PROVE Within(Bootstrapped)
<1> DEFINE missing(k) == Larger(BootCrew[k] - OfKind(crew, k), 0)
<1>1. \A k \in Kinds : missing(k) \in Nat
  BY TotalType, CrewAssumption DEF Within, Larger
<1>2. "worker" \in Kinds /\ "helper" \in Kinds
  BY DEF Kinds
<1>3. Bootstrapped = Deploy(Deploy(crew, "worker", missing("worker")), "helper", missing("helper"))
  BY DEF Bootstrapped
<1> HIDE DEF missing
<1>4. Within(Deploy(crew, "worker", missing("worker")))
  BY <1>1, <1>2, DeployWithin
<1> QED BY <1>1, <1>2, <1>3, <1>4, DeployWithin

\* The rotation shares what is added between the kinds.
LEMMA Shares ==
    ASSUME NEW added \in Nat
    PROVE  LET share(k) == Cardinality({i \in 1..added : Rotation[((i - 1) % Len(Rotation)) + 1] = k})
           IN  share("worker") \in Nat /\ share("helper") \in Nat /\ share("worker") + share("helper") = added
<1> DEFINE turn(i) == Rotation[((i - 1) % Len(Rotation)) + 1]
           of(k) == {i \in 1..added : turn(i) = k}
<1>1. Rotation \in Seq(Kinds) /\ Len(Rotation) \in Nat \ {0}
  BY CrewAssumption
<1>2. \A i \in 1..added : turn(i) \in Kinds
  <2> SUFFICES ASSUME NEW i \in 1..added PROVE turn(i) \in Kinds
    OBVIOUS
  <2> DEFINE n == Len(Rotation)
  <2>1. ((i - 1) % n) + 1 \in 1..n
    <3> HIDE DEF n
    <3>1. n \in Nat \ {0} /\ i - 1 \in Nat
      BY <1>1 DEF n
    <3> QED BY <3>1
  <2> QED BY <1>1, <2>1
<1> HIDE DEF turn
<1>3. IsFiniteSet(1..added) /\ Cardinality(1..added) = added
  BY FS_Interval
<1> DEFINE W == of("worker")
           H == of("helper")
<1>4. IsFiniteSet(W) /\ IsFiniteSet(H)
  BY <1>3, FS_Subset
<1>5. W \cup H = 1..added /\ W \cap H = {}
  BY <1>2 DEF Kinds
<1> HIDE DEF W, H
<1>6. Cardinality(W) \in Nat /\ Cardinality(H) \in Nat
  BY <1>4, FS_CardinalityType
<1>7. Cardinality(W) + Cardinality(H) = added
  <2>1. Cardinality({}) = 0
    BY FS_EmptySet
  <2>2. Cardinality(W \cup H) = Cardinality(W) + Cardinality(H) - Cardinality(W \cap H)
    BY <1>4, FS_Union
  <2>3. Cardinality(W \cap H) = 0
    BY <1>5, <2>1
  <2>4. Cardinality(W \cup H) = added
    BY <1>3, <1>5
  <2> QED BY <1>6, <2>2, <2>3, <2>4
<1> QED BY <1>6, <1>7 DEF W, H, turn

\* Scaling up stays within the configured maximum (handleScaleUp, deployBalancedWorkers).
LEMMA ScaledUpWithin ==
    ASSUME settings \in Scenarios, Within(crew), NEW ready, NEW n \in Nat, NEW state
    PROVE  Within(ScaledUp(ready, n, state))
<1> DEFINE room == Smaller(Larger(settings.maxAgents - Total(crew), 0), Larger(settings.maxActive - Total(crew), 1))
           added == IF ready /\ Available(state, activeAgents) THEN Smaller(n, room) ELSE 0
           share(k) == Cardinality({i \in 1..added : Rotation[((i - 1) % Len(Rotation)) + 1] = k})
           W == share("worker")
           H == share("helper")
<1>1. crew \in Crews /\ Total(crew) \in Nat
  BY TotalType DEF Within
<1>2. added \in Nat /\ Total(crew) + added <= settings.maxAgents
  BY <1>1, SettingsAre DEF Within, Smaller, Larger
<1>3. ScaledUp(ready, n, state) = [k \in Kinds |-> [crew[k] EXCEPT !["idle"] = @ + share(k)]]
  BY DEF ScaledUp
<1> HIDE DEF added
<1>4. W \in Nat /\ H \in Nat /\ W + H = added
  BY <1>2, Shares
<1> DEFINE c == [crew EXCEPT !["worker"]["idle"] = @ + W]
           d == [c EXCEPT !["helper"]["idle"] = @ + H]
<1> HIDE DEF share
<1>5. ScaledUp(ready, n, state) = d
  BY <1>1, <1>3 DEF Crews, Kinds
<1> HIDE DEF W, H
<1>6. "worker" \in Kinds /\ "helper" \in Kinds
  BY DEF Kinds
<1>7. c \in Crews /\ Total(c) = Total(crew) + W
  BY <1>1, <1>4, <1>6, Joining
<1> HIDE DEF c
<1>8. d \in Crews /\ Total(d) = Total(c) + H
  BY <1>4, <1>6, <1>7, Joining
<1> HIDE DEF d
<1> QED BY <1>1, <1>2, <1>4, <1>5, <1>7, <1>8 DEF Within

\* Idle helpers that leave are there.
LEMMA RetiredWithin ==
    ASSUME settings \in Scenarios, Within(crew), NEW ready, NEW n \in Nat, NEW state
    PROVE  Within(Retired(ready, n, state))
<1> DEFINE idle == crew["helper"]["idle"]
           wanted == Smaller(n, idle)
           spare == Larger(Total(crew) - settings.min, 0)
           x == IF settings.healing /\ ready /\ Available(state, activeAgents) THEN Smaller(wanted, spare) ELSE wanted
           d == [crew EXCEPT !["helper"]["idle"] = @ - x]
<1>1. crew \in Crews /\ Total(crew) \in Nat
  BY TotalType DEF Within
<1>2. idle \in Nat
  BY <1>1 DEF Crews, Kinds, Statuses
<1>3. x \in Nat /\ x <= idle
  <2> HIDE DEF idle
  <2> QED BY <1>1, <1>2, SettingsAre DEF Smaller, Larger
<1>4. Retired(ready, n, state) = d
  BY DEF Retired
<1> HIDE DEF x
<1>5. d \in Crews
  BY <1>1, <1>2, <1>3 DEF Crews, Kinds, Statuses
<1>6. OfKind(d, "helper") = OfKind(crew, "helper") - x /\ OfKind(d, "worker") = OfKind(crew, "worker")
  BY <1>1, <1>2, <1>3 DEF Crews, Kinds, Statuses, OfKind
<1> HIDE DEF d, idle
<1>7. Total(d) = Total(crew) - x
  <2>1. OfKind(crew, "helper") \in Nat /\ OfKind(crew, "worker") \in Nat
    BY <1>1, TotalType DEF Kinds
  <2> QED BY <1>3, <1>6, <2>1 DEF Total
<1> QED BY <1>1, <1>3, <1>4, <1>5, <1>7, SettingsAre DEF Within

\* Whatever the auto-scaler recommends is carried out within the maximum.
LEMMA ScaledWithin ==
    ASSUME settings \in Scenarios, Within(crew), NEW ready, NEW by \in Int, NEW state
    PROVE  Within(Scaled(ready, by, state))
<1>1. CASE by > 0
  BY <1>1, ScaledUpWithin DEF Scaled
<1>2. CASE by < 0
  BY <1>2, RetiredWithin DEF Scaled
<1>3. CASE by = 0
  BY <1>3 DEF Scaled
<1> QED BY <1>1, <1>2, <1>3

\* An agent that changes its status stays counted.
LEMMA MovedWithin ==
    ASSUME Within(crew), NEW k \in Kinds, NEW a \in Statuses, NEW b \in Statuses, a # b, crew[k][a] > 0
    PROVE  Moved(k, a, b) \in Crews /\ Total(Moved(k, a, b)) = Total(crew)
<1> DEFINE d == Moved(k, a, b)
           e == [crew[k] EXCEPT ![a] = @ - 1, ![b] = @ + 1]
<1>1. crew \in Crews /\ crew[k] \in [Statuses -> Nat]
  BY DEF Within, Crews
<1>2. \A s \in Statuses : e[s] = IF s = a THEN crew[k][s] - 1 ELSE IF s = b THEN crew[k][s] + 1 ELSE crew[k][s]
  BY <1>1
<1>3. e \in [Statuses -> Nat]
  BY <1>1
<1>4. d[k] = e /\ \A o \in Kinds \ {k} : d[o] = crew[o]
  BY <1>1 DEF Moved, Crews
<1>9. d = [o \in Kinds |-> d[o]]
  BY <1>1 DEF Moved, Crews
<1> HIDE DEF d, e
<1>5. d \in Crews /\ d[k] = e /\ \A o \in Kinds \ {k} : d[o] = crew[o]
  BY <1>1, <1>3, <1>4, <1>9 DEF Crews
<1>6. OfKind(d, k) = OfKind(crew, k)
  <2>1. /\ crew[k]["idle"] \in Nat /\ crew[k]["busy"] \in Nat
        /\ crew[k]["error"] \in Nat /\ crew[k]["offline"] \in Nat
    BY <1>1 DEF Statuses
  <2> QED BY <1>2, <1>5, <2>1 DEF OfKind, Statuses
<1>7. OfKind(d, "worker") = OfKind(crew, "worker") /\ OfKind(d, "helper") = OfKind(crew, "helper")
  BY <1>5, <1>6 DEF Kinds, OfKind
<1> QED BY <1>5, <1>7 DEF Total, d

\* The mark a sample lies on, whatever state it finds.
LEMMA StateFits ==
    ASSUME memoryState \in MemoryStates, NEW m \in Nat
    PROVE  /\ StateAfter(m) \in MemoryStates
           /\ CASE StateAfter(m) = "normal" -> m < 85
                [] StateAfter(m) = "elevated" -> m >= 80 /\ m < 100
                [] OTHER -> m >= 95
BY DEF StateAfter, MemoryStates

\* A change of the crew that follows deployAgent or a scaling.
LEMMA CrewedKeeps ==
    ASSUME settings \in Scenarios, UsageIsExact, Within(crew), NEW after, Within(after), Crewed(after), settings' = settings
    PROVE  UsageIsExact' /\ crew' \in Crews /\ activeAgents' \in Nat
<1>1. crew' = after /\ (activeAgents' = IF after = crew THEN activeAgents ELSE Total(after))
  BY DEF Crewed, Counted
<1>2. activeAgents' = Total(after) /\ Total(after) \in Nat
  BY <1>1, TotalType DEF UsageIsExact, Within
<1> QED BY <1>1, <1>2 DEF UsageIsExact, Within, Total, OfKind

\* What a sample decides to add or retire.
LEMMA ScaleByType ==
    ASSUME settings \in Scenarios, NEW n \in Nat, NEW m \in Nat, NEW c \in Nat PROVE ScaleBy(n, Utilization(m, c)) \in Int
<1>1. Utilization(m, c) \in Int
  BY DEF Utilization, Larger, CpuLimit
<1>2. ScaleRange.min \in Nat /\ ScaleRange.max \in Nat
  BY SettingsAre DEF ScaleRange
<1> QED BY <1>1, <1>2 DEF ScaleBy, Smaller, Larger

\* A sample, and the scaling it calls for, keep the invariant.
LEMMA SampleKeeps ==
    ASSUME CrewInv, NEW ready, NEW m \in settings.memory, NEW c \in settings.seconds, Sample(ready, m, c)
    PROVE  CrewInv'
<1>1. m \in Nat /\ c \in Nat /\ settings \in Scenarios
  BY ScenariosAssumption DEF CrewInv
<1>2. Within(crew) /\ UsageIsExact /\ activeAgents \in Nat /\ memoryState \in MemoryStates
  BY DEF CrewInv, CapTypeOK, Within, UsageIsExact, Crews
<1>3. /\ rss' = m /\ cpu' = c /\ memoryState' = StateAfter(m) /\ UNCHANGED <<settings, healDelay, healTimers>>
      /\ cooling' = (cooling \/ Recommends(activeAgents, Utilization(m, c)))
      /\ \/ UNCHANGED <<crew, activeAgents>>
         \/ Crewed(Scaled(ready, ScaleBy(activeAgents, Utilization(m, c)), StateAfter(m)))
  BY DEF Sample
<1>4. UsageIsExact' /\ crew' \in Crews /\ activeAgents' \in Nat
  <2>1. CASE UNCHANGED <<crew, activeAgents>>
    BY <1>2, <1>3, <2>1 DEF UsageIsExact, Within, Total, OfKind
  <2>2. CASE Crewed(Scaled(ready, ScaleBy(activeAgents, Utilization(m, c)), StateAfter(m)))
    <3>1. ScaleBy(activeAgents, Utilization(m, c)) \in Int
      BY <1>1, <1>2, ScaleByType
    <3>2. Within(Scaled(ready, ScaleBy(activeAgents, Utilization(m, c)), StateAfter(m)))
      BY <1>1, <1>2, <3>1, ScaledWithin
    <3> QED BY <1>1, <1>2, <1>3, <2>2, <3>2, CrewedKeeps
  <2> QED BY <1>3, <2>1, <2>2
<1>5. MemoryStateFits' /\ memoryState' \in MemoryStates
  <2>1. MemoryStateFits' <=> CASE memoryState' = "normal" -> rss' < 85
                               [] memoryState' = "elevated" -> rss' >= 80 /\ rss' < 100
                               [] OTHER -> rss' >= 95
    BY DEF MemoryStateFits
  <2> QED BY <1>1, <1>2, <1>3, <2>1, StateFits
<1>6. cooling' \in BOOLEAN
  BY <1>3 DEF CrewInv, CapTypeOK
<1> QED BY <1>1, <1>3, <1>4, <1>5, <1>6 DEF CrewInv, CapTypeOK, Crews

\* A process without agents.
LEMMA NoCrewWithin ==
    ASSUME settings \in Scenarios PROVE Within(NoCrew) /\ Total(NoCrew) = 0
<1>1. NoCrew \in Crews
  BY DEF NoCrew, Crews
<1>2. OfKind(NoCrew, "worker") = 0 /\ OfKind(NoCrew, "helper") = 0
  BY DEF NoCrew, OfKind, Kinds, Statuses
<1> QED BY <1>1, <1>2, SettingsAre DEF Within, Total

\* What a crew without agents looks like besides.
LEMMA NothingYet ==
    /\ [k \in Kinds |-> 0] \in [Kinds -> 0..MaxTimers]
    /\ "normal" \in MemoryStates /\ 0 \in Nat /\ FALSE \in BOOLEAN /\ {} \subseteq Kinds
BY BoundsAssumption DEF MemoryStates

\* Every behaviour begins without agents.
LEMMA CrewStarts == HostInit => CrewInv
<1> SUFFICES ASSUME HostInit PROVE CrewInv
  OBVIOUS
<1>1. settings \in Scenarios /\ CapInit
  BY ScenariosAssumption DEF HostInit, PlatformStart
<1>2. CapTypeOK /\ rss = 0 /\ cpu = 0 /\ activeAgents = 0 /\ memoryState = "normal" /\ crew = NoCrew
  BY <1>1, NoCrewWithin, NothingYet DEF CapInit, CapTypeOK, Within, Crews
<1>3. UsageIsExact
  BY <1>1, <1>2, NoCrewWithin DEF UsageIsExact, Within
<1> QED BY <1>1, <1>2, <1>3 DEF CrewInv, MemoryStateFits

\* A new system object keeps the invariant: it has no agents.
LEMMA ResetKeeps ==
    ASSUME CrewInv, CapReset PROVE CrewInv'
<1>1. /\ settings' = settings /\ cpu' = cpu /\ rss' = 0 /\ activeAgents' = 0 /\ memoryState' = "normal"
      /\ crew' = NoCrew /\ cooling' = FALSE /\ healDelay' = {} /\ healTimers' = [k \in Kinds |-> 0]
  BY DEF CapReset
<1>2. settings \in Scenarios /\ Within(NoCrew) /\ Total(NoCrew) = 0
  BY NoCrewWithin DEF CrewInv
<1>3. Total(crew)' = Total(NoCrew)
  BY <1>1 DEF Total, OfKind
<1>4. UsageIsExact'
  BY <1>1, <1>2, <1>3 DEF UsageIsExact, Within
<1>5. CapTypeOK'
  BY <1>1, <1>2, NothingYet DEF CapTypeOK, Within, Crews
<1> QED BY <1>1, <1>2, <1>4, <1>5 DEF CrewInv, MemoryStateFits

\* A deployment: the memory and the sample stay.
LEMMA DeploymentKeeps ==
    ASSUME CrewInv, NEW after, Within(after), Crewed(after), UNCHANGED <<settings, memoryState, rss, cpu, cooling>>,
           healDelay' \subseteq Kinds, healTimers' \in [Kinds -> 0..MaxTimers]
    PROVE  CrewInv'
<1>1. settings \in Scenarios /\ UsageIsExact /\ Within(crew)
  BY DEF CrewInv, UsageIsExact, CapTypeOK, Within, Crews
<1>2. UsageIsExact' /\ crew' \in Crews /\ activeAgents' \in Nat
  BY <1>1, CrewedKeeps
<1> QED BY <1>2 DEF CrewInv, CapTypeOK, MemoryStateFits, Crews

\* One redeployment timer more, or one less, is still within the bound.
LEMMA TimersStayBounded ==
    ASSUME CapTypeOK, NEW k \in Kinds
    PROVE  /\ healTimers["worker"] + healTimers["helper"] < MaxTimers
                => [healTimers EXCEPT ![k] = @ + 1] \in [Kinds -> 0..MaxTimers]
           /\ healTimers[k] > 0 => [healTimers EXCEPT ![k] = @ - 1] \in [Kinds -> 0..MaxTimers]
BY BoundsAssumption DEF CapTypeOK, Kinds

\* An agent changes its status, and a redeployment may be scheduled.
LEMMA StatusKeeps ==
    ASSUME CrewInv, NEW k \in Kinds, NEW a \in Statuses, NEW b \in Statuses, StatusChanges(k, a, b) PROVE CrewInv'
<1>1. /\ a # b /\ crew[k][a] > 0 /\ crew' = Moved(k, a, b)
      /\ UNCHANGED <<settings, activeAgents, memoryState, rss, cpu, cooling>>
  BY DEF StatusChanges
<1>2. Within(crew) /\ CapTypeOK /\ UsageIsExact
  BY DEF CrewInv, UsageIsExact, CapTypeOK, Within, Crews
<1>3. Moved(k, a, b) \in Crews /\ Total(Moved(k, a, b)) = Total(crew)
  BY <1>1, <1>2, MovedWithin
<1>4. Total(crew)' = Total(crew)
  BY <1>1, <1>3 DEF Total, OfKind
<1>5. UsageIsExact'
  BY <1>1, <1>2, <1>4 DEF UsageIsExact
<1>6. healTimers' \in [Kinds -> 0..MaxTimers]
  BY <1>2, TimersStayBounded DEF StatusChanges, CapTypeOK
<1>7. healDelay' \subseteq Kinds
  BY <1>2 DEF StatusChanges, CapTypeOK
<1> QED BY <1>1, <1>2, <1>3, <1>5, <1>6, <1>7 DEF CrewInv, CapTypeOK, MemoryStateFits, Crews

\* Every step keeps the crew counted, within its limit, and the memory state fitting.
LEMMA CrewStep ==
    ASSUME CrewInv, PlatformNext \/ UNCHANGED platformVars PROVE CrewInv'
<1>0. ASSUME UNCHANGED capVars PROVE CrewInv'
  BY <1>0 DEF capVars, CrewInv, CapTypeOK, UsageIsExact, MemoryStateFits, Total, OfKind
<1>1. CASE UNCHANGED platformVars
  BY <1>0, <1>1 DEF platformVars, capVars
<1>2. settings \in Scenarios /\ CapTypeOK /\ Within(crew)
  BY DEF CrewInv, UsageIsExact, CapTypeOK, Within, Crews
<1>3. CASE PlatformNext
  <2>1. ASSUME NEW c \in settings.users, Boots(c) PROVE CrewInv'
    BY <2>1, ResetKeeps DEF Boots
  <2>2. ASSUME NEW s \in Systems, StartsMonitor(s) PROVE CrewInv'
    BY <2>2, SampleKeeps DEF StartsMonitor
  <2>3. ASSUME NEW s \in Systems, Starts(s) PROVE CrewInv'
    <3>1. CASE Crewed(Bootstrapped)
      <4>1. Within(Bootstrapped)
        BY <1>2, BootstrappedWithin
      <4> QED BY <1>2, <2>3, <3>1, <4>1, DeploymentKeeps DEF Starts, CapTypeOK
    <3>2. CASE UNCHANGED <<crew, activeAgents>>
      BY <1>0, <2>3, <3>2 DEF Starts, capVars
    <3> QED BY <2>3, <3>1, <3>2 DEF Starts
  <2>4. ASSUME NEW s \in Systems, BridgeFails(s) \/ LifeGoesOn(s) PROVE CrewInv'
    BY <1>0, <2>4 DEF BridgeFails, LifeGoesOn
  <2>5. CASE SessionGoesOn \/ Crash
    BY <1>0, <2>5 DEF SessionGoesOn, Crash
  <2>6. CASE CrewChanges
    <3>1. CASE Samples
      BY <3>1, SampleKeeps DEF Samples
    <3>2. CASE CooldownPasses
      BY <3>2 DEF CooldownPasses, CrewInv, CapTypeOK, UsageIsExact, MemoryStateFits, Total, OfKind
    <3>3. ASSUME NEW k \in Kinds, NEW n \in 1..MaxBatch, OperatorDeploys(DeploysOf(Newest), k, n) PROVE CrewInv'
      <4>1. n \in Nat
        BY BoundsAssumption
      <4>2. Within(TryDeploy(DeploysOf(Newest), k, n))
        BY <1>2, <4>1, TryDeployWithin
      <4> QED BY <1>2, <3>3, <4>2, DeploymentKeeps DEF OperatorDeploys, CapTypeOK
    <3>4. ASSUME NEW k \in Kinds, NEW a \in Statuses, NEW b \in Statuses, StatusChanges(k, a, b) PROVE CrewInv'
      BY <3>4, StatusKeeps
    <3>5. ASSUME NEW k \in Kinds, HealingFires(DeploysOf(Newest), k) PROVE CrewInv'
      <4>1. Within(TryDeploy(DeploysOf(Newest), k, 1))
        BY <1>2, TryDeployWithin
      <4>2. healTimers' \in [Kinds -> 0..MaxTimers] /\ healDelay' \subseteq Kinds
        BY <1>2, <3>5, TimersStayBounded DEF HealingFires, CapTypeOK
      <4> QED BY <3>5, <4>1, <4>2, DeploymentKeeps DEF HealingFires
    <3> QED BY <2>6, <3>1, <3>2, <3>3, <3>4, <3>5 DEF CrewChanges
  <2> QED BY <1>3, <2>1, <2>2, <2>3, <2>4, <2>5, <2>6 DEF PlatformNext
<1> QED BY <1>1, <1>3

-----------------------------------------------------------------------------
(* What always holds of the process.                                        *)

HostInv == ProcessInv /\ CrewInv

\* The invariant holds at first and after every step.
LEMMA HostInvHolds == HostSpec => []HostInv
<1>1. HostInit => HostInv
  BY ProcessStarts, CrewStarts DEF HostInv
<1>2. HostInv /\ [HostNext]_hostVars => HostInv'
  <2> SUFFICES ASSUME HostInv, [HostNext]_hostVars PROVE HostInv'
    OBVIOUS
  <2>1. PlatformNext \/ UNCHANGED platformVars
    BY HostSteps
  <2>2. settings \in Scenarios /\ ProcessInv /\ CrewInv
    BY DEF HostInv, CrewInv
  <2> QED BY <2>1, <2>2, ProcessStep, CrewStep DEF HostInv
<1> QED BY <1>1, <1>2, PTL DEF HostSpec

\* At most one system of a process is initialized and not shutting down, whatever callers,
\* failed boots, shutdowns and uncaught errors do (CliSession.ensureSystem).
THEOREM OneSystemLives == HostSpec => []OneLiveSystem
<1>1. HostInv => OneLiveSystem
  BY ProcessIsSound DEF HostInv
<1> QED BY <1>1, HostInvHolds, PTL

\* What a system reports of itself is so: its components run while it is ready, nothing of it
\* runs on once it is shut down, its agents are counted and within the configured maximum, and
\* the memory state is one its last sample admits (CodexSynapticSystem, ResourceManager).
THEOREM StatusStaysHonest == HostSpec => []StatusIsHonest
<1>1. HostInv => StatusIsHonest
  BY ProcessIsSound DEF HostInv, ProcessInv, CrewInv, StatusIsHonest, TypeOK
<1> QED BY <1>1, HostInvHolds, PTL

-----------------------------------------------------------------------------
(* The rows of tenants and policies.                                        *)

\* The keys the table gives out are bounded.
RowsBounded == \E b \in Nat : \A e \in rows : e.id <= b

\* A set of naturals that has a member, and a bound, has a greatest one.
LEMMA Greatest ==
    ASSUME NEW T, T \subseteq Nat, T # {}, NEW b \in Nat, \A x \in T : x <= b
    PROVE  \E m \in T : \A x \in T : m >= x
<1> DEFINE D == {d \in Nat : b - d \in T}
           R == OpToRel(<, Nat)
<1>1. PICK x \in T : x \in Nat /\ x <= b
  OBVIOUS
<1>2. b - x \in D
  <2>1. b - x \in Nat /\ b - (b - x) = x
    BY <1>1
  <2> QED BY <2>1
<1>3. D \subseteq Nat /\ D # {}
  BY <1>2
<1>4. \A i, j \in Nat : <<j, i>> \in R <=> j < i
  BY DEF OpToRel
<1>5. IsWellFoundedOn(R, Nat)
  BY NatLessThanWellFounded
<1> HIDE DEF R
<1>6. PICK d \in D : \A e \in D : ~(<<e, d>> \in R)
  BY <1>3, <1>5, WFMin
<1>7. \A y \in T : b - d >= y
  <2> SUFFICES ASSUME NEW y \in T PROVE b - d >= y
    OBVIOUS
  <2>1. y \in Nat /\ y <= b /\ d \in Nat
    BY <1>3
  <2>2. b - y \in Nat /\ b - (b - y) = y
    BY <2>1
  <2>3. b - y \in D
    BY <2>2
  <2>4. ~(b - y < d)
    BY <1>4, <1>6, <2>1, <2>2, <2>3
  <2> QED BY <2>1, <2>4
<1> QED BY <1>7

\* A new row gets an id above all there are (INTEGER PRIMARY KEY).
LEMMA NextIdFresh ==
    ASSUME StoreTypeOK, RowsBounded
    PROVE  NextId \in Nat \ {0} /\ \A e \in rows : e.id < NextId
<1> DEFINE T == {e.id : e \in rows} \cup {0}
<1>1. T \subseteq Nat /\ T # {}
  BY DEF StoreTypeOK
<1>2. PICK b \in Nat : \A e \in rows : e.id <= b
  BY DEF RowsBounded
<1>3. \A x \in T : x <= b
  BY <1>2
<1>4. \A e \in rows : e.id \in T
  OBVIOUS
<1>5. NextId = 1 + Max(T)
  BY DEF NextId
<1> HIDE DEF T
<1>6. \E m \in T : \A x \in T : m >= x
  BY <1>1, <1>3, Greatest
<1>7. Max(T) \in T /\ \A x \in T : Max(T) >= x
  BY <1>6 DEF Max
<1>8. Max(T) \in Nat /\ \A e \in rows : e.id \in Nat /\ e.id <= Max(T)
  BY <1>1, <1>4, <1>7
<1> QED BY <1>5, <1>8

\* What is read of a policy is a quota.
LEMMA PolicyQuotaType ==
    ASSUME StoreTypeOK, RowsBounded, NEW t PROVE PolicyQuota(t) \in Quotas
<1> DEFINE P == Entries("tenant_policies", t)
<1>1. CASE P = {}
  BY <1>1 DEF PolicyQuota, Quotas
<1>2. CASE P # {}
  <2> DEFINE T == {e.id : e \in P}
  <2>1. P \subseteq rows /\ rows \subseteq [id : Nat \ {0}, namespace : {"tenants", "tenant_policies"},
                                            key : Tenants, quota : Quotas]
    BY DEF Entries, StoreTypeOK
  <2>2. PICK b \in Nat : \A e \in rows : e.id <= b
    BY DEF RowsBounded
  <2> HIDE DEF P
  <2>3. T \subseteq Nat /\ T # {} /\ \A x \in T : x <= b
    BY <1>2, <2>1, <2>2
  <2>4. PICK m \in T : \A x \in T : m >= x
    BY <2>3, Greatest
  <2>5. PICK e \in P : e.id = m
    OBVIOUS
  <2>6. \A o \in P : o.id <= e.id
    BY <2>3, <2>4, <2>5
  <2>7. NewestRow("tenant_policies", t) \in P
    BY <2>6 DEF NewestRow, P
  <2> QED BY <1>2, <2>1, <2>7 DEF PolicyQuota, P
<1> QED BY <1>1, <1>2

\* What is read of a policy depends on its rows alone.
LEMMA PolicyStays ==
    ASSUME NEW t, Entries("tenant_policies", t)' = Entries("tenant_policies", t)
    PROVE  PolicyQuota(t)' = PolicyQuota(t)
<1> DEFINE P == Entries("tenant_policies", t)
           quota(S) == IF S = {} THEN NoQuota ELSE (CHOOSE e \in S : \A o \in S : o.id <= e.id).quota
<1>1. PolicyQuota(t) = quota(P)
  BY DEF PolicyQuota, NewestRow
<1>2. PolicyQuota(t)' = quota(P')
  BY DEF PolicyQuota, NewestRow
<1>3. P' = P
  OBVIOUS
<1> HIDE DEF P, quota
<1> QED BY <1>1, <1>2, <1>3

\* An insert, and what it leaves.
LEMMA InsertGoes ==
    ASSUME StoreTypeOK, RowsBounded, NEW ns \in {"tenants", "tenant_policies"}, NEW t \in Tenants, NEW q \in Quotas,
           Insert(ns, t, q)
    PROVE  /\ rows' \subseteq [id : Nat \ {0}, namespace : {"tenants", "tenant_policies"}, key : Tenants, quota : Quotas]
           /\ RowsBounded'
           /\ \A o : Known(o) => Known(o)'
           /\ ns = "tenants" => Known(t)' /\ \A o : PolicyQuota(o)' = PolicyQuota(o)
           /\ ns = "tenant_policies" => PolicyQuota(t)' = q
           /\ \A o : o # t => PolicyQuota(o)' = PolicyQuota(o) /\ (Known(o)' => Known(o))
           /\ ns = "tenant_policies" => \A o : Known(o)' => Known(o)
<1> DEFINE n == [id |-> NextId, namespace |-> ns, key |-> t, quota |-> q]
<1>1. rows' = rows \cup {n}
  BY DEF Insert
<1>2. NextId \in Nat \ {0} /\ \A e \in rows : e.id < NextId /\ e.id \in Nat
  BY NextIdFresh DEF StoreTypeOK
<1>3. n.id = NextId /\ n.namespace = ns /\ n.key = t /\ n.quota = q
  OBVIOUS
<1>4. rows' \subseteq [id : Nat \ {0}, namespace : {"tenants", "tenant_policies"}, key : Tenants, quota : Quotas]
  BY <1>1, <1>2 DEF StoreTypeOK
<1> HIDE DEF n
<1>5. RowsBounded'
  BY <1>1, <1>2, <1>3 DEF RowsBounded
<1>6. \A s, o : (s # ns \/ o # t) => Entries(s, o)' = Entries(s, o)
  BY <1>1, <1>3 DEF Entries
<1>7. Entries(ns, t)' = Entries(ns, t) \cup {n}
  BY <1>1, <1>3 DEF Entries
<1>8. \A o : Entries("tenant_policies", o)' = Entries("tenant_policies", o) => PolicyQuota(o)' = PolicyQuota(o)
  BY PolicyStays
<1>9. ASSUME ns = "tenant_policies" PROVE PolicyQuota(t)' = q
  <2> DEFINE P == Entries(ns, t)'
  <2>1. P = Entries(ns, t) \cup {n} /\ \A e \in P : e = n \/ e \in rows
    BY <1>7 DEF Entries
  <2>2. n \in P /\ \A e \in P : e = n \/ (e.id \in Nat /\ e.id < n.id)
    BY <1>2, <1>3, <2>1
  <2>3. PolicyQuota(t)' = (CHOOSE e \in P : \A o \in P : o.id <= e.id).quota
    BY <1>9, <2>2 DEF PolicyQuota, NewestRow
  <2> HIDE DEF P
  <2>4. \A o \in P : o.id <= n.id
    BY <1>2, <1>3, <2>2
  <2>5. \A e \in P : (\A o \in P : o.id <= e.id) => e = n
    BY <1>2, <1>3, <2>2
  <2>6. (CHOOSE e \in P : \A o \in P : o.id <= e.id) = n
    BY <2>2, <2>4, <2>5
  <2> QED BY <1>3, <2>3, <2>6
<1>10. \A o : Known(o) => Known(o)'
  BY <1>6, <1>7 DEF Known
<1>11. ns = "tenants" => Known(t)' /\ \A o : PolicyQuota(o)' = PolicyQuota(o)
  BY <1>6, <1>7, <1>8 DEF Known
<1>12. \A o : o # t => PolicyQuota(o)' = PolicyQuota(o) /\ (Known(o)' => Known(o))
  BY <1>6, <1>8 DEF Known
<1>13. ns = "tenant_policies" => \A o : Known(o)' => Known(o)
  BY <1>6 DEF Known
<1> QED BY <1>4, <1>5, <1>9, <1>10, <1>11, <1>12, <1>13

\* A delete, and what it leaves.
LEMMA DeleteGoes ==
    ASSUME StoreTypeOK, RowsBounded, NEW ns \in {"tenants", "tenant_policies"}, NEW t, Delete(ns, t)
    PROVE  /\ rows' \subseteq rows /\ RowsBounded'
           /\ \A o : (ns # "tenants" \/ o # t) => (Known(o)' <=> Known(o))
           /\ \A o : (ns # "tenant_policies" \/ o # t) => PolicyQuota(o)' = PolicyQuota(o)
           /\ \A o : Known(o)' => Known(o)
<1>1. rows' = rows \ Entries(ns, t)
  BY DEF Delete
<1>2. RowsBounded' /\ rows' \subseteq rows
  BY <1>1 DEF RowsBounded
<1>3. \A s, o : (s # ns \/ o # t) => Entries(s, o)' = Entries(s, o)
  BY <1>1 DEF Entries
<1>4. \A o : (ns # "tenant_policies" \/ o # t) => PolicyQuota(o)' = PolicyQuota(o)
  BY <1>3, PolicyStays
<1>5. \A o : (ns # "tenants" \/ o # t) => (Known(o)' <=> Known(o))
  BY <1>3 DEF Known
<1>6. \A o : Known(o)' => Known(o)
  BY <1>1 DEF Known, Entries
<1> QED BY <1>2, <1>4, <1>5, <1>6

-----------------------------------------------------------------------------
(* Requests, and the tenants that were acknowledged: the inductive invariant. *)

Halves == {"insertTenant", "insertPolicy", "tenantQuota"}
Restful == {"body"} \cup (Statements \ Halves)
Holding == Statements \ {"context", "contextPolicy", "list", "lookup"}

Kept(t) == Known(t) \/ Unfinished("tenants", t)

\* A slot waits exactly while it has a request, one that writes has the id of a tenant, and a
\* tenant whose creation is about to be acknowledged is there.
RequestAt(r) ==
    /\ Begun(r) <=> at[r] # "idle"
    /\ Begun(r) => asked[r] \in Requests
    /\ at[r] \in Holding => Tenant(r) \in Tenants
    /\ at[r] = "lookup" => asked[r].op \in {"getQuota", "setQuota"}
    /\ at[r] = "tenantQuota" => Kept(Tenant(r))

DoorInv == DoorTypeOK /\ RowsBounded /\ AcknowledgedStays /\ \A r \in Slots : RequestAt(r)

\* What is unfinished is on record, or some slot is half way through it.
HalfwayThrough(r, what, t) ==
    /\ Tenant(r) = t
    /\ at[r] = CASE what = "tenants" -> "insertTenant" [] what = "tenant_policies" -> "insertPolicy"
                 [] OTHER -> "tenantQuota"
Undone == {"tenants", "tenant_policies", "limits"}

\* How a slot's place tells what is unfinished.
LEMMA UnfinishedMeans ==
    \A t : \A what \in Undone :
        Unfinished(what, t) <=> [what |-> what, key |-> t] \in torn \/ \E r \in Slots : HalfwayThrough(r, what, t)
<1> SUFFICES ASSUME NEW t, NEW what \in Undone
             PROVE  Unfinished(what, t) <=> [what |-> what, key |-> t] \in torn \/ \E r \in Slots : HalfwayThrough(r, what, t)
  OBVIOUS
<1>1. ASSUME NEW r \in Slots PROVE [what |-> what, key |-> t] \in Halfway(r) <=> HalfwayThrough(r, what, t)
  BY DEF Halfway, HalfwayThrough, Undone
<1> QED BY <1>1 DEF Unfinished

\* And after a step.
LEMMA UnfinishedMeansNext ==
    \A t : \A what \in Undone :
        Unfinished(what, t)' <=> [what |-> what, key |-> t] \in torn' \/ \E r \in Slots : HalfwayThrough(r, what, t)'
<1> SUFFICES ASSUME NEW t, NEW what \in Undone
             PROVE  Unfinished(what, t)' <=> [what |-> what, key |-> t] \in torn'
                                             \/ \E r \in Slots : HalfwayThrough(r, what, t)'
  OBVIOUS
<1>1. ASSUME NEW r \in Slots PROVE [what |-> what, key |-> t] \in Halfway(r)' <=> HalfwayThrough(r, what, t)'
  BY DEF Halfway, HalfwayThrough, Undone
<1> QED BY <1>1 DEF Unfinished

OthersWait(r) == \A o \in Slots \ {r} : at'[o] = at[o] /\ asked'[o] = asked[o]

\* A tenant stays kept if a deleted row is one its slot, or the record, says is missing.
LEMMA KeptStays ==
    ASSUME NEW r \in Slots, OthersWait(r),
           \A t : Known(t) => Known(t)' \/ (at'[r] = "insertTenant" /\ Tenant(r)' = t),
           \A t : [what |-> "tenants", key |-> t] \in torn => [what |-> "tenants", key |-> t] \in torn' \/ Known(t)',
           \A t : HalfwayThrough(r, "tenants", t) => Known(t)' \/ [what |-> "tenants", key |-> t] \in torn',
           NEW t, Kept(t)
    PROVE  Kept(t)'
<1>1. CASE Known(t)
  <2>1. Known(t)' \/ HalfwayThrough(r, "tenants", t)'
    BY <1>1 DEF HalfwayThrough
  <2> QED BY <2>1, UnfinishedMeansNext DEF Kept, Undone
<1>2. CASE [what |-> "tenants", key |-> t] \in torn
  BY <1>2, UnfinishedMeansNext DEF Kept, Undone
<1>3. ASSUME NEW o \in Slots, HalfwayThrough(o, "tenants", t) PROVE Kept(t)'
  <2>1. CASE o = r
    BY <1>3, <2>1, UnfinishedMeansNext DEF Kept, Undone
  <2>2. CASE o # r
    <3>1. HalfwayThrough(o, "tenants", t)'
      BY <1>3, <2>2 DEF HalfwayThrough, OthersWait, Tenant
    <3> QED BY <3>1, UnfinishedMeansNext DEF Kept, Undone
  <2> QED BY <2>1, <2>2
<1>4. Known(t) \/ [what |-> "tenants", key |-> t] \in torn \/ \E o \in Slots : HalfwayThrough(o, "tenants", t)
  BY UnfinishedMeans DEF Kept, Undone
<1> QED BY <1>1, <1>2, <1>3, <1>4

\* A step of one slot keeps the invariant, if what it says of that slot is kept and no tenant is lost.
LEMMA SlotKeeps ==
    ASSUME DoorInv, NEW r \in Slots, OthersWait(r), DoorTypeOK', RowsBounded', RequestAt(r)',
           \A t : Kept(t) => Kept(t)', \A t \in acked' : t \in acked \/ Kept(t)'
    PROVE  DoorInv'
<1>1. ASSUME NEW o \in Slots PROVE RequestAt(o)'
  <2>1. CASE o # r
    <3>1. RequestAt(o) /\ at'[o] = at[o] /\ asked'[o] = asked[o]
      BY <2>1 DEF DoorInv, OthersWait
    <3>2. Tenant(o)' = Tenant(o) /\ (Begun(o)' <=> Begun(o))
      BY <3>1 DEF Tenant, Begun
    <3>3. at[o] = "tenantQuota" => Kept(Tenant(o)) /\ Kept(Tenant(o))'
      <4>1. PICK t : t = Tenant(o)
        OBVIOUS
      <4>2. Kept(t) <=> Kept(Tenant(o))
        BY <4>1
      <4>3. Kept(t)' <=> Kept(Tenant(o))'
        BY <3>2, <4>1 DEF Kept, Known, Unfinished, Entries
      <4> QED BY <3>1, <4>2, <4>3 DEF RequestAt
    <3> QED BY <3>1, <3>2, <3>3 DEF RequestAt
  <2> QED BY <2>1
<1>2. AcknowledgedStays'
  BY DEF DoorInv, AcknowledgedStays, Kept
<1> QED BY <1>1, <1>2 DEF DoorInv

-----------------------------------------------------------------------------
(* Steps that only read.                                                    *)

Reads(r) ==
    \/ ResolveTenant(r) \/ ResolvePolicy(r) \/ BodyEnds(r) \/ ListTenants(r) \/ CheckAbsent(r)
    \/ LookUpTenant(r) \/ ReadPolicy(r) \/ StillKnown(r) \/ MergePolicy(r) \/ ReportQuota(r)

\* A slot goes on to another statement, or is free again.
GoesTo(r, p) ==
    /\ at' = [at EXCEPT ![r] = p]
    /\ asked' = IF p = "idle" THEN [asked EXCEPT ![r] = NoRequest] ELSE asked

\* What is left alone by a step of a slot that neither writes nor fails.
RowsStay == UNCHANGED <<storeVars, provisions, issued, acked, torn, faults, crashes>>

\* The first statement of a request is one its kind may wait for.
LEMMA OperationStarts ==
    ASSUME NEW r \in Slots, at[r] = "body", RequestAt(r), StartOperation(r)
    PROVE  \E p \in Restful \cup {"idle"} :
               /\ GoesTo(r, p)
               /\ p \in Holding => Tenant(r) \in Tenants
               /\ p = "lookup" => asked[r].op \in {"getQuota", "setQuota"}
<1>1. asked[r] \in Requests /\ asked[r].op \in Ops
  BY RequestAssumption DEF RequestAt, RequestType
<1>2. asked[r].op \in {"create", "createFresh"} => Tenant(r) \in Tenants
  BY <1>1, RequestAssumption DEF Tenant
<1>3. {"list", "exists", "dropTenant", "lookup"} \subseteq Restful
  BY DEF Restful, Statements, Halves
<1>4. Answer(r) => GoesTo(r, "idle")
  BY DEF Answer, GoesTo
<1>5. \A p \in {"list", "exists", "dropTenant", "lookup"} : Await(r, p) => GoesTo(r, p)
  BY DEF Await, GoesTo
<1>6. {"list", "lookup", "idle"} \cap Holding = {}
  BY DEF Holding, Statements
<1>7. \/ Answer(r)
      \/ Await(r, "list")
      \/ asked[r].op \in {"create", "createFresh"} /\ (Await(r, "exists") \/ Await(r, "dropTenant"))
      \/ asked[r].op \in {"getQuota", "setQuota"} /\ Await(r, "lookup")
  <2>1. CASE asked[r].op \in {"health", "other"}
    BY <2>1 DEF StartOperation
  <2>2. CASE asked[r].op = "list"
    BY <2>2 DEF StartOperation
  <2>3. CASE asked[r].op \in {"create", "createFresh"}
    BY <2>3 DEF StartOperation, StartCreate
  <2>4. CASE asked[r].op \in {"getQuota", "setQuota"}
    BY <2>4 DEF StartOperation
  <2> QED BY <1>1, <2>1, <2>2, <2>3, <2>4 DEF Ops
<1> QED BY <1>2, <1>3, <1>4, <1>5, <1>6, <1>7

TokenStates == {"unborn", "live", "expired", "gone"}

\* The tokens of a process stay tokens when one changes its state.
LEMMA TokenForgotten ==
    ASSUME token \in [Servers -> [Tokens -> TokenStates]], NEW s \in Servers, NEW k \in Tokens, NEW v \in TokenStates
    PROVE  [token EXCEPT ![s][k] = v] \in [Servers -> [Tokens -> TokenStates]]
OBVIOUS

\* A step that only reads moves one slot on, and nothing is half done before or after it.
LEMMA ReadGoes ==
    ASSUME DoorInv, NEW r \in Slots, Reads(r)
    PROVE  /\ RowsStay /\ at[r] \in Restful
           /\ merged' \in [Slots -> Quotas] /\ token' \in [Servers -> [Tokens -> TokenStates]]
           /\ \E p \in Restful \cup {"idle"} :
                  /\ GoesTo(r, p)
                  /\ p \in Holding => Tenant(r) \in Tenants
                  /\ p = "lookup" => asked[r].op \in {"getQuota", "setQuota"}
<1>1. DoorTypeOK /\ RequestAt(r) /\ RowsBounded /\ StoreTypeOK
  BY DEF DoorInv, DoorTypeOK
<1>2. token \in [Servers -> [Tokens -> TokenStates]] /\ merged \in [Slots -> Quotas]
  BY <1>1 DEF DoorTypeOK, TokenStates
<1>3. \A p : p # "idle" /\ Await(r, p) => GoesTo(r, p)
  BY DEF Await, GoesTo
<1>4. Answer(r) => GoesTo(r, "idle")
  BY DEF Answer, GoesTo
<1>5. "idle" \notin Holding
  BY DEF Holding, Statements
<1>6. Begun(r) /\ asked[r] \in Requests /\ asked[r] \in RequestType
  BY <1>1, RequestAssumption DEF RequestAt, Reads, ResolveTenant, ResolvePolicy, BodyEnds, ListTenants, CheckAbsent,
        LookUpTenant, ReadPolicy, StillKnown, MergePolicy, ReportQuota
<1>7. \A t : Known(t) => t \in Tenants
  BY <1>1 DEF Known, Entries, StoreTypeOK
<1>8. {"contextPolicy", "body", "dropTenant", "readPolicy", "known", "existing", "dropPolicy", "effective"} \subseteq Restful
  BY DEF Restful, Statements, Halves
<1>9. {"contextPolicy", "body"} \cap Holding = {}
  BY DEF Holding, Statements
<1>10. CASE BodyEnds(r)
  <2>1. RowsStay /\ merged' = merged /\ at[r] = "body" /\ "body" \in Restful
    BY <1>8, <1>10 DEF BodyEnds, Dispatch, RowsStay
  <2>2. token' \in [Servers -> [Tokens -> TokenStates]]
    <3>1. token' = token \/ token' = TokensAfter(r)
      BY <1>10 DEF BodyEnds, Dispatch
    <3>2. asked[r].server \in Servers /\ "gone" \in TokenStates
      BY <1>6 DEF RequestType, TokenStates
    <3>3. CASE asked[r].token \in Tokens
      <4>1. [token EXCEPT ![asked[r].server][asked[r].token] = "gone"] \in [Servers -> [Tokens -> TokenStates]]
        BY <1>2, <3>2, <3>3, TokenForgotten
      <4> QED BY <1>2, <3>1, <4>1 DEF TokensAfter, Server
    <3>4. CASE asked[r].token \notin Tokens
      BY <1>2, <3>1, <3>4 DEF TokensAfter
    <3> QED BY <3>3, <3>4
  <2>3. Answer(r) \/ StartOperation(r)
    BY <1>10 DEF BodyEnds, Dispatch
  <2> QED BY <1>1, <1>2, <1>4, <1>5, <2>1, <2>2, <2>3, OperationStarts
<1>11. CASE ~BodyEnds(r)
  <2>1. RowsStay /\ token' = token
    BY <1>11 DEF Reads, RowsStay, ResolveTenant, ResolvePolicy, ListTenants, CheckAbsent,
          LookUpTenant, ReadPolicy, StillKnown, MergePolicy, ReportQuota
  <2>2. at[r] \in Restful
    BY <1>11 DEF Reads, Restful, Statements, Halves, ResolveTenant, ResolvePolicy, ListTenants, CheckAbsent,
          LookUpTenant, ReadPolicy, StillKnown, MergePolicy, ReportQuota
  <2>3. merged' \in [Slots -> Quotas]
    <3>1. CASE MergePolicy(r)
      <4>1. Merged(asked[r].quota, PolicyQuota(Tenant(r))) \in Quotas
        BY <1>1, <1>6, PolicyQuotaType DEF Merged, RequestType
      <4> QED BY <1>2, <3>1, <4>1 DEF MergePolicy
    <3>2. CASE ~MergePolicy(r)
      BY <1>2, <1>11, <3>2 DEF Reads, ResolveTenant, ResolvePolicy, ListTenants, CheckAbsent,
            LookUpTenant, ReadPolicy, StillKnown, ReportQuota
    <3> QED BY <3>1, <3>2
  <2>4. \/ Answer(r)
        \/ Await(r, "contextPolicy") \/ Await(r, "body")
        \/ Tenant(r) \in Tenants /\ \E p \in {"dropTenant", "readPolicy", "known", "existing", "dropPolicy", "effective"} : Await(r, p)
    <3>1. CASE ResolveTenant(r) \/ ResolvePolicy(r) \/ ListTenants(r) \/ ReportQuota(r)
      BY <3>1 DEF ResolveTenant, ResolvePolicy, ListTenants, ReportQuota
    <3>2. CASE CheckAbsent(r) \/ ReadPolicy(r) \/ StillKnown(r) \/ MergePolicy(r)
      <4>1. Tenant(r) \in Tenants
        BY <1>1, <3>2 DEF RequestAt, Holding, Statements, CheckAbsent, ReadPolicy, StillKnown, MergePolicy
      <4> QED BY <3>2, <4>1 DEF CheckAbsent, ReadPolicy, StillKnown, MergePolicy
    <3>3. CASE LookUpTenant(r)
      <4>1. asked[r].op \in {"getQuota", "setQuota"}
        BY <1>1, <3>3 DEF RequestAt, LookUpTenant
      <4>2. CASE ~Known(Tenant(r))
        BY <3>3, <4>2 DEF LookUpTenant
      <4>3. CASE Known(Tenant(r))
        BY <1>7, <3>3, <4>1, <4>3 DEF LookUpTenant
      <4> QED BY <4>2, <4>3
    <3> QED BY <1>11, <3>1, <3>2, <3>3 DEF Reads
  <2>5. \E p \in Restful \cup {"idle"} :
            /\ GoesTo(r, p)
            /\ p \in Holding => Tenant(r) \in Tenants
            /\ p = "lookup" => asked[r].op \in {"getQuota", "setQuota"}
    BY <1>3, <1>4, <1>5, <1>8, <1>9, <2>4
  <2> QED BY <1>2, <2>1, <2>2, <2>3, <2>5
<1> QED BY <1>10, <1>11

\* A slot that goes on leaves the others alone.
LEMMA GoesToTypes ==
    ASSUME DoorTypeOK, NEW r \in Slots, NEW p \in Statements \cup {"idle", "body"}, GoesTo(r, p)
    PROVE  /\ at' \in [Slots -> Statements \cup {"idle", "body"}]
           /\ asked' \in [Slots -> RequestType \cup {NoRequest}]
           /\ OthersWait(r) /\ at'[r] = p
           /\ p # "idle" => asked' = asked
           /\ p = "idle" => asked'[r] = NoRequest
<1>1. at \in [Slots -> Statements \cup {"idle", "body"}] /\ asked \in [Slots -> RequestType \cup {NoRequest}]
  BY DEF DoorTypeOK
<1>2. at' \in [Slots -> Statements \cup {"idle", "body"}] /\ at'[r] = p /\ \A o \in Slots \ {r} : at'[o] = at[o]
  BY <1>1 DEF GoesTo
<1>3. asked' \in [Slots -> RequestType \cup {NoRequest}] /\ \A o \in Slots \ {r} : asked'[o] = asked[o]
  BY <1>1 DEF GoesTo
<1> QED BY <1>1, <1>2, <1>3 DEF GoesTo, OthersWait

\* Where a slot may go without having to answer for a tenant.
LEMMA RequestGoes ==
    ASSUME DoorInv, NEW r \in Slots, Begun(r), NEW p \in Statements \cup {"idle", "body"}, GoesTo(r, p),
           p \in Holding => Tenant(r) \in Tenants,
           p = "lookup" => asked[r].op \in {"getQuota", "setQuota"},
           p = "tenantQuota" => Known(Tenant(r))'
    PROVE  RequestAt(r)'
<1>1. RequestAt(r) /\ DoorTypeOK
  BY DEF DoorInv
<1>2. at'[r] = p /\ (p # "idle" => asked' = asked) /\ (p = "idle" => asked'[r] = NoRequest)
  BY <1>1, GoesToTypes
<1>3. CASE p = "idle"
  <2>1. ~Begun(r)' /\ at'[r] = "idle" /\ "idle" \notin Holding
    BY <1>2, <1>3 DEF Begun, Holding, Statements
  <2> QED BY <2>1 DEF RequestAt
<1>4. CASE p # "idle"
  <2>1. Begun(r)' /\ asked'[r] = asked[r] /\ Tenant(r)' = Tenant(r) /\ at'[r] = p
    BY <1>2, <1>4 DEF Begun, Tenant
  <2>2. asked[r] \in Requests
    BY <1>1 DEF RequestAt
  <2> QED BY <1>4, <2>1, <2>2 DEF RequestAt, Kept
<1> QED BY <1>3, <1>4

\* Reading keeps the invariant.
LEMMA ReadKeeps ==
    ASSUME DoorInv, NEW r \in Slots, Reads(r) PROVE DoorInv'
<1>1. RowsStay /\ at[r] \in Restful /\ merged' \in [Slots -> Quotas] /\ token' \in [Servers -> [Tokens -> TokenStates]]
  BY ReadGoes
<1>2. PICK p \in Restful \cup {"idle"} :
          GoesTo(r, p) /\ (p \in Holding => Tenant(r) \in Tenants) /\ (p = "lookup" => asked[r].op \in {"getQuota", "setQuota"})
  BY ReadGoes
<1>3. p \in Statements \cup {"idle", "body"} /\ p \notin Halves /\ at[r] \notin Halves /\ at[r] # "idle"
  BY <1>1, <1>2 DEF Restful, Statements, Halves
<1>4. DoorTypeOK /\ RowsBounded /\ RequestAt(r) /\ Begun(r)
  BY <1>3 DEF DoorInv, RequestAt
<1>5. /\ at' \in [Slots -> Statements \cup {"idle", "body"}] /\ asked' \in [Slots -> RequestType \cup {NoRequest}]
      /\ OthersWait(r) /\ at'[r] = p
  BY <1>2, <1>3, <1>4, GoesToTypes
<1>6. RequestAt(r)'
  <2>1. p # "tenantQuota"
    BY <1>3 DEF Halves
  <2> QED BY <1>2, <1>3, <1>4, <2>1, RequestGoes
<1>7. DoorTypeOK' /\ RowsBounded'
  BY <1>1, <1>4, <1>5 DEF RowsStay, storeVars, provisions, DoorTypeOK, StoreTypeOK, RowsBounded, TokenStates
<1>8. \A t : Kept(t) => Kept(t)'
  <2>1. \A t : (Known(t) <=> Known(t)') /\ ~HalfwayThrough(r, "tenants", t)
    BY <1>1, <1>3 DEF RowsStay, storeVars, Known, Entries, HalfwayThrough, Halves
  <2>2. torn' = torn
    BY <1>1 DEF RowsStay
  <2> QED BY <1>5, <2>1, <2>2, KeptStays
<1>9. acked' = acked
  BY <1>1 DEF RowsStay
<1> QED BY <1>5, <1>6, <1>7, <1>8, <1>9, SlotKeeps

-----------------------------------------------------------------------------
(* Steps that write, and failures.                                          *)

\* A row is deleted: its slot is half way until the new one is inserted.
LEMMA DropKeeps ==
    ASSUME DoorInv, NEW r \in Slots, DropTenant(r) \/ DropPolicy(r) PROVE DoorInv'
<1> DEFINE ns == IF at[r] = "dropTenant" THEN "tenants" ELSE "tenant_policies"
           p == IF at[r] = "dropTenant" THEN "insertTenant" ELSE "insertPolicy"
<1>1. DoorTypeOK /\ RowsBounded /\ RequestAt(r) /\ StoreTypeOK
  BY DEF DoorInv, DoorTypeOK
<1>2. /\ at[r] \in {"dropTenant", "dropPolicy"} /\ Delete(ns, Tenant(r)) /\ Await(r, p)
      /\ UNCHANGED <<provisions, issued, merged, token, acked, torn, faults, crashes>>
  BY DEF DropTenant, DropPolicy
<1>3. Tenant(r) \in Tenants /\ Begun(r)
  BY <1>1, <1>2 DEF RequestAt, Holding, Statements
<1>4. p \in {"insertTenant", "insertPolicy"} /\ p \in Statements /\ ns \in {"tenants", "tenant_policies"}
      /\ (ns = "tenants" => p = "insertTenant")
  BY DEF Statements
<1> HIDE DEF ns, p
<1>5. GoesTo(r, p)
  BY <1>2, <1>4 DEF Await, GoesTo
<1>6. /\ at' \in [Slots -> Statements \cup {"idle", "body"}] /\ asked' \in [Slots -> RequestType \cup {NoRequest}]
      /\ OthersWait(r) /\ at'[r] = p /\ asked' = asked
  BY <1>1, <1>4, <1>5, GoesToTypes
<1>7. RequestAt(r)'
  BY <1>3, <1>4, <1>5, RequestGoes
<1>8. /\ rows' \subseteq rows /\ RowsBounded'
      /\ \A o : (ns # "tenants" \/ o # Tenant(r)) => (Known(o)' <=> Known(o))
  <2>1. PICK t : t = Tenant(r)
    OBVIOUS
  <2>2. Delete(ns, t)
    BY <1>2, <2>1
  <2> QED BY <1>1, <1>4, <2>1, <2>2, DeleteGoes
<1>9. DoorTypeOK'
  <2>1. StoreTypeOK'
    BY <1>1, <1>2, <1>8 DEF StoreTypeOK, Delete
  <2> QED BY <1>1, <1>2, <1>6, <2>1 DEF DoorTypeOK, provisions
<1>10. \A t : Kept(t) => Kept(t)'
  <2>1. \A t : Known(t) => Known(t)' \/ (at'[r] = "insertTenant" /\ Tenant(r)' = t)
    BY <1>4, <1>6, <1>8 DEF Tenant
  <2>2. torn' = torn /\ \A t : ~HalfwayThrough(r, "tenants", t)
    BY <1>2 DEF HalfwayThrough
  <2> QED BY <1>6, <2>1, <2>2, KeptStays
<1> QED BY <1>2, <1>6, <1>7, <1>8, <1>9, <1>10, SlotKeeps

\* A step that changes rows and limits keeps the types of the store.
LEMMA RowTypes ==
    ASSUME StoreTypeOK,
           rows' \subseteq [id : Nat \ {0}, namespace : {"tenants", "tenant_policies"}, key : Tenants, quota : Quotas],
           limits' \in [Servers -> [Tenants -> Limits \cup {NoQuota}]], UNCHANGED <<defaults, life, unread, degraded>>
    PROVE  StoreTypeOK'
BY DEF StoreTypeOK

\* A tenant's row is inserted: it is known from then on.
LEMMA StoreTenantKeeps ==
    ASSUME DoorInv, NEW r \in Slots, StoreTenant(r) PROVE DoorInv'
<1>1. DoorTypeOK /\ RowsBounded /\ RequestAt(r) /\ StoreTypeOK
  BY DEF DoorInv, DoorTypeOK
<1>2. /\ at[r] = "insertTenant" /\ Insert("tenants", Tenant(r), NoQuota) /\ Await(r, "tenantQuota")
      /\ torn' = torn \ {[what |-> "tenants", key |-> Tenant(r)]}
      /\ UNCHANGED <<provisions, issued, merged, token, acked, faults, crashes, defaults, limits, life, unread, degraded>>
  BY DEF StoreTenant, InsertTenant
<1>3. PICK t \in Tenants : t = Tenant(r)
  BY <1>1, <1>2 DEF RequestAt, Holding, Statements
<1>4. Begun(r) /\ GoesTo(r, "tenantQuota") /\ "tenantQuota" \in Statements
  BY <1>1, <1>2 DEF RequestAt, Await, GoesTo, Statements
<1>5. /\ at' \in [Slots -> Statements \cup {"idle", "body"}] /\ asked' \in [Slots -> RequestType \cup {NoRequest}]
      /\ OthersWait(r) /\ at'[r] = "tenantQuota" /\ asked' = asked
  BY <1>1, <1>4, GoesToTypes
<1>6. /\ rows' \subseteq [id : Nat \ {0}, namespace : {"tenants", "tenant_policies"}, key : Tenants, quota : Quotas]
      /\ RowsBounded' /\ Known(t)' /\ \A o : Known(o) => Known(o)'
  <2>1. Insert("tenants", t, NoQuota) /\ NoQuota \in Quotas
    BY <1>2, <1>3 DEF Quotas
  <2> QED BY <1>1, <2>1, InsertGoes
<1>7. RequestAt(r)'
  <2>1. Tenant(r)' = t
    BY <1>3, <1>5 DEF Tenant
  <2>2. Known(Tenant(r))'
    BY <1>6, <2>1 DEF Known, Entries
  <2>3. Tenant(r) \in Tenants
    BY <1>3
  <2> QED BY <1>4, <2>2, <2>3, RequestGoes
<1>8. DoorTypeOK'
  <2>1. StoreTypeOK'
    BY <1>1, <1>2, <1>6, RowTypes DEF StoreTypeOK
  <2> QED BY <1>1, <1>2, <1>5, <2>1 DEF DoorTypeOK, provisions
<1>9. \A o : Kept(o) => Kept(o)'
  <2>1. \A o : [what |-> "tenants", key |-> o] \in torn => [what |-> "tenants", key |-> o] \in torn' \/ Known(o)'
    BY <1>2, <1>3, <1>6
  <2>2. \A o : HalfwayThrough(r, "tenants", o) => Known(o)'
    BY <1>3, <1>6 DEF HalfwayThrough
  <2> QED BY <1>5, <1>6, <2>1, <2>2, KeptStays
<1> QED BY <1>2, <1>5, <1>6, <1>7, <1>8, <1>9, SlotKeeps

\* What a process enforces stays a limit or none.
LEMMA RegisteredType ==
    ASSUME StoreTypeOK, NEW s \in Servers, NEW t \in Tenants, NEW q \in Quotas
    PROVE  Registered(s, t, q) \in [Servers -> [Tenants -> Limits \cup {NoQuota}]]
BY DEF StoreTypeOK, Registered, TaskLimit

\* A tenant is acknowledged: the statement before has stored it.
LEMMA FinishCreateKeeps ==
    ASSUME DoorInv, NEW r \in Slots, FinishCreate(r) PROVE DoorInv'
<1>1. DoorTypeOK /\ RowsBounded /\ RequestAt(r) /\ StoreTypeOK
  BY DEF DoorInv, DoorTypeOK
<1>2. /\ at[r] = "tenantQuota" /\ Answer(r)
      /\ limits' = Registered(Server(r), Tenant(r), Effective(PolicyQuota(Tenant(r)), defaults[Server(r)]))
      /\ acked' = acked \cup {Tenant(r)} /\ torn' = torn \ {[what |-> "limits", key |-> Tenant(r)]}
      /\ UNCHANGED <<provisions, issued, merged, token, faults, crashes, rows, defaults, life, unread, degraded>>
  BY DEF FinishCreate, RegisterTenant
<1>3. PICK t \in Tenants : t = Tenant(r)
  BY <1>1, <1>2 DEF RequestAt, Holding, Statements
<1>4. Begun(r) /\ GoesTo(r, "idle")
  BY <1>1, <1>2 DEF RequestAt, Answer, GoesTo
<1>5. /\ at' \in [Slots -> Statements \cup {"idle", "body"}] /\ asked' \in [Slots -> RequestType \cup {NoRequest}]
      /\ OthersWait(r) /\ at'[r] = "idle"
  BY <1>1, <1>4, GoesToTypes
<1>6. RequestAt(r)'
  <2>1. "idle" \notin Holding
    BY DEF Holding, Statements
  <2> QED BY <1>4, <2>1, RequestGoes
<1>7. Kept(t)
  BY <1>1, <1>2, <1>3 DEF RequestAt
<1>8. Server(r) \in Servers
  BY <1>1, <1>4, RequestAssumption DEF RequestAt, RequestType, Server
<1>9. DoorTypeOK' /\ RowsBounded'
  <2>1. Effective(PolicyQuota(t), defaults[Server(r)]) \in Quotas
    BY <1>1, <1>8, PolicyQuotaType DEF Effective, StoreTypeOK
  <2>2. limits' \in [Servers -> [Tenants -> Limits \cup {NoQuota}]]
    BY <1>1, <1>2, <1>3, <1>8, <2>1, RegisteredType
  <2>3. StoreTypeOK'
    BY <1>1, <1>2, <2>2, RowTypes DEF StoreTypeOK
  <2> QED BY <1>1, <1>2, <1>3, <1>5, <2>3 DEF DoorTypeOK, provisions, RowsBounded
<1>10. \A o : Kept(o) => Kept(o)'
  <2>1. \A o : (Known(o) <=> Known(o)') /\ ~HalfwayThrough(r, "tenants", o)
    BY <1>2 DEF Known, Entries, HalfwayThrough
  <2>2. \A o : [what |-> "tenants", key |-> o] \in torn => [what |-> "tenants", key |-> o] \in torn'
    BY <1>2
  <2> QED BY <1>5, <2>1, <2>2, KeptStays
<1>11. \A o \in acked' : o \in acked \/ Kept(o)'
  BY <1>2, <1>3, <1>7, <1>10
<1> QED BY <1>5, <1>6, <1>9, <1>10, <1>11, SlotKeeps

\* A policy's row is inserted, and its limit registered.
LEMMA StorePolicyKeeps ==
    ASSUME DoorInv, NEW r \in Slots, StorePolicy(r) PROVE DoorInv'
<1>1. DoorTypeOK /\ RowsBounded /\ RequestAt(r) /\ StoreTypeOK
  BY DEF DoorInv, DoorTypeOK
<1>2. /\ at[r] = "insertPolicy" /\ Insert("tenant_policies", Tenant(r), merged[r]) /\ Await(r, "effective")
      /\ limits' = Registered(Server(r), Tenant(r), Effective(merged[r], defaults[Server(r)]))
      /\ torn' = torn \ {[what |-> w, key |-> Tenant(r)] : w \in {"tenant_policies", "limits"}}
      /\ merged' = [merged EXCEPT ![r] = NoQuota]
      /\ UNCHANGED <<provisions, issued, token, acked, faults, crashes, defaults, life, unread, degraded>>
  BY DEF StorePolicy, InsertPolicy
<1>3. PICK t \in Tenants : t = Tenant(r)
  BY <1>1, <1>2 DEF RequestAt, Holding, Statements
<1>4. Begun(r) /\ GoesTo(r, "effective") /\ "effective" \in Statements
  BY <1>1, <1>2 DEF RequestAt, Await, GoesTo, Statements
<1>5. /\ at' \in [Slots -> Statements \cup {"idle", "body"}] /\ asked' \in [Slots -> RequestType \cup {NoRequest}]
      /\ OthersWait(r) /\ at'[r] = "effective"
  BY <1>1, <1>4, GoesToTypes
<1>6. RequestAt(r)'
  BY <1>3, <1>4, RequestGoes
<1>7. merged[r] \in Quotas /\ merged' \in [Slots -> Quotas]
  BY <1>1, <1>2 DEF DoorTypeOK, Quotas
<1>8. /\ rows' \subseteq [id : Nat \ {0}, namespace : {"tenants", "tenant_policies"}, key : Tenants, quota : Quotas]
      /\ RowsBounded' /\ \A o : Known(o) => Known(o)'
  <2>1. Insert("tenant_policies", t, merged[r])
    BY <1>2, <1>3
  <2> QED BY <1>1, <1>7, <2>1, InsertGoes
<1>9. Server(r) \in Servers
  BY <1>1, <1>4, RequestAssumption DEF RequestAt, RequestType, Server
<1>10. DoorTypeOK'
  <2>1. Effective(merged[r], defaults[Server(r)]) \in Quotas
    BY <1>1, <1>7, <1>9 DEF Effective, StoreTypeOK
  <2>2. limits' \in [Servers -> [Tenants -> Limits \cup {NoQuota}]]
    BY <1>1, <1>2, <1>3, <1>9, <2>1, RegisteredType
  <2>3. StoreTypeOK'
    BY <1>1, <1>2, <1>8, <2>2, RowTypes
  <2>4. torn' \subseteq torn
    BY <1>2
  <2> QED BY <1>1, <1>2, <1>5, <1>7, <2>3, <2>4 DEF DoorTypeOK, provisions
<1>11. \A o : Kept(o) => Kept(o)'
  <2>1. \A o : ~HalfwayThrough(r, "tenants", o)
    BY <1>2 DEF HalfwayThrough
  <2>2. \A o : [what |-> "tenants", key |-> o] \in torn => [what |-> "tenants", key |-> o] \in torn'
    BY <1>2
  <2> QED BY <1>5, <1>8, <2>1, <2>2, KeptStays
<1> QED BY <1>2, <1>5, <1>6, <1>8, <1>10, <1>11, SlotKeeps

\* What a request leaves undone is about a tenant.
LEMMA HalfwayType ==
    ASSUME NEW r \in Slots, RequestAt(r)
    PROVE  /\ Halfway(r) \subseteq [what : Undone, key : Tenants]
           /\ \A t : HalfwayThrough(r, "tenants", t) => [what |-> "tenants", key |-> t] \in Halfway(r)
<1>1. at[r] \in Halves => Tenant(r) \in Tenants
  BY DEF RequestAt, Holding, Statements, Halves
<1> QED BY <1>1 DEF Halfway, Halves, Undone, HalfwayThrough

\* A statement fails: what is not done goes on record.
LEMMA FailureKeeps ==
    ASSUME DoorInv, NEW r \in Slots, StatementFails(r) PROVE DoorInv'
<1>1. DoorTypeOK /\ RowsBounded /\ RequestAt(r)
  BY DEF DoorInv
<1>2. /\ at[r] \in Statements /\ faults < MaxFaults /\ faults' = faults + 1 /\ torn' = torn \cup Halfway(r)
      /\ merged' = [merged EXCEPT ![r] = NoQuota]
      /\ UNCHANGED <<storeVars, provisions, issued, token, acked, crashes>>
  BY DEF StatementFails
<1>3. Begun(r)
  BY <1>1, <1>2 DEF RequestAt, Statements
<1>4. PICK p \in {"body", "idle"} : GoesTo(r, p)
  BY DEF StatementFails, Await, Answer, GoesTo
<1>5. /\ at' \in [Slots -> Statements \cup {"idle", "body"}] /\ asked' \in [Slots -> RequestType \cup {NoRequest}]
      /\ OthersWait(r) /\ at'[r] = p
  BY <1>1, <1>4, GoesToTypes
<1>6. RequestAt(r)'
  <2>1. p \notin Holding /\ p # "lookup" /\ p # "tenantQuota"
    BY DEF Holding, Statements
  <2> QED BY <1>3, <1>4, <2>1, RequestGoes
<1>7. DoorTypeOK' /\ RowsBounded'
  <2>1. torn' \subseteq [what : Undone, key : Tenants]
    BY <1>1, <1>2, HalfwayType DEF DoorTypeOK, Undone
  <2>2. merged' \in [Slots -> Quotas]
    BY <1>1, <1>2 DEF DoorTypeOK, Quotas
  <2>3. faults' \in 0..MaxFaults
    BY <1>1, <1>2, DoorAssumption DEF DoorTypeOK
  <2> QED BY <1>1, <1>2, <1>5, <2>1, <2>2, <2>3 DEF DoorTypeOK, StoreTypeOK, storeVars, provisions, RowsBounded, Undone
<1>8. \A o : Kept(o) => Kept(o)'
  <2>1. \A o : HalfwayThrough(r, "tenants", o) => [what |-> "tenants", key |-> o] \in torn'
    BY <1>1, <1>2, HalfwayType
  <2>2. \A o : Known(o) <=> Known(o)'
    BY <1>2 DEF storeVars, Known, Entries
  <2>3. \A o : [what |-> "tenants", key |-> o] \in torn => [what |-> "tenants", key |-> o] \in torn'
    BY <1>2
  <2> QED BY <1>5, <2>1, <2>2, <2>3, KeptStays
<1>9. acked' = acked
  BY <1>2
<1> QED BY <1>5, <1>6, <1>7, <1>8, <1>9, SlotKeeps

\* A request comes in.
LEMMA ArriveKeeps ==
    ASSUME DoorInv, NEW r \in Slots, Arrive(r) PROVE DoorInv'
<1>1. DoorTypeOK /\ RowsBounded /\ RequestAt(r)
  BY DEF DoorInv
<1>2. PICK q \in Requests, p \in {"context", "body"} : asked' = [asked EXCEPT ![r] = q] /\ at' = [at EXCEPT ![r] = p]
  BY DEF Arrive
<1>3. /\ ~Begun(r) /\ issued < MaxAsked /\ issued' = issued + 1
      /\ UNCHANGED <<storeVars, provisions, merged, token, acked, torn, faults, crashes>>
  BY DEF Arrive
<1>4. q \in RequestType /\ q # NoRequest
  BY RequestAssumption, DoorAssumption
<1>5. at \in [Slots -> Statements \cup {"idle", "body"}] /\ asked \in [Slots -> RequestType \cup {NoRequest}]
  BY <1>1 DEF DoorTypeOK
<1>6. /\ at' \in [Slots -> Statements \cup {"idle", "body"}] /\ asked' \in [Slots -> RequestType \cup {NoRequest}]
      /\ OthersWait(r) /\ at'[r] = p /\ asked'[r] = q
  BY <1>2, <1>4, <1>5 DEF OthersWait, Statements
<1>7. RequestAt(r)'
  <2>1. p \notin Holding /\ p # "lookup" /\ p # "tenantQuota" /\ p # "idle"
    BY DEF Holding, Statements
  <2> QED BY <1>4, <1>6, <2>1 DEF RequestAt, Begun
<1>8. DoorTypeOK' /\ RowsBounded'
  <2>1. issued' \in 0..MaxAsked
    BY <1>1, <1>3, DoorAssumption DEF DoorTypeOK
  <2> QED BY <1>1, <1>3, <1>6, <2>1 DEF DoorTypeOK, StoreTypeOK, storeVars, provisions, RowsBounded
<1>9. \A o : Kept(o) => Kept(o)'
  <2>1. \A o : (Known(o) <=> Known(o)') /\ ~HalfwayThrough(r, "tenants", o)
    BY <1>1, <1>3 DEF storeVars, Known, Entries, HalfwayThrough, RequestAt
  <2>2. torn' = torn
    BY <1>3
  <2> QED BY <1>6, <2>1, <2>2, KeptStays
<1>10. acked' = acked
  BY <1>3
<1> QED BY <1>6, <1>7, <1>8, <1>9, <1>10, SlotKeeps

\* A process dies, with its requests: what they had not done goes on record.
LEMMA CrashKeeps ==
    ASSUME DoorInv, NEW s \in Servers, ServerCrash(s) PROVE DoorInv'
<1>1. DoorTypeOK /\ RowsBounded /\ StoreTypeOK /\ AcknowledgedStays
  BY DEF DoorInv, DoorTypeOK
<1>2. /\ crashes < MaxCrashes /\ crashes' = crashes + 1 /\ StoreCrash(s)
      /\ token' = [token EXCEPT ![s] = [k \in Tokens |-> IF @[k] = "unborn" THEN @[k] ELSE "gone"]]
      /\ at' = [r \in Slots |-> IF r \in InFlight(s) THEN "idle" ELSE at[r]]
      /\ asked' = [r \in Slots |-> IF r \in InFlight(s) THEN NoRequest ELSE asked[r]]
      /\ merged' = [r \in Slots |-> IF r \in InFlight(s) THEN NoQuota ELSE merged[r]]
      /\ torn' = torn \cup UNION {Halfway(r) : r \in InFlight(s)}
      /\ UNCHANGED <<provisions, issued, acked, faults>>
  BY DEF ServerCrash
<1>3. InFlight(s) \subseteq Slots
  BY DEF InFlight
<1>4. torn' \subseteq [what : Undone, key : Tenants]
  <2>1. \A r \in InFlight(s) : Halfway(r) \subseteq [what : Undone, key : Tenants]
    BY <1>3, HalfwayType DEF DoorInv
  <2>2. torn \subseteq [what : Undone, key : Tenants]
    BY <1>1 DEF DoorTypeOK, Undone
  <2> QED BY <1>2, <2>1, <2>2
<1>5. DoorTypeOK' /\ RowsBounded'
  <2>1. StoreTypeOK' /\ RowsBounded'
    <3>1. life' \in [Servers -> {"off", "listing", "reading", "serving"}] /\ degraded' \subseteq Servers
      BY <1>1, <1>2 DEF StoreTypeOK, StoreCrash
    <3>2. defaults' \in [Servers -> Quotas] /\ unread' \in [Servers -> SUBSET Tenants]
      BY <1>1, <1>2 DEF StoreTypeOK, StoreCrash, Quotas
    <3>3. limits' \in [Servers -> [Tenants -> Limits \cup {NoQuota}]]
      BY <1>1, <1>2 DEF StoreTypeOK, StoreCrash
    <3> QED BY <1>1, <1>2, <3>1, <3>2, <3>3 DEF StoreTypeOK, StoreCrash, RowsBounded
  <2>2. token' \in [Servers -> [Tokens -> TokenStates]]
    BY <1>1, <1>2 DEF DoorTypeOK, TokenStates
  <2>3. at' \in [Slots -> Statements \cup {"idle", "body"}] /\ asked' \in [Slots -> RequestType \cup {NoRequest}]
    BY <1>1, <1>2 DEF DoorTypeOK
  <2>4. merged' \in [Slots -> Quotas]
    BY <1>1, <1>2 DEF DoorTypeOK, Quotas
  <2>5. crashes' \in 0..MaxCrashes
    BY <1>1, <1>2, DoorAssumption DEF DoorTypeOK
  <2> QED BY <1>1, <1>2, <1>4, <2>1, <2>2, <2>3, <2>4, <2>5 DEF DoorTypeOK, provisions, TokenStates, Undone
<1>6. ASSUME NEW t, Kept(t) PROVE Kept(t)'
  <2>1. Known(t) <=> Known(t)'
    BY <1>2 DEF StoreCrash, Known, Entries
  <2>2. ASSUME NEW o \in Slots, HalfwayThrough(o, "tenants", t)
        PROVE  [what |-> "tenants", key |-> t] \in torn' \/ HalfwayThrough(o, "tenants", t)'
    <3>1. CASE o \in InFlight(s)
      <4>1. [what |-> "tenants", key |-> t] \in Halfway(o)
        BY <2>2, HalfwayType DEF DoorInv
      <4> QED BY <1>2, <3>1, <4>1
    <3>2. CASE o \notin InFlight(s)
      BY <1>2, <2>2, <3>2 DEF HalfwayThrough, Tenant
    <3> QED BY <3>1, <3>2
  <2>3. [what |-> "tenants", key |-> t] \in torn => [what |-> "tenants", key |-> t] \in torn'
    BY <1>2
  <2>4. Known(t) \/ [what |-> "tenants", key |-> t] \in torn \/ \E o \in Slots : HalfwayThrough(o, "tenants", t)
    BY <1>6, UnfinishedMeans DEF Kept, Undone
  <2>5. Known(t)' \/ [what |-> "tenants", key |-> t] \in torn' \/ \E o \in Slots : HalfwayThrough(o, "tenants", t)'
    BY <2>1, <2>2, <2>3, <2>4
  <2> QED BY <2>5, UnfinishedMeansNext DEF Kept, Undone
<1>7. ASSUME NEW o \in Slots PROVE RequestAt(o)'
  <2>1. CASE o \in InFlight(s)
    <3>1. at'[o] = "idle" /\ asked'[o] = NoRequest /\ "idle" \notin Holding
      BY <1>2, <2>1 DEF Holding, Statements
    <3> QED BY <3>1 DEF RequestAt, Begun
  <2>2. CASE o \notin InFlight(s)
    <3>1. RequestAt(o) /\ at'[o] = at[o] /\ asked'[o] = asked[o]
      BY <1>2, <2>2 DEF DoorInv
    <3>2. Tenant(o)' = Tenant(o) /\ (Begun(o)' <=> Begun(o))
      BY <3>1 DEF Tenant, Begun
    <3>3. at[o] = "tenantQuota" => Kept(Tenant(o))'
      <4>1. PICK t : t = Tenant(o)
        OBVIOUS
      <4>2. Kept(t) <=> Kept(Tenant(o))
        BY <4>1
      <4>3. Kept(t)' <=> Kept(Tenant(o))'
        BY <3>2, <4>1 DEF Kept, Known, Unfinished, Entries
      <4> QED BY <1>6, <3>1, <4>2, <4>3 DEF RequestAt
    <3> QED BY <3>1, <3>2, <3>3 DEF RequestAt
  <2> QED BY <2>1, <2>2
<1>8. AcknowledgedStays'
  BY <1>1, <1>2, <1>6 DEF AcknowledgedStays, Kept
<1> QED BY <1>5, <1>7, <1>8 DEF DoorInv

\* A step that leaves rows and slots alone keeps the invariant.
LEMMA ElsewhereKeeps ==
    ASSUME DoorInv, DoorTypeOK', UNCHANGED <<rows, at, asked, acked>>,
           \A t : [what |-> "tenants", key |-> t] \in torn => [what |-> "tenants", key |-> t] \in torn'
    PROVE  DoorInv'
<1>1. ASSUME NEW t PROVE (Kept(t) => Kept(t)') /\ (Known(t)' <=> Known(t))
  <2>1. Known(t)' <=> Known(t)
    BY DEF Known, Entries
  <2>2. \A o \in Slots : HalfwayThrough(o, "tenants", t)' <=> HalfwayThrough(o, "tenants", t)
    BY DEF HalfwayThrough, Tenant
  <2> QED BY <2>1, <2>2, UnfinishedMeans, UnfinishedMeansNext DEF Kept, Undone
<1>2. ASSUME NEW o \in Slots PROVE RequestAt(o)'
  <2>1. RequestAt(o) /\ Tenant(o)' = Tenant(o) /\ (Begun(o)' <=> Begun(o))
    BY DEF DoorInv, Tenant, Begun
  <2>2. at[o] = "tenantQuota" => Kept(Tenant(o))'
    <3>1. PICK t : t = Tenant(o)
      OBVIOUS
    <3>2. Kept(t) <=> Kept(Tenant(o))
      BY <3>1
    <3>3. Kept(t)' <=> Kept(Tenant(o))'
      BY <2>1, <3>1 DEF Kept, Known, Unfinished, Entries
    <3> QED BY <1>1, <2>1, <3>2, <3>3 DEF RequestAt
  <2> QED BY <2>1, <2>2 DEF RequestAt
<1>3. AcknowledgedStays'
  BY <1>1 DEF DoorInv, AcknowledgedStays, Kept
<1>4. RowsBounded'
  BY DEF DoorInv, RowsBounded
<1> QED BY <1>2, <1>3, <1>4 DEF DoorInv

\* A process starts, or meets an error while it reads for its default quota.
LEMMA StartKeeps ==
    ASSUME DoorInv, NEW s \in Servers, ServerStarts(s) \/ BootFaults(s) PROVE DoorInv'
<1>1. DoorTypeOK /\ RowsBounded /\ StoreTypeOK
  BY DEF DoorInv, DoorTypeOK
<1>2. CASE BootFaults(s)
  <2>1. StoreTypeOK' /\ rows' = rows
    <3>1. unread' \in [Servers -> SUBSET Tenants]
      BY <1>1, <1>2 DEF BootFaults, ConfigureFails, StoreTypeOK
    <3>2. life' \in [Servers -> {"off", "listing", "reading", "serving"}] /\ degraded' \subseteq Servers
      BY <1>1, <1>2 DEF BootFaults, ConfigureFails, StoreTypeOK
    <3> QED BY <1>1, <1>2, <3>1, <3>2 DEF BootFaults, ConfigureFails, StoreTypeOK
  <2>2. faults' \in 0..MaxFaults
    BY <1>1, <1>2, DoorAssumption DEF BootFaults, DoorTypeOK
  <2>3. UNCHANGED <<enabled, admins, asked, at, merged, issued, token, acked, torn, crashes>>
    BY <1>2 DEF BootFaults, provisions, requestVars
  <2>4. DoorTypeOK'
    BY <1>1, <2>1, <2>2, <2>3 DEF DoorTypeOK
  <2> QED BY <2>1, <2>3, <2>4, ElsewhereKeeps
<1>3. CASE Boot(s) /\ UNCHANGED ownVars
  <2>1. StoreTypeOK' /\ rows' = rows
    BY <1>1, <1>3, StoreAssumption DEF Boot, StoreTypeOK
  <2>2. DoorTypeOK'
    BY <1>1, <1>3, <2>1 DEF DoorTypeOK, ownVars, provisions
  <2> QED BY <1>3, <2>1, <2>2, ElsewhereKeeps DEF ownVars
<1>4. CASE ListForDefaults(s) /\ UNCHANGED ownVars
  <2>1. StoreTypeOK' /\ rows' = rows
    <3>1. unread' \in [Servers -> SUBSET Tenants]
      BY <1>1, <1>4 DEF ListForDefaults, StoreTypeOK
    <3>2. life' \in [Servers -> {"off", "listing", "reading", "serving"}]
      BY <1>1, <1>4 DEF ListForDefaults, StoreTypeOK
    <3> QED BY <1>1, <1>4, <3>1, <3>2 DEF ListForDefaults, StoreTypeOK
  <2>2. DoorTypeOK'
    BY <1>1, <1>4, <2>1 DEF DoorTypeOK, ownVars, provisions
  <2> QED BY <1>4, <2>1, <2>2, ElsewhereKeeps DEF ownVars
<1>5. ASSUME NEW t \in Tenants, ReadForDefaults(s, t), torn' = torn \ {[what |-> "limits", key |-> t]},
             UNCHANGED <<provisions, requestVars, token, acked, faults, crashes>>
      PROVE  DoorInv'
  <2>1. StoreTypeOK' /\ rows' = rows
    <3>1. Effective(PolicyQuota(t), defaults[s]) \in Quotas
      BY <1>1, PolicyQuotaType DEF Effective, StoreTypeOK
    <3>2. limits' \in [Servers -> [Tenants -> Limits \cup {NoQuota}]]
      BY <1>1, <1>5, <3>1, RegisteredType DEF ReadForDefaults
    <3>3. unread' \in [Servers -> SUBSET Tenants]
      BY <1>1, <1>5 DEF ReadForDefaults, StoreTypeOK
    <3>4. life' \in [Servers -> {"off", "listing", "reading", "serving"}]
      BY <1>1, <1>5 DEF ReadForDefaults, StoreTypeOK
    <3> QED BY <1>1, <1>5, <3>2, <3>3, <3>4 DEF ReadForDefaults, StoreTypeOK
  <2>2. DoorTypeOK'
    BY <1>1, <1>5, <2>1 DEF DoorTypeOK, provisions, requestVars
  <2>3. \A o : [what |-> "tenants", key |-> o] \in torn => [what |-> "tenants", key |-> o] \in torn'
    BY <1>5
  <2> QED BY <1>5, <2>1, <2>2, <2>3, ElsewhereKeeps DEF requestVars
<1> QED BY <1>2, <1>3, <1>4, <1>5 DEF ServerStarts

\* Tokens are minted, expire and are cleaned up.
LEMMA TokensKeep ==
    ASSUME DoorInv, NEW s \in Servers, Cleanup(s) \/ \E k \in Tokens : Mint(s, k) \/ Expire(s, k) PROVE DoorInv'
<1>1. DoorTypeOK /\ token \in [Servers -> [Tokens -> TokenStates]]
  BY DEF DoorInv, DoorTypeOK, TokenStates
<1>2. UNCHANGED <<storeVars, provisions, requestVars, acked, torn, faults, crashes>>
  BY DEF Cleanup, Mint, Expire
<1>3. token' \in [Servers -> [Tokens -> TokenStates]]
  <2>1. CASE Cleanup(s)
    BY <1>1, <2>1 DEF Cleanup, TokenStates
  <2>2. ASSUME NEW k \in Tokens, Mint(s, k) \/ Expire(s, k) PROVE token' \in [Servers -> [Tokens -> TokenStates]]
    <3>1. token' = [token EXCEPT ![s][k] = "live"] \/ token' = [token EXCEPT ![s][k] = "expired"]
      BY <2>2 DEF Mint, Expire
    <3>2. "live" \in TokenStates /\ "expired" \in TokenStates
      BY DEF TokenStates
    <3> QED BY <1>1, <3>1, <3>2, TokenForgotten
  <2> QED BY <2>1, <2>2
<1>4. DoorTypeOK'
  BY <1>1, <1>2, <1>3 DEF DoorTypeOK, StoreTypeOK, TokenStates, storeVars, provisions, requestVars
<1> QED BY <1>2, <1>4, ElsewhereKeeps DEF storeVars, requestVars

\* Every step of the tenants' side keeps the invariant.
LEMMA DoorStep ==
    ASSUME DoorInv, DoorNext \/ UNCHANGED doorVars PROVE DoorInv'
<1>1. CASE UNCHANGED doorVars
  <2>1. DoorTypeOK' /\ UNCHANGED <<rows, at, asked, acked, torn>>
    BY <1>1 DEF DoorInv, DoorTypeOK, StoreTypeOK, doorVars, storeVars, ownVars, provisions
  <2> QED BY <2>1, ElsewhereKeeps
<1>2. ASSUME NEW r \in Slots, Proceed(r) PROVE DoorInv'
  BY <1>2, ReadKeeps, DropKeeps, StoreTenantKeeps, FinishCreateKeeps, StorePolicyKeeps DEF Proceed, Reads
<1> QED BY <1>1, <1>2, ArriveKeeps, FailureKeeps, StartKeeps, CrashKeeps, TokensKeep DEF DoorNext

\* There are no rows and no requests at first.
LEMMA DoorStarts == HostInit => DoorInv
<1> SUFFICES ASSUME HostInit PROVE DoorInv
  OBVIOUS
<1>1. PICK on \in BOOLEAN, users \in SUBSET Tokens : DoorStart(on, users)
  BY DEF HostInit
<1>2. StoreTypeOK /\ rows = {}
  BY <1>1 DEF DoorStart, StoreInit, StoreTypeOK, Quotas
<1>3. /\ at = [r \in Slots |-> "idle"] /\ asked = [r \in Slots |-> NoRequest] /\ merged = [r \in Slots |-> NoQuota]
      /\ token = [s \in Servers |-> [k \in Tokens |-> "unborn"]] /\ enabled = on /\ admins = users
      /\ issued = 0 /\ acked = {} /\ torn = {} /\ faults = 0 /\ crashes = 0
  BY <1>1 DEF DoorStart
<1>4. DoorTypeOK
  BY <1>2, <1>3, DoorAssumption DEF DoorTypeOK, Quotas
<1>5. RowsBounded /\ AcknowledgedStays
  BY <1>2, <1>3 DEF RowsBounded, AcknowledgedStays
<1>6. \A r \in Slots : RequestAt(r)
  BY <1>3 DEF RequestAt, Begun, Holding, Statements
<1> QED BY <1>4, <1>5, <1>6 DEF DoorInv

-----------------------------------------------------------------------------
(* What one process enforces: the inductive invariant.                      *)

Enforced(s, t) == limits[s][t] = TaskLimit(Effective(PolicyQuota(t), defaults[s]))
Settled(t) == Known(t) /\ ~Unfinished("tenant_policies", t) /\ ~Unfinished("limits", t)

\* A process serves requests only when its boot has read every policy, or met an error; then
\* what it enforces for a settled tenant is what is stored.
EnforcedInv(s) ==
    /\ life[s] # "serving" => \A r \in Slots : ~Begun(r)
    /\ life[s] \in {"off", "listing"} => unread[s] = {}
    /\ life[s] = "serving" /\ s \notin degraded => unread[s] = {}
    /\ life[s] \in {"reading", "serving"} /\ s \notin degraded =>
           \A t \in Tenants \ unread[s] : Settled(t) => Enforced(s, t)

\* A tenant that is settled was so before, if the step of a slot put nothing on or off record.
LEMMA WasFinished ==
    ASSUME NEW r \in Slots, OthersWait(r), NEW t, NEW what \in Undone, ~Unfinished(what, t)',
           [what |-> what, key |-> t] \in torn => [what |-> what, key |-> t] \in torn',
           HalfwayThrough(r, what, t) => HalfwayThrough(r, what, t)' \/ [what |-> what, key |-> t] \in torn'
    PROVE  ~Unfinished(what, t)
<1>1. [what |-> what, key |-> t] \notin torn' /\ \A o \in Slots : ~HalfwayThrough(o, what, t)'
  BY UnfinishedMeansNext
<1>2. \A o \in Slots \ {r} : HalfwayThrough(o, what, t)' <=> HalfwayThrough(o, what, t)
  BY DEF HalfwayThrough, OthersWait, Tenant
<1>3. \A o \in Slots : ~HalfwayThrough(o, what, t)
  BY <1>1, <1>2
<1> QED BY <1>1, <1>3, UnfinishedMeans

\* The same of both kinds of unfinished work that unsettle a tenant.
LEMMA WasSettled ==
    ASSUME NEW r \in Slots, OthersWait(r), NEW t, Settled(t)', Known(t)' => Known(t),
           \A what \in Undone \ {"tenants"} :
               /\ [what |-> what, key |-> t] \in torn => [what |-> what, key |-> t] \in torn'
               /\ HalfwayThrough(r, what, t) => HalfwayThrough(r, what, t)' \/ [what |-> what, key |-> t] \in torn'
    PROVE  Settled(t)
<1>1. {"tenant_policies", "limits"} \subseteq Undone \ {"tenants"}
  BY DEF Undone
<1>2. ~Unfinished("tenant_policies", t)' /\ ~Unfinished("limits", t)' /\ Known(t)
  BY DEF Settled
<1>3. ~Unfinished("tenant_policies", t)
  BY <1>1, <1>2, WasFinished
<1>4. ~Unfinished("limits", t)
  BY <1>1, <1>2, WasFinished
<1> QED BY <1>2, <1>3, <1>4 DEF Settled

\* A step while the process serves.
LEMMA ServingKeeps ==
    ASSUME NEW s \in Servers, EnforcedInv(s), life[s] = "serving", UNCHANGED <<defaults, life, unread, degraded>>,
           \A o \in Tenants : Settled(o)' =>
               \/ Enforced(s, o)'
               \/ Settled(o) /\ limits'[s][o] = limits[s][o] /\ PolicyQuota(o)' = PolicyQuota(o)
    PROVE  EnforcedInv(s)'
<1>1. s \notin degraded => \A o \in Tenants \ unread[s] : Settled(o)' => Enforced(s, o)'
  BY DEF EnforcedInv, Enforced
<1> QED BY <1>1 DEF EnforcedInv

\* Rows that stay are known, and read, as before.
LEMMA RowsSame ==
    ASSUME rows' = rows PROVE \A t : (Known(t)' <=> Known(t)) /\ PolicyQuota(t)' = PolicyQuota(t)
<1>1. \A ns, t : Entries(ns, t)' = Entries(ns, t)
  BY DEF Entries
<1> QED BY <1>1, PolicyStays DEF Known

\* The steps of requests, of the only process.
LEMMA ReadEnforces ==
    ASSUME DoorInv, NEW s \in Servers, EnforcedInv(s), life[s] = "serving", NEW r \in Slots,
           Reads(r) \/ StatementFails(r)
    PROVE  EnforcedInv(s)'
<1>1. DoorTypeOK /\ RequestAt(r)
  BY DEF DoorInv
<1>2. CASE Reads(r)
  <2>1. RowsStay /\ at[r] \in Restful
    BY <1>2, ReadGoes
  <2>2. PICK p \in Restful \cup {"idle"} : GoesTo(r, p)
    BY <1>2, ReadGoes
  <2>3. p \in Statements \cup {"idle", "body"} /\ at[r] \notin Halves
    BY <2>1, <2>2 DEF Restful, Statements, Halves
  <2>4. OthersWait(r)
    BY <1>1, <2>2, <2>3, GoesToTypes
  <2>5. rows' = rows /\ limits' = limits /\ torn' = torn /\ UNCHANGED <<defaults, life, unread, degraded>>
    BY <2>1 DEF RowsStay, storeVars
  <2>6. \A t : \A what \in Undone : ~HalfwayThrough(r, what, t)
    BY <2>3 DEF HalfwayThrough, Halves, Undone
  <2>7. \A o \in Tenants : Settled(o)' => Settled(o)
    BY <2>4, <2>5, <2>6, RowsSame, WasSettled
  <2> QED BY <2>5, <2>7, RowsSame, ServingKeeps
<1>3. CASE StatementFails(r)
  <2>1. torn' = torn \cup Halfway(r) /\ UNCHANGED storeVars
    BY <1>3 DEF StatementFails
  <2>2. PICK p \in {"body", "idle"} : GoesTo(r, p)
    BY <1>3 DEF StatementFails, Await, Answer, GoesTo
  <2>3. OthersWait(r)
    BY <1>1, <2>2, GoesToTypes
  <2>4. rows' = rows /\ limits' = limits /\ UNCHANGED <<defaults, life, unread, degraded>>
    BY <2>1 DEF storeVars
  <2>5. \A t : \A what \in Undone : HalfwayThrough(r, what, t) => [what |-> what, key |-> t] \in torn'
    BY <2>1 DEF HalfwayThrough, Halfway, Undone
  <2>6. \A o \in Tenants : Settled(o)' => Settled(o)
    BY <2>1, <2>3, <2>4, <2>5, RowsSame, WasSettled
  <2> QED BY <2>4, <2>6, RowsSame, ServingKeeps
<1> QED BY <1>2, <1>3

\* What a slot that writes needs, and where it goes.
LEMMA WriterGoes ==
    ASSUME DoorInv, NEW s, Servers = {s}, NEW r \in Slots, at[r] \in {"dropTenant", "dropPolicy"} \cup Halves
    PROVE  /\ Tenant(r) \in Tenants /\ Server(r) = s
           /\ \A p \in Statements : Await(r, p) => OthersWait(r) /\ at'[r] = p /\ asked' = asked
           /\ Answer(r) => OthersWait(r)
<1>1. DoorTypeOK /\ RequestAt(r)
  BY DEF DoorInv
<1>2. Tenant(r) \in Tenants /\ Begun(r)
  BY <1>1 DEF RequestAt, Holding, Statements, Halves
<1>3. Server(r) = s
  BY <1>1, <1>2, RequestAssumption DEF RequestAt, RequestType, Server
<1>4. \A p \in Statements : Await(r, p) => GoesTo(r, p) /\ p # "idle"
  BY DEF Await, GoesTo, Statements
<1>5. Answer(r) => GoesTo(r, "idle")
  BY DEF Answer, GoesTo
<1> QED BY <1>1, <1>2, <1>3, <1>4, <1>5, GoesToTypes

\* A deleted row: its tenant is unknown, or unsettled.
LEMMA DropEnforces ==
    ASSUME DoorInv, NEW s, Servers = {s}, EnforcedInv(s), life[s] = "serving", NEW r \in Slots,
           DropTenant(r) \/ DropPolicy(r)
    PROVE  EnforcedInv(s)'
<1>1. PICK t : t = Tenant(r)
  OBVIOUS
<1>2. StoreTypeOK /\ RowsBounded
  BY DEF DoorInv, DoorTypeOK
<1>3. at[r] \in {"dropTenant", "dropPolicy"} /\ torn' = torn /\ limits' = limits
      /\ UNCHANGED <<defaults, life, unread, degraded>>
  BY DEF DropTenant, DropPolicy, Delete
<1>4. {"insertTenant", "insertPolicy"} \subseteq Statements
  BY DEF Statements
<1>5. OthersWait(r) /\ at'[r] = (IF at[r] = "dropTenant" THEN "insertTenant" ELSE "insertPolicy") /\ asked' = asked
  BY <1>3, <1>4, WriterGoes DEF DropTenant, DropPolicy
<1>6. \A o : \A what \in Undone : ~HalfwayThrough(r, what, o)
  BY <1>3 DEF HalfwayThrough, Undone
<1>7. CASE DropTenant(r)
  <2>1. Delete("tenants", t)
    BY <1>1, <1>7 DEF DropTenant
  <2>2. \A o : PolicyQuota(o)' = PolicyQuota(o) /\ (Known(o)' => Known(o))
    BY <1>2, <2>1, DeleteGoes
  <2>3. \A o \in Tenants : Settled(o)' => Settled(o)
    BY <1>3, <1>5, <1>6, <2>2, WasSettled
  <2> QED BY <1>3, <2>2, <2>3, ServingKeeps
<1>8. CASE DropPolicy(r)
  <2>1. Delete("tenant_policies", t) /\ at[r] = "dropPolicy"
    BY <1>1, <1>8 DEF DropPolicy
  <2>2. \A o : (o # t => PolicyQuota(o)' = PolicyQuota(o)) /\ (Known(o)' => Known(o))
    BY <1>2, <2>1, DeleteGoes
  <2>3. ~Settled(t)'
    <3>1. HalfwayThrough(r, "tenant_policies", t)'
      BY <1>1, <1>5, <2>1 DEF HalfwayThrough, Tenant
    <3> QED BY <3>1, UnfinishedMeansNext DEF Settled, Undone
  <2>4. \A o \in Tenants : Settled(o)' => Settled(o) /\ o # t
    BY <1>3, <1>5, <1>6, <2>2, <2>3, WasSettled
  <2> QED BY <1>3, <2>2, <2>4, ServingKeeps
<1> QED BY <1>7, <1>8

\* A new tenant is unsettled until its limit is registered.
LEMMA StoreTenantEnforces ==
    ASSUME DoorInv, NEW s, Servers = {s}, EnforcedInv(s), life[s] = "serving", NEW r \in Slots, StoreTenant(r)
    PROVE  EnforcedInv(s)'
<1>1. StoreTypeOK /\ RowsBounded
  BY DEF DoorInv, DoorTypeOK
<1>2. /\ at[r] = "insertTenant" /\ Insert("tenants", Tenant(r), NoQuota) /\ Await(r, "tenantQuota")
      /\ torn' = torn \ {[what |-> "tenants", key |-> Tenant(r)]} /\ limits' = limits
      /\ UNCHANGED <<defaults, life, unread, degraded>>
  BY DEF StoreTenant, InsertTenant
<1>3. at[r] \in Halves /\ "tenantQuota" \in Statements
  BY <1>2 DEF Halves, Statements
<1>4. PICK t \in Tenants : t = Tenant(r)
  BY <1>3, WriterGoes
<1>5. OthersWait(r) /\ at'[r] = "tenantQuota" /\ asked' = asked
  BY <1>2, <1>3, WriterGoes
<1>6. Insert("tenants", t, NoQuota) /\ NoQuota \in Quotas
  BY <1>2, <1>4 DEF Quotas
<1>7. \A o : PolicyQuota(o)' = PolicyQuota(o) /\ (o # t => (Known(o)' => Known(o)))
  BY <1>1, <1>6, InsertGoes
<1>8. ~Settled(t)'
  <2>1. HalfwayThrough(r, "limits", t)'
    BY <1>4, <1>5 DEF HalfwayThrough, Tenant
  <2> QED BY <2>1, UnfinishedMeansNext DEF Settled, Undone
<1>9. \A o \in Tenants : Settled(o)' => Settled(o)
  <2> SUFFICES ASSUME NEW o \in Tenants, Settled(o)' PROVE Settled(o)
    OBVIOUS
  <2>1. \A what \in Undone \ {"tenants"} :
            /\ [what |-> what, key |-> o] \in torn => [what |-> what, key |-> o] \in torn'
            /\ ~HalfwayThrough(r, what, o)
    BY <1>2 DEF HalfwayThrough, Undone
  <2>2. Known(o)' => Known(o)
    BY <1>7, <1>8
  <2> QED BY <1>5, <2>1, <2>2, WasSettled
<1> QED BY <1>2, <1>7, <1>9, ServingKeeps

\* A limit that is registered is the one of that tenant and of no other.
LEMMA RegisteredOnly ==
    ASSUME StoreTypeOK, NEW s \in Servers, NEW t \in Tenants, NEW q, limits' = Registered(s, t, q)
    PROVE  limits'[s][t] = TaskLimit(q) /\ \A o \in Tenants \ {t} : limits'[s][o] = limits[s][o]
BY DEF StoreTypeOK, Registered

\* The end of a creation registers what is stored.
LEMMA FinishCreateEnforces ==
    ASSUME DoorInv, NEW s, Servers = {s}, EnforcedInv(s), life[s] = "serving", NEW r \in Slots, FinishCreate(r)
    PROVE  EnforcedInv(s)'
<1>1. StoreTypeOK /\ RowsBounded
  BY DEF DoorInv, DoorTypeOK
<1>2. /\ at[r] = "tenantQuota" /\ Answer(r) /\ rows' = rows
      /\ limits' = Registered(Server(r), Tenant(r), Effective(PolicyQuota(Tenant(r)), defaults[Server(r)]))
      /\ torn' = torn \ {[what |-> "limits", key |-> Tenant(r)]}
      /\ UNCHANGED <<defaults, life, unread, degraded>>
  BY DEF FinishCreate, RegisterTenant
<1>3. at[r] \in Halves
  BY <1>2 DEF Halves
<1>4. PICK t \in Tenants : t = Tenant(r)
  BY <1>3, WriterGoes
<1>5. OthersWait(r) /\ Server(r) = s
  BY <1>2, <1>3, WriterGoes
<1>6. limits'[s][t] = TaskLimit(Effective(PolicyQuota(t), defaults[s])) /\ \A o \in Tenants \ {t} : limits'[s][o] = limits[s][o]
  <2>1. limits' = Registered(s, t, Effective(PolicyQuota(t), defaults[s]))
    BY <1>2, <1>4, <1>5
  <2> QED BY <1>1, <2>1, RegisteredOnly
<1>7. Enforced(s, t)'
  <2>1. PolicyQuota(t)' = PolicyQuota(t)
    BY <1>2, RowsSame
  <2> QED BY <1>2, <1>6, <2>1 DEF Enforced
<1>8. ASSUME NEW o \in Tenants \ {t}, Settled(o)' PROVE Settled(o)
  <2>1. \A what \in Undone \ {"tenants"} :
            /\ [what |-> what, key |-> o] \in torn => [what |-> what, key |-> o] \in torn'
            /\ ~HalfwayThrough(r, what, o)
    BY <1>2, <1>4 DEF HalfwayThrough, Undone
  <2>2. Known(o)' => Known(o)
    BY <1>2, RowsSame
  <2> QED BY <1>5, <1>8, <2>1, <2>2, WasSettled
<1>9. \A o \in Tenants \ {t} : PolicyQuota(o)' = PolicyQuota(o)
  BY <1>2, RowsSame
<1> QED BY <1>2, <1>6, <1>7, <1>8, <1>9, ServingKeeps

\* The end of an update registers what it stores.
LEMMA StorePolicyEnforces ==
    ASSUME DoorInv, NEW s, Servers = {s}, EnforcedInv(s), life[s] = "serving", NEW r \in Slots, StorePolicy(r)
    PROVE  EnforcedInv(s)'
<1>1. StoreTypeOK /\ RowsBounded /\ merged[r] \in Quotas
  BY DEF DoorInv, DoorTypeOK
<1>2. /\ at[r] = "insertPolicy" /\ Insert("tenant_policies", Tenant(r), merged[r]) /\ Await(r, "effective")
      /\ limits' = Registered(Server(r), Tenant(r), Effective(merged[r], defaults[Server(r)]))
      /\ torn' = torn \ {[what |-> w, key |-> Tenant(r)] : w \in {"tenant_policies", "limits"}}
      /\ UNCHANGED <<defaults, life, unread, degraded>>
  BY DEF StorePolicy, InsertPolicy
<1>3. at[r] \in Halves /\ "effective" \in Statements
  BY <1>2 DEF Halves, Statements
<1>4. PICK t \in Tenants : t = Tenant(r)
  BY <1>3, WriterGoes
<1>5. OthersWait(r) /\ Server(r) = s
  BY <1>2, <1>3, WriterGoes
<1>6. limits'[s][t] = TaskLimit(Effective(merged[r], defaults[s])) /\ \A o \in Tenants \ {t} : limits'[s][o] = limits[s][o]
  <2>1. limits' = Registered(s, t, Effective(merged[r], defaults[s]))
    BY <1>2, <1>4, <1>5
  <2> QED BY <1>1, <2>1, RegisteredOnly
<1>7. /\ PolicyQuota(t)' = merged[r]
      /\ \A o : (o # t => PolicyQuota(o)' = PolicyQuota(o)) /\ (Known(o)' => Known(o))
  <2>1. Insert("tenant_policies", t, merged[r])
    BY <1>2, <1>4
  <2> QED BY <1>1, <2>1, InsertGoes
<1>8. Enforced(s, t)'
  BY <1>2, <1>6, <1>7 DEF Enforced
<1>9. ASSUME NEW o \in Tenants \ {t}, Settled(o)' PROVE Settled(o)
  <2>1. \A what \in Undone \ {"tenants"} :
            /\ [what |-> what, key |-> o] \in torn => [what |-> what, key |-> o] \in torn'
            /\ ~HalfwayThrough(r, what, o)
    BY <1>2, <1>4 DEF HalfwayThrough, Undone
  <2> QED BY <1>5, <1>7, <1>9, <2>1, WasSettled
<1> QED BY <1>2, <1>6, <1>7, <1>8, <1>9, ServingKeeps

\* A boot enforces what it reads; an error or a crash leaves nothing to enforce.
LEMMA StartEnforces ==
    ASSUME DoorInv, NEW s, Servers = {s}, NoQuota \notin Defaults, EnforcedInv(s),
           ServerStarts(s) \/ BootFaults(s)
    PROVE  EnforcedInv(s)'
<1>1. StoreTypeOK /\ RowsBounded
  BY DEF DoorInv, DoorTypeOK
<1>2. asked' = asked /\ rows' = rows
  BY DEF ServerStarts, BootFaults, Boot, ListForDefaults, ReadForDefaults, ConfigureFails, ownVars, requestVars
<1>3. \A r \in Slots : Begun(r)' <=> Begun(r)
  BY <1>2 DEF Begun
<1>4. CASE BootFaults(s)
  <2>1. life'[s] = "serving" /\ s \in degraded'
    BY <1>1, <1>4 DEF BootFaults, ConfigureFails, StoreTypeOK
  <2> QED BY <2>1 DEF EnforcedInv
<1>5. CASE Boot(s) /\ UNCHANGED ownVars
  <2>1. life[s] = "off" /\ life'[s] = "listing" /\ unread' = unread
    BY <1>1, <1>5 DEF Boot, StoreTypeOK
  <2> QED BY <1>3, <2>1 DEF EnforcedInv
<1>6. CASE ListForDefaults(s) /\ UNCHANGED ownVars
  <2>1. life[s] = "listing" /\ unread'[s] = {t \in Tenants : Known(t)}
        /\ life'[s] = IF unread'[s] = {} THEN "serving" ELSE "reading"
    BY <1>1, <1>6 DEF ListForDefaults, StoreTypeOK
  <2>2. \A t \in Tenants \ unread'[s] : ~Settled(t)'
    BY <1>2, <2>1, RowsSame DEF Settled
  <2> QED BY <1>3, <2>1, <2>2 DEF EnforcedInv
<1>7. ASSUME NEW t \in Tenants, ReadForDefaults(s, t), torn' = torn \ {[what |-> "limits", key |-> t]},
             UNCHANGED <<provisions, requestVars, token, acked, faults, crashes>>
      PROVE  EnforcedInv(s)'
  <2>1. /\ t \in unread[s] /\ unread'[s] = unread[s] \ {t} /\ UNCHANGED <<defaults, degraded>>
        /\ life'[s] = (IF unread'[s] = {} THEN "serving" ELSE life[s])
    BY <1>1, <1>7 DEF ReadForDefaults, StoreTypeOK
  <2>2. life[s] \in {"reading", "serving"} /\ (life[s] = "serving" => s \in degraded)
    <3>1. life[s] \in {"off", "listing", "reading", "serving"}
      BY <1>1 DEF StoreTypeOK
    <3> QED BY <2>1, <3>1 DEF EnforcedInv
  <2>3. /\ limits'[s][t] = TaskLimit(Effective(PolicyQuota(t), defaults[s]))
        /\ \A o \in Tenants \ {t} : limits'[s][o] = limits[s][o]
    BY <1>1, <1>7, RegisteredOnly DEF ReadForDefaults
  <2>4. Enforced(s, t)'
    <3>1. PolicyQuota(t)' = PolicyQuota(t)
      BY <1>2, RowsSame
    <3> QED BY <2>1, <2>3, <3>1 DEF Enforced
  <2>5. ASSUME NEW o \in Tenants \ unread'[s], s \notin degraded, Settled(o)', o # t PROVE Enforced(s, o)'
    <3>1. o \in Tenants \ unread[s] /\ (Known(o)' <=> Known(o)) /\ PolicyQuota(o)' = PolicyQuota(o)
      BY <1>2, <2>1, <2>5, RowsSame
    <3>2. \A what \in Undone \ {"tenants"} : Unfinished(what, o) <=> Unfinished(what, o)'
      <4> SUFFICES ASSUME NEW what \in Undone \ {"tenants"} PROVE Unfinished(what, o) <=> Unfinished(what, o)'
        OBVIOUS
      <4>1. [what |-> what, key |-> o] \in torn <=> [what |-> what, key |-> o] \in torn'
        BY <1>7, <2>5
      <4>2. \A r \in Slots : HalfwayThrough(r, what, o) <=> HalfwayThrough(r, what, o)'
        BY <1>7 DEF HalfwayThrough, Tenant, requestVars
      <4> QED BY <4>1, <4>2, UnfinishedMeans, UnfinishedMeansNext
    <3>3. Settled(o)
      BY <2>5, <3>1, <3>2 DEF Settled, Undone
    <3>4. Enforced(s, o)
      BY <2>2, <2>5, <3>1, <3>3 DEF EnforcedInv
    <3> QED BY <2>1, <2>3, <2>5, <3>1, <3>4 DEF Enforced
  <2>6. life'[s] # "serving" => \A r \in Slots : ~Begun(r)'
    BY <1>3, <2>1 DEF EnforcedInv
  <2>7. life'[s] \in {"reading", "serving"}
    BY <2>1, <2>2
  <2>8. life'[s] = "serving" /\ s \notin degraded => unread'[s] = {}
    BY <2>1, <2>2
  <2>9. s \notin degraded => \A o \in Tenants \ unread'[s] : Settled(o)' => Enforced(s, o)'
    BY <2>4, <2>5
  <2> QED BY <2>1, <2>6, <2>7, <2>8, <2>9 DEF EnforcedInv
<1> QED BY <1>4, <1>5, <1>6, <1>7 DEF ServerStarts

\* A dead process serves nobody.
LEMMA CrashEnforces ==
    ASSUME DoorInv, NEW s, Servers = {s}, EnforcedInv(s), ServerCrash(s)
    PROVE  EnforcedInv(s)'
<1>1. StoreTypeOK
  BY DEF DoorInv, DoorTypeOK
<1>2. life'[s] = "off" /\ unread'[s] = {}
  BY <1>1 DEF ServerCrash, StoreCrash, StoreTypeOK
<1>3. ASSUME NEW r \in Slots PROVE ~Begun(r)'
  <2>1. CASE r \in InFlight(s)
    BY <2>1 DEF ServerCrash, Begun
  <2>2. CASE r \notin InFlight(s)
    <3>1. ~Begun(r)
      <4>1. Begun(r) => asked[r].server \in Servers
        BY RequestAssumption DEF DoorInv, RequestAt, RequestType
      <4> QED BY <2>2, <4>1 DEF InFlight, Server
    <3> QED BY <2>2, <3>1 DEF ServerCrash, Begun
  <2> QED BY <2>1, <2>2
<1> QED BY <1>2, <1>3 DEF EnforcedInv

\* A request that comes in has done nothing yet.
LEMMA ArriveEnforces ==
    ASSUME DoorInv, NEW s, Servers = {s}, EnforcedInv(s), NEW r \in Slots, Arrive(r)
    PROVE  EnforcedInv(s)'
<1>1. DoorTypeOK /\ RequestAt(r)
  BY DEF DoorInv
<1>2. PICK q \in Requests, p \in {"context", "body"} :
          life[q.server] = "serving" /\ asked' = [asked EXCEPT ![r] = q] /\ at' = [at EXCEPT ![r] = p]
  BY DEF Arrive
<1>3. ~Begun(r) /\ UNCHANGED <<storeVars, torn>>
  BY DEF Arrive
<1>4. life[s] = "serving"
  BY <1>2, RequestAssumption DEF RequestType
<1>5. OthersWait(r)
  BY <1>1, <1>2 DEF DoorTypeOK, OthersWait
<1>6. at[r] = "idle"
  BY <1>1, <1>3 DEF RequestAt
<1>7. \A t : \A what \in Undone : ~HalfwayThrough(r, what, t)
  BY <1>6 DEF HalfwayThrough, Undone
<1>8. rows' = rows /\ limits' = limits /\ torn' = torn /\ UNCHANGED <<defaults, life, unread, degraded>>
  BY <1>3 DEF storeVars
<1>9. \A o \in Tenants : Settled(o)' => Settled(o)
  BY <1>5, <1>7, <1>8, RowsSame, WasSettled
<1> QED BY <1>4, <1>8, <1>9, RowsSame, ServingKeeps

\* Every step keeps what the only process enforces.
LEMMA EnforcedStep ==
    ASSUME DoorInv, NEW s, Servers = {s}, NoQuota \notin Defaults, EnforcedInv(s), DoorNext \/ UNCHANGED doorVars
    PROVE  EnforcedInv(s)'
<1>1. CASE UNCHANGED <<storeVars, asked, at, torn>>
  <2>1. rows' = rows /\ asked' = asked /\ at' = at /\ torn' = torn /\ limits' = limits
        /\ UNCHANGED <<defaults, life, unread, degraded>>
    BY <1>1 DEF storeVars
  <2>2. \A t : \A what \in Undone : Unfinished(what, t)' <=> Unfinished(what, t)
    <3>1. \A t : \A what \in Undone, r \in Slots : HalfwayThrough(r, what, t)' <=> HalfwayThrough(r, what, t)
      BY <2>1 DEF HalfwayThrough, Tenant
    <3> QED BY <2>1, <3>1, UnfinishedMeans, UnfinishedMeansNext
  <2>3. \A t : (Settled(t)' <=> Settled(t)) /\ (Enforced(s, t)' <=> Enforced(s, t))
    BY <2>1, <2>2, RowsSame DEF Settled, Enforced, Undone
  <2> QED BY <2>1, <2>3 DEF EnforcedInv, Begun
<1>2. CASE UNCHANGED doorVars
  BY <1>1, <1>2 DEF doorVars, ownVars
<1>3. ASSUME Cleanup(s) \/ \E k \in Tokens : Mint(s, k) \/ Expire(s, k) PROVE EnforcedInv(s)'
  BY <1>1, <1>3 DEF Cleanup, Mint, Expire, requestVars
<1>4. ASSUME NEW r \in Slots, Proceed(r) \/ StatementFails(r) PROVE EnforcedInv(s)'
  <2>1. RequestAt(r) /\ at[r] # "idle"
    BY <1>4 DEF DoorInv, Proceed, StatementFails, Statements, ResolveTenant, ResolvePolicy, BodyEnds, ListTenants,
        CheckAbsent, DropTenant, StoreTenant, FinishCreate, LookUpTenant, ReadPolicy, StillKnown, MergePolicy,
        DropPolicy, StorePolicy, ReportQuota
  <2>2. life[s] = "serving"
    BY <2>1 DEF RequestAt, EnforcedInv
  <2> QED BY <1>4, <2>2, ReadEnforces, DropEnforces, StoreTenantEnforces, FinishCreateEnforces, StorePolicyEnforces
          DEF Proceed, Reads
<1> QED BY <1>2, <1>3, <1>4, ArriveEnforces, StartEnforces, CrashEnforces DEF DoorNext

-----------------------------------------------------------------------------
(* What always holds of the tenants.                                        *)

\* The invariant holds at first and after every step.
LEMMA DoorInvHolds == HostSpec => []DoorInv
<1>1. DoorInv /\ [HostNext]_hostVars => DoorInv'
  BY HostSteps, DoorStep
<1> QED BY <1>1, DoorStarts, PTL DEF HostSpec

\* A tenant whose creation was acknowledged is found by every later look-up, also after a crash,
\* unless another creation of it is between its DELETE and its INSERT, or died there; and rows,
\* requests and limits are well formed: for any processes, tenants, requests at a time and faults
\* (TenantManager.createTenant, persistTenant).
THEOREM TenantsStayKept == HostSpec => []TenantsAreKept
<1>1. DoorInv => TenantsAreKept
  BY DEF DoorInv, TenantsAreKept
<1> QED BY <1>1, DoorInvHolds, PTL

\* With one process on the table, and a default quota configured, the limit it enforces for a
\* tenant is that of the newest policy in the table, or of the default quota, however creations,
\* updates and the reads of a boot interleave, and after crashes (TenantManager.persistPolicy,
\* configureDefaultQuota).
THEOREM EnforcedStaysStored ==
    ASSUME NEW s, Servers = {s}, NoQuota \notin Defaults
    PROVE  HostSpec => []EnforcedIsStored
<1>1. HostInit => EnforcedInv(s)
  <2> SUFFICES ASSUME HostInit PROVE EnforcedInv(s)
    OBVIOUS
  <2>1. PICK on \in BOOLEAN, users \in SUBSET Tokens : DoorStart(on, users)
    BY DEF HostInit
  <2>2. life[s] = "off" /\ unread[s] = {} /\ \A r \in Slots : ~Begun(r)
    BY <2>1 DEF DoorStart, StoreInit, Begun
  <2> QED BY <2>2 DEF EnforcedInv
<1>2. DoorInv /\ EnforcedInv(s) /\ [HostNext]_hostVars => EnforcedInv(s)'
  BY HostSteps, EnforcedStep
<1>3. EnforcedInv(s) => EnforcedIsStored
  <2> SUFFICES ASSUME EnforcedInv(s) PROVE EnforcedIsStored
    OBVIOUS
  <2>1. \A o \in Servers : o = s
    OBVIOUS
  <2> QED BY <2>1 DEF EnforcedIsStored, EnforcedInv, Settled, Enforced
<1> QED BY <1>1, <1>2, <1>3, DoorInvHolds, PTL DEF HostSpec
=============================================================================
