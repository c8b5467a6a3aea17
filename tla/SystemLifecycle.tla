--------------------------- MODULE SystemLifecycle ---------------------------
(***************************************************************************)
(* CodexSynapticSystem.initialize and shutdown (src/core/system.ts) for    *)
(* every system object the process constructs, with the HealthMonitor that *)
(* reads it and the process-wide handler of uncaught errors.               *)
(*                                                                         *)
(* An await of a promise that settles without I/O leaves no room for other *)
(* macrotasks, so the steps between two real waits are one action: reading *)
(* the configuration, probing the GPU and OpenAI, listening, closing the   *)
(* API server and flushing the log are the waits.                          *)
(***************************************************************************)
EXTENDS Integers, FiniteSets

CONSTANTS
    Systems,      \* 1..n: system objects, in the order they are constructed
    MaxRequests   \* API requests in flight at the same time

ASSUME SystemsAssumption == IsFiniteSet(Systems) /\ Systems = 1..Cardinality(Systems)
ASSUME RequestsAssumption == MaxRequests \in Nat

VARIABLES
    built,         \* how many systems were constructed
    boot,          \* where initialize has got to
    halt,          \* where shutdown has got to
    up,            \* the parts of a system that run: a timer, a component, the API server
    initialized, shuttingDown,   \* isInitialized, isShuttingDown
    requests,      \* API requests in flight
    dying,         \* systems whose shutdown was begun by an uncaught error
    exited         \* process.exit was called

lifeVars == <<built, boot, halt, up, initialized, shuttingDown, requests, dying, exited>>

Core  == {"registry", "scheduler", "mesh", "swarm", "consensus", "mcp", "a2a"}
Parts == Core \cup {"cleanup", "monitor", "health", "api"}
BootPlaces == {"none", "config", "probe", "listen", "relisten", "up", "failed"}
HaltPlaces == {"no", "closing", "flushing", "done"}

LifeTypeOK ==
    /\ built \in Systems \cup {0}
    /\ boot \in [Systems -> BootPlaces]
    /\ halt \in [Systems -> HaltPlaces]
    /\ up \in [Systems -> SUBSET Parts]
    /\ initialized \in [Systems -> BOOLEAN]
    /\ shuttingDown \in [Systems -> BOOLEAN]
    /\ requests \in [Systems -> 0..MaxRequests]
    /\ dying \subseteq Systems
    /\ exited \in BOOLEAN

\* isReady, what the commands ask before they use a system.
Ready(s) == initialized[s] /\ ~shuttingDown[s]

\* The checks of the HealthMonitor that fail; a mesh or a swarm that is off does not.
FailedChecks(s, memoryState) ==
    (IF Ready(s) THEN {} ELSE {"system-status"})
    \cup (IF memoryState = "critical" THEN {"memory-usage"} ELSE {})
    \cup ({"registry", "scheduler", "consensus"} \ up[s])

-----------------------------------------------------------------------------
(* Mutated forms.                                                           *)

InfraDown_MonitorStays == {"api"}

-----------------------------------------------------------------------------
LifeInit ==
    /\ built = 0
    /\ boot = [s \in Systems |-> "none"]
    /\ halt = [s \in Systems |-> "no"]
    /\ up = [s \in Systems |-> {}]
    /\ initialized = [s \in Systems |-> FALSE]
    /\ shuttingDown = [s \in Systems |-> FALSE]
    /\ requests = [s \in Systems |-> 0]
    /\ dying = {}
    /\ exited = FALSE

\* new CodexSynapticSystem() and the start of initialize.
Construct(s) ==
    /\ s = built + 1
    /\ built' = s
    /\ boot' = [boot EXCEPT ![s] = "config"]
    /\ UNCHANGED <<halt, up, initialized, shuttingDown, requests, dying, exited>>

\* The configuration is read and tenancy set up: the periodic token cleanup and the
\* resource monitor start, then the GPU and OpenAI are probed.
ConfigLoaded(s) ==
    /\ boot[s] = "config"
    /\ boot' = [boot EXCEPT ![s] = "probe"]
    /\ up' = [up EXCEPT ![s] = @ \cup {"cleanup", "monitor"}]
    /\ UNCHANGED <<built, halt, initialized, shuttingDown, requests, dying, exited>>

\* Neither probe can fail: storage and the components start, the system is initialized,
\* the health checks start, bridges are connected and the default agents deployed.
Probed(s) ==
    /\ boot[s] = "probe"
    /\ boot' = [boot EXCEPT ![s] = "listen"]
    /\ up' = [up EXCEPT ![s] = @ \cup Core \cup {"health"}]
    /\ initialized' = [initialized EXCEPT ![s] = TRUE]
    /\ UNCHANGED <<built, halt, shuttingDown, requests, dying, exited>>

\* The port is taken: the API server tries once more, on any free one.
PortTaken(s) ==
    /\ boot[s] = "listen"
    /\ boot' = [boot EXCEPT ![s] = "relisten"]
    /\ UNCHANGED <<built, halt, up, initialized, shuttingDown, requests, dying, exited>>

Listens(s) ==
    /\ boot[s] \in {"listen", "relisten"}
    /\ boot' = [boot EXCEPT ![s] = "up"]
    /\ up' = [up EXCEPT ![s] = @ \cup {"api"}]
    /\ UNCHANGED <<built, halt, initialized, shuttingDown, requests, dying, exited>>

\* catch and finally of initialize: only the token cleanup is stopped.
BootFails(s) ==
    /\ boot' = [boot EXCEPT ![s] = "failed"]
    /\ initialized' = [initialized EXCEPT ![s] = FALSE]
    /\ up' = [up EXCEPT ![s] = @ \ {"cleanup"}]
    /\ UNCHANGED <<built, halt, shuttingDown, requests, dying, exited>>

ConfigUnreadable(s) == boot[s] = "config" /\ BootFails(s)
CannotListen(s) == boot[s] \in {"listen", "relisten"} /\ BootFails(s)

\* A bridge cannot be connected, or the memory is critical and no agent may be deployed:
\* initialize throws when everything but the API server runs.
ProbedInVain(s) ==
    /\ boot[s] = "probe"
    /\ boot' = [boot EXCEPT ![s] = "failed"]
    /\ up' = [up EXCEPT ![s] = (@ \cup Core \cup {"health"}) \ {"cleanup"}]
    /\ UNCHANGED <<built, halt, initialized, shuttingDown, requests, dying, exited>>

-----------------------------------------------------------------------------
RequestArrives(s) ==
    /\ "api" \in up[s] /\ halt[s] = "no"
    /\ requests[s] < MaxRequests
    /\ requests' = [requests EXCEPT ![s] = @ + 1]
    /\ UNCHANGED <<built, boot, halt, up, initialized, shuttingDown, dying, exited>>

RequestAnswered(s) ==
    /\ requests[s] > 0
    /\ requests' = [requests EXCEPT ![s] = @ - 1]
    /\ UNCHANGED <<built, boot, halt, up, initialized, shuttingDown, dying, exited>>

\* shutdown, down to the wait for the API server; by is {s} for an uncaught error.
BeginShutdown(S, by) ==
    /\ shuttingDown' = [s \in Systems |-> s \in S \/ shuttingDown[s]]
    /\ halt' = [s \in Systems |-> IF s \in S THEN "closing" ELSE halt[s]]
    /\ up' = [s \in Systems |-> IF s \in S THEN up[s] \ (Core \cup {"cleanup", "health"})
                                ELSE up[s]]
    /\ dying' = dying \cup by

\* What is stopped once the API server is closed.
InfraDown == {"api", "monitor"}

\* server.close calls back when the last request has been answered; an API server that
\* does not listen has nothing to close.
ApiClosed(s) ==
    /\ halt[s] = "closing"
    /\ "api" \in up[s] => requests[s] = 0
    /\ halt' = [halt EXCEPT ![s] = "flushing"]
    /\ up' = [up EXCEPT ![s] = @ \ InfraDown]
    /\ UNCHANGED <<built, boot, initialized, shuttingDown, requests, dying, exited>>

\* The log is flushed and shutdown resolves; after an uncaught error the process exits.
Halted(s) ==
    /\ halt[s] = "flushing"
    /\ halt' = [halt EXCEPT ![s] = "done"]
    /\ exited' = (s \in dying)
    /\ UNCHANGED <<built, boot, up, initialized, shuttingDown, requests, dying>>

\* An uncaught exception: the handlers of ALL systems ever constructed call shutdown.  One
\* that is shutting down already, or has been, returns at once and the process exits.
UncaughtError ==
    /\ built > 0
    /\ LET live == {s \in 1..built : ~shuttingDown[s]} IN
       /\ BeginShutdown(live, live)
       /\ exited' = (live # 1..built)
    /\ UNCHANGED <<built, boot, initialized, requests>>

=============================================================================
