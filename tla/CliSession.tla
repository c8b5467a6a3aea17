----------------------------- MODULE CliSession -----------------------------
(***************************************************************************)
(* CliSession (src/cli/session.ts): the one live system of a CLI process,  *)
(* booted on first use.  Callers race for it while it boots, fails to boot *)
(* or shuts down; a lock and the promise of the boot keep them from        *)
(* booting two.                                                            *)
(***************************************************************************)
EXTENDS SystemLifecycle

CONSTANTS
    Callers,       \* concurrent users of ensureSystem
    NoSystem       \* undefined

ASSUME CallersAssumption == NoSystem \notin Systems /\ NoSystem \notin Callers

VARIABLES
    caller,      \* where the ensureSystem call of a caller has got to
    given,       \* the system a caller was given
    system,      \* CliSession.system
    startPromise,\* the system startPromise stands for
    initLock,    \* the caller that holds the lock
    ending,      \* CliSession.shuttingDown
    hooks,       \* the signal handlers are installed
    shutdowns    \* how often shutdown did something

sessionVars == <<caller, given, system, startPromise, initLock, ending, hooks, shutdowns>>

CallerPlaces == {"idle", "lock", "locked", "boot", "given", "refused"}

SessionTypeOK ==
    /\ caller \in [Callers -> CallerPlaces]
    /\ given \in [Callers -> Systems \cup {NoSystem}]
    /\ system \in Systems \cup {NoSystem}
    /\ startPromise \in Systems \cup {NoSystem}
    /\ initLock \in Callers \cup {NoSystem}
    /\ ending \in BOOLEAN
    /\ hooks \in BOOLEAN
    /\ shutdowns \in Nat

Rechecks_Nothing == FALSE
Released_Forgotten(c) == initLock

-----------------------------------------------------------------------------
SessionInit ==
    /\ caller = [c \in Callers |-> "idle"]
    /\ given = [c \in Callers |-> NoSystem]
    /\ system = NoSystem
    /\ startPromise = NoSystem
    /\ initLock = NoSystem
    /\ ending = FALSE
    /\ hooks = FALSE
    /\ shutdowns = 0

Give(c, s) == caller' = [caller EXCEPT ![c] = "given"] /\ given' = [given EXCEPT ![c] = s]

\* release of acquireInitLock, in the finally block of its holder.
Released(c) == IF initLock = c THEN NoSystem ELSE initLock

\* ensureSystem up to its first wait.
Ensure(c) ==
    /\ caller[c] \in {"idle", "refused", "given"}
    /\ \/ system # NoSystem /\ Give(c, system)
       \/ /\ system = NoSystem
          /\ caller' = [caller EXCEPT ![c] = IF startPromise # NoSystem THEN "boot" ELSE "lock"]
          /\ given' = [given EXCEPT ![c] = NoSystem]
    /\ UNCHANGED <<lifeVars, system, startPromise, initLock, ending, hooks, shutdowns>>

TakeLock(c) ==
    /\ caller[c] = "lock"
    /\ initLock = NoSystem
    /\ initLock' = c
    /\ caller' = [caller EXCEPT ![c] = "locked"]
    /\ UNCHANGED <<lifeVars, given, system, startPromise, ending, hooks, shutdowns>>

\* Having the lock, ensureSystem looks again.
Rechecks == system # NoSystem \/ startPromise # NoSystem

FindsSystem(c) ==
    /\ caller[c] = "locked"
    /\ Rechecks
    /\ IF system # NoSystem
       THEN Give(c, system) /\ initLock' = Released(c)
       ELSE caller' = [caller EXCEPT ![c] = "boot"] /\ UNCHANGED <<given, initLock>>
    /\ UNCHANGED <<lifeVars, system, startPromise, ending, hooks, shutdowns>>

BootSystem(c) ==
    /\ caller[c] = "locked"
    /\ ~Rechecks
    /\ \E s \in Systems : Construct(s) /\ startPromise' = s
    /\ caller' = [caller EXCEPT ![c] = "boot"]
    /\ UNCHANGED <<given, system, initLock, ending, hooks, shutdowns>>

Waiting == {c \in Callers : caller[c] = "boot"}
LockAfterBoot == IF initLock \in Waiting THEN Released(initLock) ELSE initLock

\* bootSystem returns: system is set, telemetry and signal handlers are attached, and
\* every caller that waits for the promise gets the system.
BootDelivers ==
    /\ startPromise # NoSystem
    /\ boot[startPromise] = "up"
    /\ system' = startPromise
    /\ startPromise' = NoSystem
    /\ hooks' = TRUE
    /\ caller' = [c \in Callers |-> IF c \in Waiting THEN "given" ELSE caller[c]]
    /\ given' = [c \in Callers |-> IF c \in Waiting THEN startPromise ELSE given[c]]
    /\ initLock' = LockAfterBoot
    /\ UNCHANGED <<lifeVars, ending, shutdowns>>

BootRejects ==
    /\ startPromise # NoSystem
    /\ boot[startPromise] = "failed"
    /\ startPromise' = NoSystem
    /\ caller' = [c \in Callers |-> IF c \in Waiting THEN "refused" ELSE caller[c]]
    /\ initLock' = LockAfterBoot
    /\ UNCHANGED <<lifeVars, given, system, ending, hooks, shutdowns>>

\* shutdown, by a command or a signal.  Without a system only the hooks go: a boot in
\* progress is not told.
SessionShutdown ==
    /\ ~ending
    /\ shutdowns' = shutdowns + 1
    /\ IF system = NoSystem
       THEN /\ hooks' = FALSE
            /\ UNCHANGED <<lifeVars, ending>>
       ELSE /\ ending' = TRUE
            /\ IF shuttingDown[system] THEN UNCHANGED lifeVars
               ELSE /\ BeginShutdown({system}, {})
                    /\ UNCHANGED <<built, boot, initialized, requests, exited>>
            /\ UNCHANGED hooks
    /\ UNCHANGED <<caller, given, system, startPromise, initLock>>

\* Its finally block: the session may boot a new system.  A shutdown that somebody else
\* began is not waited for.
SessionEnds ==
    /\ ending
    /\ halt[system] = "done" \/ system \in dying
    /\ ending' = FALSE
    /\ hooks' = FALSE
    /\ system' = NoSystem
    /\ startPromise' = NoSystem
    /\ UNCHANGED <<lifeVars, caller, given, initLock, shutdowns>>

SessionStep(c) == Ensure(c) \/ TakeLock(c) \/ FindsSystem(c)
=============================================================================
