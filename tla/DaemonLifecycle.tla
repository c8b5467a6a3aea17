--------------------------- MODULE DaemonLifecycle ---------------------------
(***************************************************************************)
(* The detached daemon of codex-synaptic and the commands that control it: *)
(* `background start | stop | restart | status` (src/cli/daemon-manager.ts)*)
(* are processes of their own, each forked daemon (src/cli/daemon-runner.ts)*)
(* is another, and what they share is two paths of the state directory:    *)
(* daemon.json, which names the daemon that has reported ready, and        *)
(* daemon.sock, the unix socket it listens on.  No path is ever locked: a  *)
(* step is what one process does between two moments at which another can  *)
(* get in.  setMode and setTier, which no command sends, are left out.     *)
(***************************************************************************)
EXTENDS Naturals, FiniteSets

CONSTANTS
    Clients,  \* terminals; each one runs one command at a time
    Daemons,  \* the daemons a behaviour may fork; a pid is not used again
    None      \* no file

ASSUME NoneAssumption == None \notin Daemons

VARIABLES
    state,     \* the pid in daemon.json
    sock,      \* the daemon that bound the file daemon.sock, which may be dead
    pc,        \* where each daemon has got to
    reported,  \* the daemons that have sent "ready" to the client that forked them
    asked,     \* the daemons that have accepted a shutdown request over the socket
    again,     \* the daemons whose shutdown has been called a second time
    drained,   \* the daemons whose system.shutdown has come to its end
    cmd,       \* the command a client is running, "none" between two commands
    at,        \* where the command has got to
    saw,       \* the pid the command has read, or forked
    result     \* what the last command of a client has returned

daemonVars == <<pc, reported, asked, again, drained>>
clientVars == <<cmd, at, saw, result>>
vars == <<state, sock, pc, reported, asked, again, drained, cmd, at, saw, result>>

Gone == {"exited", "failed", "killed"}
DaemonPC == {"none", "forked", "initializing", "bound", "serving", "closing", "draining"} \cup Gone

Alive(d) == pc[d] \notin Gone \cup {"none"}
\* process.kill(pid, 0) on what the command has read.
Found(c) == saw[c] # None /\ Alive(saw[c])

-----------------------------------------------------------------------------
(* Mutated forms, each a plausible bug of the definition it is named for.   *)

Terminated_Ignored(d) == UNCHANGED <<pc, sock, again>>
ForceStop_NoSignal(c) ==
    /\ at[c] = "polling"
    /\ state' = None
    /\ at' = [at EXCEPT ![c] = "begin"]
    /\ result' = [result EXCEPT ![c] = "timeout"]
    /\ cmd' = [cmd EXCEPT ![c] = IF cmd[c] = "restart" THEN "start" ELSE "none"]
    /\ UNCHANGED <<saw, sock, daemonVars>>
Fork_Blindly(c, d) ==
    /\ at[c] = "read" /\ cmd[c] = "start"
    /\ pc[d] = "none"
    /\ pc' = [pc EXCEPT ![d] = "forked"]
    /\ saw' = [saw EXCEPT ![c] = d]
    /\ at' = [at EXCEPT ![c] = "waiting"]
    /\ UNCHANGED <<state, sock, reported, asked, again, drained, cmd, result>>
StartTimesOut_WhileStarting(c) ==
    /\ at[c] = "waiting"
    /\ Found(c) /\ pc[saw[c]] \in {"forked", "initializing"}
    /\ pc' = [pc EXCEPT ![saw[c]] = "killed"]
    /\ result' = [result EXCEPT ![c] = "failed"]
    /\ cmd' = [cmd EXCEPT ![c] = "none"]
    /\ at' = [at EXCEPT ![c] = "begin"]
    /\ UNCHANGED <<state, sock, reported, asked, again, drained, saw>>

-----------------------------------------------------------------------------
Init ==
    /\ state = None /\ sock = None
    /\ pc = [d \in Daemons |-> "none"]
    /\ reported = {} /\ asked = {} /\ again = {} /\ drained = {}
    /\ cmd = [c \in Clients |-> "none"]
    /\ at = [c \in Clients |-> "begin"]
    /\ saw = [c \in Clients |-> None]
    /\ result = [c \in Clients |-> "none"]

(* A daemon's shutdown.                                                     *)

\* shutdown: the first call closes the server, and closing it removes the file at its
\* path; a second call follows the first one through the same awaits.
Shutdown(d) ==
    IF pc[d] = "serving"
    THEN pc' = [pc EXCEPT ![d] = "closing"] /\ sock' = None /\ UNCHANGED again
    ELSE again' = again \cup {d} /\ UNCHANGED <<pc, sock>>

\* SIGTERM: its handler is set after "ready"; before that the signal kills.
Terminated(d) ==
    IF pc[d] \in {"forked", "initializing", "bound"}
    THEN pc' = [pc EXCEPT ![d] = "killed"] /\ UNCHANGED <<sock, again>>
    ELSE Shutdown(d)

-----------------------------------------------------------------------------
(* The commands.                                                            *)

\* A command returns; a restart goes on with startBackgroundSystem, whatever the stop
\* has returned.
Returns(c, r) ==
    /\ result' = [result EXCEPT ![c] = r]
    /\ cmd' = [cmd EXCEPT ![c] = IF cmd[c] = "restart" THEN "start" ELSE "none"]
    /\ at' = [at EXCEPT ![c] = "begin"]
    /\ UNCHANGED saw

Proceeds(c, step) == at' = [at EXCEPT ![c] = step] /\ UNCHANGED <<cmd, saw, result>>

Command(c, k) ==
    /\ cmd[c] = "none"
    /\ cmd' = [cmd EXCEPT ![c] = k]
    /\ UNCHANGED <<state, sock, daemonVars, at, saw, result>>

ReadState(c) ==
    /\ cmd[c] # "none" /\ at[c] = "begin"
    /\ saw' = [saw EXCEPT ![c] = state]
    /\ at' = [at EXCEPT ![c] = "read"]
    /\ result' = [result EXCEPT ![c] = "none"]
    /\ UNCHANGED <<state, sock, daemonVars, cmd>>

\* A state file that named a dead process is removed, whatever it names by now.
StaleRemoved(c) == IF saw[c] = None THEN state ELSE None

FindsRunning(c) ==
    /\ at[c] = "read" /\ cmd[c] \in {"status", "start"} /\ Found(c)
    /\ Returns(c, "running")
    /\ UNCHANGED <<state, sock, daemonVars>>

FindsNothing(c) ==
    /\ at[c] = "read" /\ cmd[c] # "start" /\ ~Found(c)
    /\ state' = StaleRemoved(c)
    /\ Returns(c, "not_running")
    /\ UNCHANGED <<sock, daemonVars>>

Fork(c, d) ==
    /\ at[c] = "read" /\ cmd[c] = "start" /\ ~Found(c)
    /\ pc[d] = "none"
    /\ state' = StaleRemoved(c)
    /\ pc' = [pc EXCEPT ![d] = "forked"]
    /\ saw' = [saw EXCEPT ![c] = d]
    /\ at' = [at EXCEPT ![c] = "waiting"]
    /\ UNCHANGED <<sock, reported, asked, again, drained, cmd, result>>

\* onError: no process could be forked.
ForkFails(c) ==
    /\ at[c] = "read" /\ cmd[c] = "start" /\ ~Found(c)
    /\ state' = StaleRemoved(c)
    /\ Returns(c, "failed")
    /\ UNCHANGED <<sock, daemonVars>>

\* onMessage "ready": only now is the daemon known to the other commands.
HearsReady(c) ==
    /\ at[c] = "waiting" /\ saw[c] \in reported
    /\ state' = saw[c]
    /\ Returns(c, "running")
    /\ UNCHANGED <<sock, daemonVars>>

\* onMessage "error", or onExit.
HearsFailure(c) ==
    /\ at[c] = "waiting" /\ ~Found(c)
    /\ Returns(c, "failed")
    /\ UNCHANGED <<state, sock, daemonVars>>

\* The 15 seconds are over: SIGTERM to the child, which may have just got ready.
StartTimesOut(c) ==
    /\ at[c] = "waiting"
    /\ IF Found(c) THEN Terminated(saw[c]) ELSE UNCHANGED <<pc, sock, again>>
    /\ Returns(c, "failed")
    /\ UNCHANGED <<state, reported, asked, drained>>

\* stopBackgroundSystem has found a live process and sends "shutdown" to the socket path:
\* the request looks at the state file for itself, and may fail or time out.
Ask(c) ==
    /\ at[c] = "read" /\ cmd[c] \in {"stop", "restart"} /\ Found(c)
    /\ state' = IF state # None /\ ~Alive(state) THEN None ELSE state
    /\ \/ UNCHANGED asked
       \/ /\ state' # None
          /\ sock # None /\ pc[sock] = "serving"
          /\ asked' = asked \cup {sock}
    /\ Proceeds(c, "asked")
    /\ UNCHANGED <<sock, pc, reported, again, drained>>

\* ... and SIGTERM follows, whatever came of the request.
Terminate(c) ==
    /\ at[c] = "asked" /\ Found(c)
    /\ Terminated(saw[c])
    /\ Proceeds(c, "polling")
    /\ UNCHANGED <<state, reported, asked, drained>>

TerminateMisses(c) ==
    /\ at[c] = "asked" /\ ~Found(c)
    /\ state' = None
    /\ Returns(c, "not_running")
    /\ UNCHANGED <<sock, daemonVars>>

SeesStopped(c) ==
    /\ at[c] = "polling" /\ ~Found(c)
    /\ state' = None
    /\ Returns(c, "stopped")
    /\ UNCHANGED <<sock, daemonVars>>

\* The timeout is over: SIGKILL, and the state file is removed.
ForceStop(c) ==
    /\ at[c] = "polling"
    /\ pc' = IF Found(c) THEN [pc EXCEPT ![saw[c]] = "killed"] ELSE pc
    /\ state' = None
    /\ Returns(c, "timeout")
    /\ UNCHANGED <<sock, reported, asked, again, drained>>

-----------------------------------------------------------------------------
(* The daemon.                                                              *)

\* main begins: whatever is at the socket path is removed.
Boot(d) ==
    /\ pc[d] = "forked"
    /\ pc' = [pc EXCEPT ![d] = "initializing"]
    /\ sock' = None
    /\ UNCHANGED <<state, reported, asked, again, drained, clientVars>>

\* A configuration or a system that does not come up, or a socket path that is taken:
\* the path is removed all the same.
InitFails(d) ==
    /\ pc[d] = "initializing"
    /\ pc' = [pc EXCEPT ![d] = "failed"]
    /\ sock' = None
    /\ UNCHANGED <<state, reported, asked, again, drained, clientVars>>

\* The system is initialized and the server listens.
Listen(d) ==
    /\ pc[d] = "initializing" /\ sock = None
    /\ pc' = [pc EXCEPT ![d] = "bound"]
    /\ sock' = d
    /\ UNCHANGED <<state, reported, asked, again, drained, clientVars>>

\* After the first snapshot: "ready", and the signal handlers in the same block.
Report(d) ==
    /\ pc[d] = "bound"
    /\ pc' = [pc EXCEPT ![d] = "serving"]
    /\ reported' = reported \cup {d}
    /\ UNCHANGED <<state, sock, asked, again, drained, clientVars>>

\* 25 ms after it has answered a shutdown request.
SocketShutdown(d) ==
    /\ d \in asked /\ Alive(d)
    /\ asked' = asked \ {d}
    /\ Shutdown(d)
    /\ UNCHANGED <<state, reported, drained, clientVars>>

\* The server has closed, the last snapshot is written, system.shutdown begins.
Closed(d) ==
    /\ pc[d] = "closing"
    /\ pc' = [pc EXCEPT ![d] = "draining"]
    /\ UNCHANGED <<state, sock, reported, asked, again, drained, clientVars>>

Exits(d) ==
    /\ pc' = [pc EXCEPT ![d] = "exited"]
    /\ sock' = None
    /\ UNCHANGED <<state, reported, asked, again, clientVars>>

Drained(d) ==
    /\ pc[d] = "draining"
    /\ drained' = drained \cup {d}
    /\ Exits(d)

\* The second call finds the system shutting down, returns, and exits the process.
ExitsEarly(d) ==
    /\ pc[d] = "draining" /\ d \in again
    /\ UNCHANGED drained
    /\ Exits(d)

\* A signal from outside, or an uncaught exception, after which the "exit" listener of
\* a daemon that has reported removes the socket path.
Crash(d) ==
    /\ Alive(d)
    /\ pc' = [pc EXCEPT ![d] = "killed"]
    /\ sock' \in IF d \in reported THEN {sock, None} ELSE {sock}
    /\ UNCHANGED <<state, reported, asked, again, drained, clientVars>>

ClientStep(c) ==
    \/ ReadState(c) \/ FindsRunning(c) \/ FindsNothing(c) \/ HearsReady(c)
    \/ HearsFailure(c) \/ StartTimesOut(c) \/ Ask(c) \/ Terminate(c)
    \/ TerminateMisses(c) \/ SeesStopped(c) \/ ForceStop(c)
    \/ ForkFails(c) \/ \E d \in Daemons : Fork(c, d)

DaemonStep(d) ==
    \/ Boot(d) \/ InitFails(d) \/ Listen(d) \/ Report(d) \/ SocketShutdown(d)
    \/ Closed(d) \/ Drained(d) \/ ExitsEarly(d) \/ Crash(d)

Next ==
    \/ \E c \in Clients : \/ \E k \in {"status", "start", "stop", "restart"} : Command(c, k)
                          \/ ClientStep(c)
    \/ \E d \in Daemons : DaemonStep(d)

\* A command goes on (its timers see to it), and a daemon told to shut down goes on with
\* that; nothing says that a daemon ever gets ready.
Fairness == /\ \A c \in Clients : WF_vars(ClientStep(c))
            /\ \A d \in Daemons : WF_vars(Closed(d)) /\ WF_vars(Drained(d))

Spec == Init /\ [][Next]_vars /\ Fairness

-----------------------------------------------------------------------------
(* Properties.                                                              *)

TypeOK ==
    /\ state \in Daemons \cup {None}
    /\ sock \in Daemons \cup {None}
    /\ pc \in [Daemons -> DaemonPC]
    /\ reported \subseteq Daemons
    /\ asked \subseteq Daemons
    /\ again \subseteq Daemons
    /\ drained \subseteq Daemons
    /\ cmd \in [Clients -> {"none", "status", "start", "stop", "restart"}]
    /\ at \in [Clients -> {"begin", "read", "waiting", "asked", "polling"}]
    /\ saw \in [Clients -> Daemons \cup {None}]
    /\ result \in [Clients -> {"none", "running", "failed", "not_running", "stopped", "timeout"}]

\* The state file names only daemons that have reported ready.
StateNamesReported == state \in reported \cup {None}

\* A stop that found a process has left none when it returns: the one it found in the state
\* file is dead, whichever of the request, SIGTERM and SIGKILL did it ("timeout").
StoppedIsDead ==
    \A c \in Clients : result[c] \in {"stopped", "timeout"} => saw[c] \in Daemons /\ ~Alive(saw[c])

\* Every command ends: a start by its 15 seconds, a stop by SIGKILL, even when the
\* daemon never gets ready or never finishes its shutdown.
CommandsEnd == \A c \in Clients : []<>(cmd[c] = "none")

\* With commands given one at a time there is one orchestrator at most ...
Orchestrators == {d \in Daemons : pc[d] \in {"initializing", "bound", "serving"}}
OneOrchestrator == Cardinality(Orchestrators) <= 1

\* ... a daemon that serves is the one that daemon.json names, or its start is still
\* waiting for its "ready", whatever crashed, failed or timed out before ...
Waited(d) == \E c \in Clients : at[c] = "waiting" /\ saw[c] = d
ServingIsKnown == \A d \in Daemons : pc[d] = "serving" /\ ~Waited(d) => state = d

\* ... and a daemon that nobody waits for and no file names comes to its end (once in that
\* state nobody ever gets to know it, and there are finitely many).
UnknownEnds == <>[](\A d \in Daemons : Alive(d) => state = d \/ Waited(d))

\* Commands and daemons come to an end.
AllEnds == CommandsEnd /\ UnknownEnds

\* docs/reports/runtime-architecture-delta-2026-02-13.md: the daemon publishes its API on
\* the socket.  The daemon that daemon.json names is to be reached there.
KnownIsReachable == \A d \in Daemons : pc[d] = "serving" /\ state = d => sock = d

\* daemon-runner.ts logs "Background system shutdown complete" before it exits: an exit
\* by way of shutdown comes after the end of system.shutdown.
ExitIsDrained == \A d \in Daemons : pc[d] = "exited" => d \in drained
=============================================================================
