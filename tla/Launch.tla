------------------------------- MODULE Launch -------------------------------
(***************************************************************************)
(* `codex-synaptic launch` (src/cli/launch.ts), the doctor it ends with    *)
(* (src/cli/doctor.ts) and the `env` commands, over the world outside the  *)
(* process: docker (ServiceManager, src/env/service-manager.ts), the MCP   *)
(* registrations of the Codex CLI and the background daemon.  Several      *)
(* commands run at the same time, each a process of its own.               *)
(***************************************************************************)
EXTENDS Naturals, FiniteSets, Sequences

CONSTANTS
    Users,      \* shells that run a command
    Profiles,   \* service profiles; each has a port and a name for Codex
    Jobs,       \* the commands a shell may run
    MaxFaults   \* things outside that go wrong

JobType == [kind : {"launch", "up", "down", "register"}, profiles : Seq(Profiles),
            strict : BOOLEAN, skipAuth : BOOLEAN, wait : BOOLEAN, replace : BOOLEAN]
ASSUME LaunchAssumption ==
    /\ Jobs # {}
    /\ \A j \in Jobs : j \in JobType /\ j.profiles # <<>>
    /\ MaxFaults \in Nat

VARIABLES
    container,   \* what docker runs: "down", "sick" (no good answer to a probe) or "well"
    pulling,     \* profiles a killed `compose up` left docker busy with
    registry,    \* `codex mcp list`
    daemon,      \* the background daemon runs
    tools,       \* what the checks of the build and of the login find
    job, place,  \* the command of a shell and where it has got to
    index,       \* the profile it is at
    late,        \* its health check has used up its time
    failed,      \* gates of a launch that failed
    doctored,    \* the doctor's report: "none", "ok" or "bad"
    names,       \* codexMcpNames as the doctor read them
    lost,        \* what has gone wrong since a launch looked at it for the last time
    registered,  \* profiles a command told its user are registered
    torn,        \* profiles whose registration was removed and could not be added again
    faults

world == <<container, pulling, registry, daemon, tools>>
shell == <<job, place, index, late, failed, doctored, names>>
ghosts == <<lost, registered, torn>>
launchVars == <<world, shell, ghosts, faults>>

Gates == {"repo.preflight", "codex.auth", "runtime.daemon", "mcp.up", "mcp.codex_register",
          "doctor.strict"}
Places == {"idle", "preflight", "auth", "daemon", "compose", "probe", "sleep", "remove", "add",
           "doctor", "list", "status", "down", "over"}
Daemon == <<"daemon", 0>>
Facts == {Daemon} \cup ({"service", "registration"} \X Profiles)

LaunchTypeOK ==
    /\ container \in [Profiles -> {"down", "sick", "well"}]
    /\ pulling \subseteq Profiles /\ registry \subseteq Profiles
    /\ daemon \in BOOLEAN
    /\ tools \subseteq {"build", "login"}
    /\ job \in [Users -> Jobs]
    /\ place \in [Users -> Places]
    /\ index \in [Users -> Nat \ {0}]
    /\ late \in [Users -> BOOLEAN]
    /\ failed \in [Users -> SUBSET Gates]
    /\ doctored \in [Users -> {"none", "ok", "bad"}]
    /\ names \in [Users -> SUBSET Profiles]
    /\ lost \in [Users -> SUBSET Facts]
    /\ registered \subseteq Profiles /\ torn \subseteq Profiles
    /\ faults \in 0..MaxFaults

LaunchStart(jobs, up, checks) ==
    /\ container = [p \in Profiles |-> "down"]
    /\ pulling = {} /\ registry = {}
    /\ daemon = up
    /\ tools = checks
    /\ job = jobs
    /\ place = [u \in Users |-> "idle"]
    /\ index = [u \in Users |-> 1]
    /\ late = [u \in Users |-> FALSE]
    /\ failed = [u \in Users |-> {}]
    /\ doctored = [u \in Users |-> "none"]
    /\ names = [u \in Users |-> {}]
    /\ lost = [u \in Users |-> {}]
    /\ registered = {} /\ torn = {}
    /\ faults = 0
LaunchInit ==
    \E jobs \in [Users -> Jobs], up \in BOOLEAN, checks \in {{"build", "login"}, {"build"}, {"login"}} :
        LaunchStart(jobs, up, checks)

Launches(u) == job[u].kind = "launch"
Profile(u) == job[u].profiles[index[u]]
IsLast(u) == index[u] = Len(job[u].profiles)
Holds(f) == IF f = Daemon THEN daemon
            ELSE IF f[1] = "service" THEN container[f[2]] = "well" ELSE f[2] \in registry

\* A launch looks at the daemon when it passes its gate, at the registrations when the
\* doctor lists them and at a service when the doctor asks for its status.
HasLookedAt(u, f) ==
    IF f = Daemon THEN place[u] \notin {"idle", "preflight", "auth", "daemon"}
    ELSE IF f[1] = "registration" THEN place[u] \in {"status", "over"}
    ELSE \/ place[u] = "over"
         \/ place[u] = "status" /\ \E i \in 1..(index[u] - 1) : job[u].profiles[i] = f[2]
Loses(facts) ==
    lost' = [u \in Users |-> lost[u] \cup {f \in facts : Launches(u) /\ HasLookedAt(u, f)}]

-----------------------------------------------------------------------------
(* Mutated forms.                                                           *)
CheckPasses_RunningOnly(u) == container[Profile(u)] = "well"
AfterRemove_Shortcut(u) == IF Profile(u) \in registry THEN "over" ELSE "add"
LateCheckEnds_Never(u) == FALSE

-----------------------------------------------------------------------------
(* Where a command goes.                                                    *)
Goes(u, next, i) == place' = [place EXCEPT ![u] = next] /\ index' = [index EXCEPT ![u] = i]

\* appendStep: a strict launch returns at the first gate that fails.
Gate(u, gate, ok, next) ==
    /\ failed' = [failed EXCEPT ![u] = IF ok THEN @ ELSE @ \cup {gate}]
    /\ Goes(u, IF ok \/ ~job[u].strict THEN next ELSE "over", 1)

\* What follows a profile that was started, or could not be.
Started(u) ==
    IF ~IsLast(u) THEN Goes(u, "compose", index[u] + 1) /\ UNCHANGED failed
    ELSE IF Launches(u) THEN Gate(u, "mcp.up", TRUE, "remove")
    ELSE Goes(u, "over", 1) /\ UNCHANGED failed
NotStarted(u) ==
    IF Launches(u) THEN Gate(u, "mcp.up", FALSE, "remove")
    ELSE Goes(u, "over", 1) /\ UNCHANGED failed

FirstOfRegistration(u) == IF Launches(u) \/ job[u].replace THEN "remove" ELSE "add"

\* buildLaunchReport.
IsOk(u) == failed[u] = {} /\ doctored[u] = "ok"
ReportsReady(u) == Launches(u) /\ place[u] = "over" /\ IsOk(u)

-----------------------------------------------------------------------------
Begin(u) ==
    /\ place[u] = "idle"
    /\ Goes(u, CASE job[u].kind = "launch" -> "preflight"
                 [] job[u].kind = "up" -> "compose"
                 [] job[u].kind = "down" -> "down"
                 [] job[u].kind = "register" -> FirstOfRegistration(u), 1)
    /\ UNCHANGED <<world, job, late, failed, doctored, names, ghosts, faults>>

\* dist/cli/index.js exists and prints its help.
Preflight(u) ==
    /\ place[u] = "preflight"
    /\ Gate(u, "repo.preflight", "build" \in tools, "auth")
    /\ UNCHANGED <<world, job, late, doctored, names, ghosts, faults>>

CodexAuth(u) ==
    /\ place[u] = "auth"
    /\ Gate(u, "codex.auth", job[u].skipAuth \/ "login" \in tools, "daemon")
    /\ UNCHANGED <<world, job, late, doctored, names, ghosts, faults>>

\* A daemon that runs already is fine; startBackgroundSystem may fail.
StartDaemon(u) ==
    /\ place[u] = "daemon"
    /\ \/ /\ daemon' = TRUE
          /\ Gate(u, "runtime.daemon", TRUE, "compose")
          /\ UNCHANGED faults
       \/ /\ ~daemon /\ faults < MaxFaults
          /\ faults' = faults + 1
          /\ Gate(u, "runtime.daemon", FALSE, "compose")
          /\ UNCHANGED daemon
    /\ UNCHANGED <<container, pulling, registry, tools, job, late, doctored, names, ghosts>>

\* runComposeUp: `docker compose up -d` exits, with success when the containers are started ...
ComposeCloses(u) ==
    /\ place[u] = "compose"
    /\ \/ /\ container' = [container EXCEPT ![Profile(u)] = IF @ = "down" THEN "sick" ELSE @]
          /\ pulling' = pulling \ {Profile(u)}
          /\ IF Launches(u) \/ job[u].wait
             THEN Goes(u, "probe", index[u]) /\ UNCHANGED failed ELSE Started(u)
          /\ UNCHANGED faults
       \/ /\ faults < MaxFaults
          /\ faults' = faults + 1
          /\ NotStarted(u)
          /\ UNCHANGED <<container, pulling>>
    /\ late' = [late EXCEPT ![u] = FALSE]
    /\ UNCHANGED <<registry, daemon, tools, job, doctored, names, ghosts>>

\* ... or is killed after COMPOSE_UP_TIMEOUT_MS, which does not stop the docker daemon.
ComposeTimesOut(u) ==
    /\ place[u] = "compose"
    /\ pulling' = pulling \cup {p \in {Profile(u)} : container[p] = "down"}
    /\ NotStarted(u)
    /\ UNCHANGED <<container, registry, daemon, tools, job, late, doctored, names, ghosts, faults>>

\* waitForServiceHealth.
Probe(u) ==
    /\ place[u] = "probe"
    /\ IF container[Profile(u)] = "well" THEN Started(u)
       ELSE Goes(u, "sleep", index[u]) /\ UNCHANGED failed
    /\ UNCHANGED <<world, job, late, doctored, names, ghosts, faults>>

TimeRunsOut(u) ==
    /\ place[u] \in {"probe", "sleep"} /\ ~late[u]
    /\ late' = [late EXCEPT ![u] = TRUE]
    /\ UNCHANGED <<world, job, place, index, failed, doctored, names, ghosts, faults>>

LateCheckEnds(u) == late[u]
Wakes(u) ==
    /\ place[u] = "sleep"
    /\ IF LateCheckEnds(u) THEN NotStarted(u) ELSE Goes(u, "probe", index[u]) /\ UNCHANGED failed
    /\ UNCHANGED <<world, job, late, doctored, names, ghosts, faults>>

\* stopService.
StopService(u) ==
    /\ place[u] = "down"
    /\ container' = [container EXCEPT ![Profile(u)] = "down"]
    /\ pulling' = pulling \ {Profile(u)}
    /\ IF IsLast(u) THEN Goes(u, "over", 1) ELSE Goes(u, "down", index[u] + 1)
    /\ Loses({<<"service", Profile(u)>>})
    /\ UNCHANGED <<registry, daemon, tools, job, late, failed, doctored, names, registered, torn,
                   faults>>

-----------------------------------------------------------------------------
\* `codex mcp remove`; that there was nothing to remove is not an error.
AfterRemove(u) == "add"
RemoveRegistration(u) ==
    /\ place[u] = "remove"
    /\ registry' = registry \ {Profile(u)}
    /\ Goes(u, AfterRemove(u), index[u])
    /\ Loses({<<"registration", Profile(u)>>})
    /\ UNCHANGED <<container, pulling, daemon, tools, job, late, failed, doctored, names,
                   registered, torn, faults>>

\* `codex mcp add`; an entry that "already exists" is as good as one that was added.
AddRegistration(u) ==
    /\ place[u] = "add"
    /\ registry' = registry \cup {Profile(u)}
    /\ registered' = registered \cup {Profile(u)}
    /\ torn' = torn \ {Profile(u)}
    /\ IF ~IsLast(u) THEN Goes(u, FirstOfRegistration(u), index[u] + 1) /\ UNCHANGED failed
       ELSE IF Launches(u) THEN Gate(u, "mcp.codex_register", TRUE, "doctor")
       ELSE Goes(u, "over", 1) /\ UNCHANGED failed
    /\ UNCHANGED <<container, pulling, daemon, tools, job, late, doctored, names, lost, faults>>

AddFails(u) ==
    /\ place[u] = "add" /\ faults < MaxFaults
    /\ faults' = faults + 1
    /\ torn' = torn \cup ({Profile(u)} \ registry)
    /\ IF Launches(u) THEN Gate(u, "mcp.codex_register", FALSE, "doctor")
       ELSE Goes(u, "over", 1) /\ UNCHANGED failed
    /\ UNCHANGED <<world, job, late, doctored, names, lost, registered>>

-----------------------------------------------------------------------------
(* runDoctor checks the build and the login once more, lists the            *)
(* registrations and asks for the status of each service.                   *)
DoctorTools(u) ==
    /\ place[u] = "doctor"
    /\ doctored' = [doctored EXCEPT ![u] =
                       IF "build" \in tools /\ (job[u].skipAuth \/ "login" \in tools)
                       THEN "ok" ELSE "bad"]
    /\ Goes(u, "list", 1)
    /\ UNCHANGED <<world, job, late, failed, names, ghosts, faults>>

\* Without a list no profile counts as registered.
DoctorLists(u) ==
    /\ place[u] = "list"
    /\ \/ names' = [names EXCEPT ![u] = registry] /\ UNCHANGED <<doctored, faults>>
       \/ /\ faults < MaxFaults
          /\ faults' = faults + 1
          /\ names' = [names EXCEPT ![u] = {}]
          /\ doctored' = [doctored EXCEPT ![u] = "bad"]
    /\ Goes(u, "status", 1)
    /\ UNCHANGED <<world, job, late, failed, ghosts>>

CheckPasses(u) == container[Profile(u)] = "well" /\ Profile(u) \in names[u]
DoctorChecks(u) ==
    /\ place[u] = "status"
    /\ \E ok \in {CheckPasses(u)} :
          /\ doctored' = [doctored EXCEPT ![u] = IF ok THEN @ ELSE "bad"]
          /\ IF IsLast(u) THEN Gate(u, "doctor.strict", doctored'[u] = "ok", "over")
             ELSE Goes(u, "status", index[u] + 1) /\ UNCHANGED failed
    /\ UNCHANGED <<world, job, late, names, ghosts, faults>>

-----------------------------------------------------------------------------
(* The world.                                                               *)
ServiceRecovers(p) ==
    /\ container[p] = "sick"
    /\ container' = [container EXCEPT ![p] = "well"]
    /\ UNCHANGED <<pulling, registry, daemon, tools, shell, ghosts, faults>>

PullEnds(p) ==
    /\ p \in pulling
    /\ pulling' = pulling \ {p}
    /\ container' = [container EXCEPT ![p] = IF @ = "down" THEN "sick" ELSE @]
    /\ UNCHANGED <<registry, daemon, tools, shell, ghosts, faults>>

ServiceFails(p) ==
    /\ container[p] = "well" /\ faults < MaxFaults
    /\ faults' = faults + 1
    /\ container' \in {[container EXCEPT ![p] = s] : s \in {"sick", "down"}}
    /\ Loses({<<"service", p>>})
    /\ UNCHANGED <<pulling, registry, daemon, tools, shell, registered, torn>>

DaemonDies ==
    /\ daemon /\ faults < MaxFaults
    /\ faults' = faults + 1
    /\ daemon' = FALSE
    /\ Loses({Daemon})
    /\ UNCHANGED <<container, pulling, registry, tools, shell, registered, torn>>

\* Every command a shell waits for comes back; `compose up` and the probes need not, there is
\* a timeout for them.
CommandReturns(u) ==
    \/ Preflight(u) \/ CodexAuth(u) \/ StartDaemon(u) \/ Probe(u) \/ Wakes(u) \/ StopService(u)
    \/ RemoveRegistration(u) \/ AddRegistration(u) \/ AddFails(u)
    \/ DoctorTools(u) \/ DoctorLists(u) \/ DoctorChecks(u)

LaunchNext ==
    \/ \E u \in Users : Begin(u) \/ CommandReturns(u) \/ ComposeCloses(u) \/ ComposeTimesOut(u)
                        \/ TimeRunsOut(u)
    \/ \E p \in Profiles : ServiceRecovers(p) \/ PullEnds(p) \/ ServiceFails(p)
    \/ DaemonDies

-----------------------------------------------------------------------------
\* "Safe to begin repository work": when a launch reports that it is ready, its daemon runs,
\* every service of its profiles is healthy and registered, whatever the other commands and
\* the world did meanwhile, except for what was lost after its last look at it.
ReadyIsReady ==
    \A u \in Users : ReportsReady(u) =>
        \A f \in {Daemon} \cup {<<k, job[u].profiles[i]>> :
                                  k \in {"service", "registration"}, i \in DOMAIN job[u].profiles} :
            Holds(f) \/ f \in lost[u]

\* The state is well formed and reports of readiness are true.
ReportsAreSound == LaunchTypeOK /\ ReadyIsReady

\* A registration a command reported stays, however commands that replace it interleave:
\* unless one is between its remove and its add, or its add failed.
Replacing(p) == \E u \in Users : place[u] = "add" /\ Profile(u) = p
RegistrationStays == \A p \in registered : p \in registry \/ p \in torn \/ Replacing(p)

\* Every command ends, though docker may hang and a service never become healthy (none is run twice).
EveryCommandEnds == <>[](\A u \in Users : place[u] \in {"idle", "over"})
=============================================================================
