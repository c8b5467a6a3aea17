---------------------------- MODULE HostProcess ----------------------------
(***************************************************************************)
(* A process that hosts the system: Platform, with its session, life cycle  *)
(* and crew, and the tenants its servers and commands serve, FrontDoor.      *)
(* No step of one reads what the other writes, so that each behaviour is      *)
(* about one of them while the other rests.                                    *)
(***************************************************************************)
EXTENDS Platform, FrontDoor

VARIABLE concern    \* "process" or "tenants"

hostVars == <<concern, platformVars, doorVars>>

HostInit ==
    \/ /\ concern = "process"
       /\ \E c \in Scenarios : PlatformStart(c)
       /\ DoorStart(FALSE, {})
    \/ /\ concern = "tenants"
       /\ PlatformStart(CHOOSE c \in Scenarios : TRUE)
       /\ \E on \in BOOLEAN, users \in SUBSET Tokens : DoorStart(on, users)

On(c) ==
    /\ concern = c /\ UNCHANGED concern
    /\ IF c = "process" THEN UNCHANGED doorVars ELSE UNCHANGED platformVars

HostNext ==
    \/ On("process") /\ PlatformNext
    \/ On("tenants") /\ DoorNext

\* Reads, probes, the socket, the log and the handlers of requests come back, a waiting caller is
\* resumed, the database answers every statement and node:http ends every body. Nobody has to call.
HostSpec ==
    /\ HostInit /\ [][HostNext]_hostVars
    /\ \A s \in Systems : /\ WF_hostVars(On("process") /\ BootGoesOn(s))
                          /\ WF_hostVars(On("process") /\ HaltGoesOn(s))
    /\ \A c \in Callers : WF_hostVars(On("process") /\ CallerGoesOn(c))
    /\ WF_hostVars(On("process") /\ SessionSettles)
    /\ \A r \in Slots : WF_hostVars(On("tenants") /\ Proceed(r))
    /\ \A s \in Servers : WF_hostVars(On("tenants") /\ ServerStarts(s))

\* The rows, requests and limits are well formed, and no acknowledged tenant is lost.
TenantsAreKept == DoorTypeOK /\ AcknowledgedStays

\* Every caller of ensureSystem gets its system or an error, every shutdown of the session ends, and
\* every request and command about tenants is answered, unless the process exits or dies.
HostCallsEnd == SessionCallsEnd /\ EveryRequestAnswered
=============================================================================
