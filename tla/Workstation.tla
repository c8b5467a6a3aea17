----------------------------- MODULE Workstation -----------------------------
(*****************************************************************************)
(* The commands that start and stop what runs beside the shell: the daemon   *)
(* (`background`) and the services a launch needs.  To a launch a daemon     *)
(* runs or does not, so that the two are looked at side by side: a behaviour *)
(* is about one of them, while the other rests.                              *)
(*****************************************************************************)
EXTENDS DaemonLifecycle, Launch

VARIABLE task    \* "background" or "launch"

workVars == <<task, vars, launchVars>>

WorkInit ==
    /\ task \in {"background", "launch"} /\ Init
    /\ IF task = "launch" THEN LaunchInit ELSE LaunchStart(CHOOSE jobs \in [Users -> Jobs] : TRUE, FALSE, {})

Background(step) == task = "background" /\ step /\ UNCHANGED <<task, launchVars>>
Launching(step) == task = "launch" /\ step /\ UNCHANGED <<task, vars>>

WorkNext == Background(Next) \/ Launching(LaunchNext)

\* A command of `background` goes on (its timers see to it), and a daemon told to shut down goes on
\* with that; every command of a launch comes back, or its time-out does.
WorkSpec ==
    /\ WorkInit /\ [][WorkNext]_workVars
    /\ \A c \in Clients : WF_workVars(Background(ClientStep(c)))
    /\ \A d \in Daemons : WF_workVars(Background(Closed(d) \/ Drained(d)))
    /\ \A u \in Users : /\ WF_workVars(Launching(CommandReturns(u) \/ ComposeTimesOut(u)))
                        /\ WF_workVars(Launching(TimeRunsOut(u)))
==============================================================================
