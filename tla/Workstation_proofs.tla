------------------------- MODULE Workstation_proofs -------------------------
(****************************************************************************)
(* What daemon.json and a finished stop can be trusted for, with any number *)
(* of commands; that a single terminal never has two orchestrators; and     *)
(* that a launch which reports ready is, with any number of other commands  *)
(* on the same services and registrations.                                  *)
(****************************************************************************)
EXTENDS Workstation, FiniteSetTheorems, TLAPS

-----------------------------------------------------------------------------
(* Any number of terminals.                                                 *)

\* A daemon that has reported, or that a command has read or forked, is a process that
\* was started: a dead one can then never come to life.
StartedOnly ==
    /\ \A d \in reported : pc[d] # "none"
    /\ \A c \in Clients : saw[c] # None => pc[saw[c]] # "none"

\* A command past its look at the state file has a process in hand, and has not returned.
InHand ==
    \A c \in Clients :
        /\ at[c] \in {"waiting", "asked", "polling"} => saw[c] # None
        /\ at[c] = "read" => result[c] = "none"

IInv == TypeOK /\ StateNamesReported /\ StoppedIsDead /\ StartedOnly /\ InHand

\* No command does anything.
Unmoved == UNCHANGED <<cmd, at, saw, result>>

\* A step of daemons alone: no process that was dead or alive becomes "none", none that was
\* dead lives again, and the state file stays.
DaemonsGoOn ==
    /\ pc' \in [Daemons -> DaemonPC]
    /\ \A d \in Daemons : /\ pc'[d] = "none" => pc[d] = "none"
                          /\ pc[d] \in Gone => pc'[d] \in Gone
                          /\ pc[d] = "none" => pc'[d] \in {"none", "forked"}

\* A shutdown call moves a living daemon on, or leaves its pc.
LEMMA ShutdownGoesOn ==
    ASSUME TypeOK, NEW d \in Daemons, Alive(d), Shutdown(d)
    PROVE  DaemonsGoOn /\ sock' \in Daemons \cup {None} /\ again' \subseteq Daemons
  BY DEF TypeOK, Alive, Shutdown, DaemonsGoOn, Gone, DaemonPC

\* So does SIGTERM.
LEMMA TerminatedGoesOn ==
    ASSUME TypeOK, NEW d \in Daemons, Alive(d), Terminated(d)
    PROVE  DaemonsGoOn /\ sock' \in Daemons \cup {None} /\ again' \subseteq Daemons
  BY ShutdownGoesOn DEF TypeOK, Alive, Terminated, DaemonsGoOn, Gone, DaemonPC

\* The strengthened invariant holds initially.
LEMMA InitIInv == Init => IInv
  BY DEF Init, IInv, TypeOK, StateNamesReported, StoppedIsDead, StartedOnly, InHand, DaemonPC,
         Gone

\* A step that lets daemons go on, keeps what the commands have in hand, and writes no
\* unreported daemon into the state file keeps the invariant.
LEMMA QuietStep ==
    ASSUME IInv, DaemonsGoOn, Unmoved,
           state' \in reported' \cup {None},
           sock' \in Daemons \cup {None},
           reported \subseteq reported', reported' \subseteq Daemons,
           \A d \in reported' : pc'[d] # "none",
           asked' \subseteq Daemons, again' \subseteq Daemons, drained' \subseteq Daemons
    PROVE  IInv'
  <1>1. TypeOK'
    BY DEF IInv, TypeOK, Unmoved, DaemonsGoOn
  <1>2. StateNamesReported' /\ InHand'
    BY DEF IInv, StateNamesReported, InHand, Unmoved
  <1>3. StartedOnly'
    BY NoneAssumption DEF IInv, TypeOK, StartedOnly, Unmoved, DaemonsGoOn
  <1>4. StoppedIsDead'
    BY NoneAssumption
    DEF IInv, TypeOK, StoppedIsDead, StartedOnly, Unmoved, DaemonsGoOn, Alive
  <1> QED
    BY <1>1, <1>2, <1>3, <1>4 DEF IInv

\* The daemons' own steps.
LEMMA DaemonKeepsIInv ==
    ASSUME IInv, NEW d \in Daemons, DaemonStep(d)
    PROVE  IInv'
  <1> USE DEF daemonVars, clientVars, Unmoved
  <1>0. TypeOK /\ StateNamesReported /\ \A e \in reported : pc[e] # "none"
    BY DEF IInv, StartedOnly
  <1>1. CASE Boot(d)
    BY <1>0, <1>1, QuietStep
    DEF Boot, TypeOK, StateNamesReported, DaemonsGoOn, DaemonPC, Gone
  <1>2. CASE InitFails(d)
    BY <1>0, <1>2, QuietStep
    DEF InitFails, TypeOK, StateNamesReported, DaemonsGoOn, DaemonPC, Gone
  <1>3. CASE Listen(d)
    BY <1>0, <1>3, QuietStep
    DEF Listen, TypeOK, StateNamesReported, DaemonsGoOn, DaemonPC, Gone
  <1>4. CASE Report(d)
    BY <1>0, <1>4, QuietStep
    DEF Report, TypeOK, StateNamesReported, DaemonsGoOn, DaemonPC, Gone
  <1>5. CASE SocketShutdown(d)
    <2>1. DaemonsGoOn /\ sock' \in Daemons \cup {None} /\ again' \subseteq Daemons
      BY <1>0, <1>5, ShutdownGoesOn DEF SocketShutdown
    <2> QED
      BY <1>0, <1>5, <2>1, QuietStep
      DEF SocketShutdown, TypeOK, StateNamesReported, DaemonsGoOn
  <1>6. CASE Closed(d)
    BY <1>0, <1>6, QuietStep
    DEF Closed, TypeOK, StateNamesReported, DaemonsGoOn, DaemonPC, Gone
  <1>7. CASE Drained(d)
    BY <1>0, <1>7, QuietStep
    DEF Drained, Exits, TypeOK, StateNamesReported, DaemonsGoOn, DaemonPC, Gone
  <1>8. CASE ExitsEarly(d)
    BY <1>0, <1>8, QuietStep
    DEF ExitsEarly, Exits, TypeOK, StateNamesReported, DaemonsGoOn, DaemonPC, Gone
  <1>9. CASE Crash(d)
    BY <1>0, <1>9, QuietStep
    DEF Crash, Alive, TypeOK, StateNamesReported, DaemonsGoOn, DaemonPC, Gone
  <1> QED
    BY <1>1, <1>2, <1>3, <1>4, <1>5, <1>6, <1>7, <1>8, <1>9 DEF DaemonStep

\* A command that returns keeps what it has in hand: "stopped" or "timeout" only with a dead process.
LEMMA ReturnKeepsIInv ==
    ASSUME IInv, DaemonsGoOn, NEW c \in Clients, 
           NEW r \in {"running", "failed", "not_running", "stopped", "timeout"}, Returns(c, r),
           r \in {"stopped", "timeout"} => saw[c] # None /\ pc'[saw[c]] \in Gone,
           state' \in reported \cup {None}, sock' \in Daemons \cup {None},
           again' \subseteq Daemons, UNCHANGED <<reported, asked, drained>>
    PROVE  IInv'
  <1>1. TypeOK'
    BY DEF IInv, TypeOK, DaemonsGoOn, Returns
  <1>2. StateNamesReported' /\ InHand'
    BY DEF IInv, TypeOK, StateNamesReported, InHand, Returns
  <1>3. StartedOnly'
    BY NoneAssumption DEF IInv, TypeOK, StartedOnly, Returns, DaemonsGoOn
  <1>4. StoppedIsDead'
    BY NoneAssumption
    DEF IInv, TypeOK, StoppedIsDead, StartedOnly, Returns, DaemonsGoOn, Alive
  <1> QED
    BY <1>1, <1>2, <1>3, <1>4 DEF IInv

\* The steps of a command.
LEMMA ClientKeepsIInv ==
    ASSUME IInv, NEW c \in Clients, ClientStep(c)
    PROVE  IInv'
  <1> USE DEF daemonVars
  <1>0. /\ TypeOK /\ StateNamesReported /\ StartedOnly /\ InHand /\ StoppedIsDead
        /\ saw[c] \in Daemons \cup {None}
    BY DEF IInv, TypeOK
  <1>1. UNCHANGED pc => DaemonsGoOn
    BY <1>0 DEF TypeOK, DaemonsGoOn, Gone
  <1>2. CASE ReadState(c)
    <2>1. TypeOK'
      BY <1>0, <1>2 DEF ReadState, TypeOK
    <2>2. StateNamesReported' /\ InHand'
      BY <1>0, <1>2 DEF ReadState, TypeOK, StateNamesReported, InHand
    <2>3. StartedOnly' /\ StoppedIsDead'
      BY <1>0, <1>2
      DEF ReadState, TypeOK, StateNamesReported, StartedOnly, StoppedIsDead, Alive
    <2> QED
      BY <2>1, <2>2, <2>3 DEF IInv
  <1>3. CASE FindsRunning(c)
    BY <1>0, <1>1, <1>3, ReturnKeepsIInv DEF FindsRunning, TypeOK, StateNamesReported
  <1>4. CASE FindsNothing(c)
    BY <1>0, <1>1, <1>4, ReturnKeepsIInv
    DEF FindsNothing, StaleRemoved, TypeOK, StateNamesReported
  <1>5. CASE ForkFails(c)
    BY <1>0, <1>1, <1>5, ReturnKeepsIInv
    DEF ForkFails, StaleRemoved, TypeOK, StateNamesReported
  <1>6. CASE HearsReady(c)
    BY <1>0, <1>1, <1>6, ReturnKeepsIInv DEF HearsReady, TypeOK
  <1>7. CASE HearsFailure(c)
    BY <1>0, <1>1, <1>7, ReturnKeepsIInv DEF HearsFailure, TypeOK, StateNamesReported
  <1>8. CASE StartTimesOut(c)
    <2>1. DaemonsGoOn /\ sock' \in Daemons \cup {None} /\ again' \subseteq Daemons
      BY <1>0, <1>1, <1>8, TerminatedGoesOn DEF StartTimesOut, Found, TypeOK
    <2> QED
      BY <1>0, <1>8, <2>1, ReturnKeepsIInv DEF StartTimesOut, StateNamesReported
  <1>9. CASE Ask(c)
    <2>1. Found(c) /\ saw[c] # None
      BY <1>9 DEF Ask, Found
    <2>2. TypeOK'
      BY <1>0, <1>9 DEF Ask, Proceeds, TypeOK
    <2>3. StateNamesReported' /\ InHand'
      BY <1>0, <1>9, <2>1 DEF Ask, Proceeds, TypeOK, StateNamesReported, InHand
    <2>4. StartedOnly' /\ StoppedIsDead'
      BY <1>0, <1>9 DEF Ask, Proceeds, StartedOnly, StoppedIsDead, Alive
    <2> QED
      BY <2>2, <2>3, <2>4 DEF IInv
  <1>10. CASE Terminate(c)
    <2>1. DaemonsGoOn /\ sock' \in Daemons \cup {None} /\ again' \subseteq Daemons
      BY <1>0, <1>10, TerminatedGoesOn DEF Terminate, Found
    <2>2. TypeOK'
      BY <1>0, <1>10, <2>1 DEF Terminate, Proceeds, TypeOK, DaemonsGoOn
    <2>3. StateNamesReported' /\ InHand'
      BY <1>0, <1>10 DEF Terminate, Proceeds, Found, TypeOK, StateNamesReported, InHand
    <2>4. StartedOnly' /\ StoppedIsDead'
      BY <1>0, <1>10, <2>1, NoneAssumption
      DEF Terminate, Proceeds, TypeOK, StartedOnly, StoppedIsDead, DaemonsGoOn, Alive
    <2> QED
      BY <2>2, <2>3, <2>4 DEF IInv
  <1>11. CASE TerminateMisses(c)
    BY <1>0, <1>1, <1>11, ReturnKeepsIInv DEF TerminateMisses, TypeOK
  <1>12. CASE SeesStopped(c)
    <2>1. saw[c] \in Daemons /\ pc[saw[c]] \in Gone
      BY <1>0, <1>12 DEF SeesStopped, Found, Alive, StartedOnly, InHand
    <2> QED
      BY NoneAssumption, <1>0, <1>1, <1>12, <2>1, ReturnKeepsIInv DEF SeesStopped, TypeOK
  <1>13. CASE ForceStop(c)
    <2>1. saw[c] \in Daemons /\ pc[saw[c]] # "none"
      BY <1>0, <1>13 DEF ForceStop, StartedOnly, InHand
    <2>2. pc'[saw[c]] \in Gone
      BY NoneAssumption, <1>0, <1>13, <2>1 DEF ForceStop, Found, Alive, TypeOK, Gone
    <2>3. DaemonsGoOn
      BY <1>0, <1>13, <2>1 DEF ForceStop, Found, TypeOK, DaemonsGoOn, DaemonPC, Gone
    <2> QED
      BY NoneAssumption, <1>0, <1>13, <2>1, <2>2, <2>3, ReturnKeepsIInv DEF ForceStop, TypeOK
  <1>14. CASE \E d \in Daemons : Fork(c, d)
    <2> PICK d \in Daemons : Fork(c, d)
      BY <1>14
    <2>1. TypeOK'
      BY <1>0 DEF Fork, StaleRemoved, TypeOK, DaemonPC
    <2>2. StateNamesReported'
      BY <1>0 DEF Fork, StaleRemoved, StateNamesReported
    <2>3. InHand'
      BY <1>0, NoneAssumption DEF Fork, InHand, TypeOK
    <2>4. StartedOnly'
      BY <1>0 DEF Fork, StartedOnly, TypeOK
    <2>5. result[c] = "none"
      BY <1>0 DEF Fork, InHand
    <2>6. StoppedIsDead'
      BY <1>0, <2>5, NoneAssumption DEF Fork, StoppedIsDead, StartedOnly, TypeOK, Alive
    <2> QED
      BY <2>1, <2>2, <2>3, <2>4, <2>6 DEF IInv
  <1> QED
    BY <1>2, <1>3, <1>4, <1>5, <1>6, <1>7, <1>8, <1>9, <1>10, <1>11, <1>12, <1>13, <1>14
    DEF ClientStep

\* Giving a command changes what the client is running and nothing else.
LEMMA CommandKeepsIInv ==
    ASSUME IInv, NEW c \in Clients, NEW k \in {"status", "start", "stop", "restart"},
           Command(c, k)
    PROVE  IInv'
  BY DEF IInv, TypeOK, StateNamesReported, StoppedIsDead, StartedOnly, InHand, Command,
         daemonVars, Alive

\* Every step of a command or a daemon keeps the strengthened invariant.
LEMMA NextKeepsIInv ==
    ASSUME IInv, [Next]_vars
    PROVE  IInv'
  <1>1. CASE UNCHANGED vars
    BY <1>1 DEF IInv, TypeOK, StateNamesReported, StoppedIsDead, StartedOnly, InHand, vars, Alive
  <1>2. CASE Next
    BY <1>2, DaemonKeepsIInv, ClientKeepsIInv, CommandKeepsIInv DEF Next
  <1> QED
    BY <1>1, <1>2

\* The strengthened invariant holds in every state of every behaviour.
THEOREM Invariance == Spec => []IInv
  <1>1. IInv /\ [Next]_vars => IInv'
    BY NextKeepsIInv
  <1> QED
    BY InitIInv, <1>1, PTL DEF Spec

\* Every variable has its type.
THEOREM TypeCorrect == Spec => []TypeOK
  <1>1. IInv => TypeOK
    BY DEF IInv
  <1> QED
    BY <1>1, Invariance, PTL

\* daemon.json never names a daemon that has not reported ready, however many commands run
\* at a time.
THEOREM StateFileSound == Spec => []StateNamesReported
  <1>1. IInv => StateNamesReported
    BY DEF IInv
  <1> QED
    BY <1>1, Invariance, PTL

\* A stop that returns "stopped" or "timeout" has left no process behind.
THEOREM StopIsFinal == Spec => []StoppedIsDead
  <1>1. IInv => StoppedIsDead
    BY DEF IInv
  <1> QED
    BY <1>1, Invariance, PTL

-----------------------------------------------------------------------------
(* A single terminal.                                                       *)

\* The daemons that are, or will be, an orchestrator unless they fail.
Active == {d \in Daemons : pc[d] \in {"forked", "initializing", "bound", "serving"}}

\* What the command of the only terminal c knows: such a daemon is the one its start waits for,
\* or else serves and is in the state file; a stop has what the file names in hand, and once
\* it has sent SIGTERM there is none.
InTurn(c) ==
    /\ at[c] \in {"read", "asked"} => saw[c] = state
    /\ at[c] = "polling" => Active = {}
    /\ \A d \in Active : IF at[c] = "waiting" THEN saw[c] = d ELSE state = d /\ pc[d] = "serving"

\* A daemon reports in the step in which it begins to serve.
ReportedServed == \A d \in reported : pc[d] \notin {"none", "forked", "initializing", "bound"}

\* What daemons do by themselves starts none and takes none back from serving.
LEMMA QuietTurn ==
    ASSUME NEW c \in Clients, InTurn(c), UNCHANGED <<state, at, saw>>,
           \A d \in Active' : d \in Active /\ (pc[d] = "serving" => pc'[d] = "serving")
    PROVE  InTurn(c)'
  BY DEF InTurn

\* A step of a daemon: only one whose start is still waited for can get ready.
LEMMA DaemonKeepsTurn ==
    ASSUME TypeOK, NEW c \in Clients, InTurn(c), NEW d \in Daemons, DaemonStep(d)
    PROVE  InTurn(c)'
  <1> USE DEF clientVars
  <1>1. UNCHANGED <<state, at, saw>>
    BY DEF DaemonStep, Boot, InitFails, Listen, Report, SocketShutdown, Closed, Drained, ExitsEarly,
           Exits, Crash
  <1>2. \A e \in Active' : e \in Active /\ (pc[e] = "serving" => pc'[e] = "serving")
    <2>1. CASE Boot(d) \/ InitFails(d) \/ Listen(d) \/ Report(d)
      BY <2>1 DEF Boot, InitFails, Listen, Report, TypeOK, Active
    <2>2. CASE SocketShutdown(d)
      BY <2>2 DEF SocketShutdown, Shutdown, TypeOK, Active
    <2>3. CASE Closed(d) \/ Drained(d) \/ ExitsEarly(d) \/ Crash(d)
      BY <2>3 DEF Closed, Drained, ExitsEarly, Exits, Crash, TypeOK, Active
    <2> QED
      BY <2>1, <2>2, <2>3 DEF DaemonStep
  <1> QED
    BY <1>1, <1>2, QuietTurn

\* A step of the command: a start forks only when nothing is active, and a stop that goes on to
\* wait has hit the only daemon there was.
LEMMA ClientKeepsTurn ==
    ASSUME IInv, ReportedServed, NEW c \in Clients, InTurn(c), ClientStep(c)
    PROVE  InTurn(c)'
  <1> USE DEF daemonVars
  <1>0. TypeOK /\ InHand /\ saw[c] \in Daemons \cup {None} /\ state \in Daemons \cup {None}
    BY DEF IInv, TypeOK
  <1>1. \A d \in Active : Alive(d) /\ d # None
    BY NoneAssumption DEF Active, Alive, Gone
  <1>2. at[c] = "read" /\ ~Found(c) => Active = {}
    BY <1>1 DEF InTurn, Found
  <1>3. CASE ReadState(c)
    BY <1>0, <1>3 DEF ReadState, InTurn, Active, TypeOK
  <1>4. CASE FindsRunning(c)
    BY <1>0, <1>4 DEF FindsRunning, Returns, InTurn, Active, TypeOK
  <1>5. CASE FindsNothing(c) \/ ForkFails(c)
    BY <1>0, <1>2, <1>5 DEF FindsNothing, ForkFails, Returns, InTurn, Active, TypeOK
  <1>6. CASE HearsReady(c)
    <2>1. pc' = pc /\ state' = saw[c] /\ at'[c] = "begin" /\ at[c] = "waiting" /\ saw[c] \in reported
      BY <1>0, <1>6 DEF HearsReady, Returns, TypeOK
    <2>2. \A d \in Active : d = saw[c] /\ pc[d] = "serving"
      BY <2>1 DEF InTurn, ReportedServed, Active
    <2> QED
      BY <2>1, <2>2 DEF InTurn, Active
  <1>7. CASE HearsFailure(c)
    BY <1>0, <1>1, <1>7 DEF HearsFailure, Returns, Found, InTurn, Active, TypeOK
  <1>8. CASE StartTimesOut(c)
    <2>1. Active' = {}
      BY <1>0, <1>1, <1>8 DEF StartTimesOut, Found, Terminated, Shutdown, InTurn, Active, TypeOK
    <2> QED
      BY <1>0, <1>8, <2>1 DEF StartTimesOut, Returns, InTurn, TypeOK
  <1>9. CASE Ask(c)
    <2>1. state' = state
      BY <1>9 DEF Ask, Found, InTurn
    <2> QED
      BY <1>0, <1>9, <2>1 DEF Ask, Proceeds, InTurn, Active, TypeOK
  <1>10. CASE Terminate(c)
    <2>1. Active' = {}
      BY <1>0, <1>1, <1>10 DEF Terminate, Found, Terminated, Shutdown, InTurn, Active, TypeOK
    <2> QED
      BY <1>0, <1>10, <2>1 DEF Terminate, Proceeds, InTurn, TypeOK
  <1>11. CASE TerminateMisses(c)
    BY <1>0, <1>1, <1>11 DEF TerminateMisses, Returns, Found, InTurn, Active, TypeOK
  <1>12. CASE SeesStopped(c)
    BY <1>0, <1>12 DEF SeesStopped, Returns, InTurn, Active, TypeOK
  <1>13. CASE ForceStop(c)
    <2>1. Active' = {}
      BY <1>0, <1>13 DEF ForceStop, InTurn, Active, TypeOK
    <2> QED
      BY <1>0, <1>13, <2>1 DEF ForceStop, Returns, InTurn, TypeOK
  <1>14. CASE \E d \in Daemons : Fork(c, d)
    BY <1>0, <1>2, <1>14 DEF Fork, InTurn, Active, TypeOK
  <1> QED
    BY <1>3, <1>4, <1>5, <1>6, <1>7, <1>8, <1>9, <1>10, <1>11, <1>12, <1>13, <1>14 DEF ClientStep

\* Nothing a command or a daemon does takes a daemon back to before its report.
LEMMA ReportedKept ==
    ASSUME IInv, ReportedServed, [Next]_vars
    PROVE  ReportedServed'
  <1> USE DEF daemonVars, clientVars
  <1>0. TypeOK
    BY DEF IInv
  <1>1. CASE UNCHANGED <<pc, reported>>
    BY <1>1 DEF ReportedServed
  <1>2. ASSUME NEW c \in Clients, StartTimesOut(c) \/ Terminate(c) \/ ForceStop(c) \/ \E d \in Daemons : Fork(c, d)
        PROVE  ReportedServed'
    BY <1>0, <1>2 DEF StartTimesOut, Terminate, ForceStop, Fork, Terminated, Shutdown, Found,
                      ReportedServed, TypeOK
  <1>3. ASSUME NEW d \in Daemons, Boot(d) \/ InitFails(d) \/ Listen(d) \/ Report(d)
        PROVE  ReportedServed'
    BY <1>0, <1>3 DEF Boot, InitFails, Listen, Report, ReportedServed, TypeOK
  <1>4. ASSUME NEW d \in Daemons,
               SocketShutdown(d) \/ Closed(d) \/ Drained(d) \/ ExitsEarly(d) \/ Crash(d)
        PROVE  ReportedServed'
    BY <1>0, <1>4 DEF SocketShutdown, Shutdown, Closed, Drained, ExitsEarly, Exits, Crash,
                      ReportedServed, TypeOK
  <1>5. ASSUME NEW c \in Clients, ClientStep(c) PROVE ReportedServed'
    BY <1>1, <1>2, <1>5 DEF ClientStep, ReadState, FindsRunning, FindsNothing, ForkFails, HearsReady,
                            HearsFailure, Ask, TerminateMisses, SeesStopped
  <1>6. ASSUME NEW d \in Daemons, DaemonStep(d) PROVE ReportedServed'
    BY <1>3, <1>4, <1>6 DEF DaemonStep
  <1>7. ASSUME NEW c \in Clients, NEW k, Command(c, k) PROVE ReportedServed'
    BY <1>1, <1>7 DEF Command
  <1> QED
    BY <1>1, <1>5, <1>6, <1>7 DEF Next, vars

\* The daemon and its commands behave in a workstation as they do alone.
LEMMA BackgroundRuns == WorkSpec => Init /\ [][Next]_vars
  <1>1. WorkInit => Init
    BY DEF WorkInit
  <1>2. [WorkNext]_workVars => [Next]_vars
    BY DEF WorkNext, Background, Launching, workVars
  <1> QED
    BY <1>1, <1>2, PTL DEF WorkSpec

\* A stop that returns "stopped" or "timeout" has left no process behind, whatever launches do
\* on the same workstation.
THEOREM StopIsFinalAtWork == WorkSpec => []StoppedIsDead
  <1>1. IInv /\ [Next]_vars => IInv'
    BY NextKeepsIInv
  <1>2. IInv => StoppedIsDead
    BY DEF IInv
  <1> QED
    BY <1>1, <1>2, InitIInv, BackgroundRuns, PTL

\* With one terminal there is never more than one orchestrator, and one that serves is either
\* named by daemon.json or its start is still waited for: whatever crashed, failed to start or
\* timed out before, and however many daemons were forked (startBackgroundSystem,
\* stopBackgroundSystem).
THEOREM OneTerminalOneOrchestrator ==
    ASSUME NEW c, Clients = {c}
    PROVE  WorkSpec => [](OneOrchestrator /\ ServingIsKnown)
  <1> DEFINE J == IInv /\ ReportedServed /\ InTurn(c)
  <1>1. Init => J
    BY InitIInv DEF Init, ReportedServed, InTurn, Active
  <1>2. J /\ [Next]_vars => J'
    <2> SUFFICES ASSUME J, [Next]_vars PROVE J'
      OBVIOUS
    <2>1. IInv' /\ ReportedServed'
      BY NextKeepsIInv, ReportedKept
    <2>2. InTurn(c)'
      <3>1. CASE UNCHANGED vars
        BY <3>1 DEF vars, InTurn, Active
      <3>2. ASSUME NEW k, Command(c, k) PROVE InTurn(c)'
        BY <3>2 DEF Command, InTurn, Active, daemonVars
      <3> QED
        BY <3>1, <3>2, ClientKeepsTurn, DaemonKeepsTurn DEF Next, IInv
    <2> QED
      BY <2>1, <2>2
  <1>3. J => OneOrchestrator /\ ServingIsKnown
    <2> SUFFICES ASSUME J PROVE OneOrchestrator /\ ServingIsKnown
      OBVIOUS
    <2>1. Orchestrators \subseteq Active
      BY DEF Orchestrators, Active
    <2>2. \A d, e \in Active : d = e
      BY DEF InTurn
    <2>3. OneOrchestrator
      <3>1. CASE Orchestrators = {}
        BY <3>1, FS_EmptySet DEF OneOrchestrator
      <3>2. CASE Orchestrators # {}
        <4>1. PICK d : Orchestrators = {d}
          BY <2>1, <2>2, <3>2
        <4> QED
          BY <4>1, FS_Singleton DEF OneOrchestrator
      <3> QED
        BY <3>1, <3>2
    <2>4. ServingIsKnown
      BY DEF InTurn, Active, ServingIsKnown, Waited
    <2> QED
      BY <2>3, <2>4
  <1> HIDE DEF J
  <1> QED
    BY <1>1, <1>2, <1>3, BackgroundRuns, PTL

\* With one terminal, `background status`, `attach` and `stop` find the orchestrator that serves: as soon as
\* nobody waits for its start any more, daemon.json names it, whatever its predecessors removed or left
\* behind when they crashed, hung or were killed (writeState, removeState).
THEOREM ServingStaysKnown ==
    ASSUME NEW c, Clients = {c}
    PROVE  WorkSpec => []ServingIsKnown
  <1>1. OneOrchestrator /\ ServingIsKnown => ServingIsKnown
    OBVIOUS
  <1> QED
    BY <1>1, OneTerminalOneOrchestrator, PTL

-----------------------------------------------------------------------------
(* Launches: types.                                                         *)

\* A command is at one of its profiles; before the doctor has listed the registrations there are
\* no names; and a launch stops no service.
InStep(u) ==
    /\ index[u] \in 1 .. Len(job[u].profiles)
    /\ place[u] \notin {"status", "over"} => names[u] = {}
    /\ place[u] = "down" => ~Launches(u)

\* The profile a command is at is one of its profiles, and so is the next one.
LEMMA ProfileTypes ==
    ASSUME LaunchTypeOK, NEW u \in Users, InStep(u)
    PROVE  /\ Profile(u) \in Profiles
           /\ 1 \in 1 .. Len(job[u].profiles)
           /\ ~IsLast(u) => index[u] + 1 \in 1 .. Len(job[u].profiles)
           /\ job[u].kind \in {"launch", "up", "down", "register"}
           /\ \A i \in 1 .. Len(job[u].profiles) : job[u].profiles[i] \in Profiles
  <1>1. job[u] \in JobType /\ job[u].profiles # <<>>
    BY LaunchAssumption DEF LaunchTypeOK
  <1>2. job[u].profiles \in Seq(Profiles) /\ job[u].kind \in {"launch", "up", "down", "register"}
    BY <1>1 DEF JobType
  <1>3. Len(job[u].profiles) \in Nat /\ index[u] \in Nat /\ index[u] <= Len(job[u].profiles)
    BY <1>2 DEF InStep
  <1> QED
    BY <1>2, <1>3 DEF Profile, IsLast, InStep

\* What a command changes of its own, when it goes somewhere.
ShellMoves(u, p, i) == place' = [place EXCEPT ![u] = p] /\ index' = [index EXCEPT ![u] = i]

\* A gate sends a command to the next one or, if it is strict and has failed, to its end.
LEMMA GateMoves ==
    ASSUME LaunchTypeOK, NEW u \in Users, NEW gate \in Gates, NEW ok \in BOOLEAN, NEW next \in Places,
           Gate(u, gate, ok, next)
    PROVE  /\ failed' \in [Users -> SUBSET Gates] /\ failed[u] \subseteq failed'[u]
           /\ \A v \in Users \ {u} : failed'[v] = failed[v]
           /\ ok => failed'[u] = failed[u] /\ ShellMoves(u, next, 1)
           /\ ~ok => failed'[u] # {} /\ \E p \in {next, "over"} : ShellMoves(u, p, 1)
  BY DEF Gate, Goes, ShellMoves, LaunchTypeOK

\* The part of the type invariant a command has for itself.
ShellTypes ==
    /\ place \in [Users -> Places] /\ index \in [Users -> Nat \ {0}]
    /\ failed \in [Users -> SUBSET Gates]

\* How a command may go on: it stays at one of its profiles, does not get to the doctor's
\* checks, and a launch comes to its end only by a gate that failed.
Advances(u) ==
    \E p \in Places \ {"status"}, i \in 1 .. Len(job[u].profiles) :
        /\ ShellMoves(u, p, i)
        /\ failed' \in [Users -> SUBSET Gates] /\ failed[u] \subseteq failed'[u]
        /\ \A v \in Users \ {u} : failed'[v] = failed[v]
        /\ p = "over" => ~Launches(u) \/ failed'[u] # {}
        /\ p = "down" => ~Launches(u)
        /\ Launches(u) /\ failed'[u] = {} /\ p \notin {"idle", "preflight", "auth", "daemon"}
               => place[u] \notin {"idle", "preflight", "auth", "daemon"} \/ daemon'

\* Both outcomes of starting a profile are such steps.
LEMMA StartAdvances ==
    ASSUME LaunchTypeOK, NEW u \in Users, InStep(u), place[u] \in {"compose", "probe", "sleep"},
           Started(u) \/ NotStarted(u)
    PROVE  Advances(u)
  <1>1. /\ 1 \in 1 .. Len(job[u].profiles) /\ "mcp.up" \in Gates
        /\ {"remove", "compose", "over"} \subseteq Places \ {"status", "down"}
        /\ failed \in [Users -> SUBSET Gates]
    BY ProfileTypes DEF Gates, Places, LaunchTypeOK
  <1>2. CASE \E ok \in BOOLEAN : Launches(u) /\ Gate(u, "mcp.up", ok, "remove")
    BY <1>1, <1>2, GateMoves DEF Advances
  <1>3. CASE Goes(u, "compose", index[u] + 1) /\ UNCHANGED failed /\ ~IsLast(u)
    BY <1>1, <1>3, ProfileTypes DEF Goes, ShellMoves, Advances
  <1>4. CASE Goes(u, "over", 1) /\ UNCHANGED failed /\ ~Launches(u)
    BY <1>1, <1>4 DEF Goes, ShellMoves, Advances
  <1> QED
    BY <1>2, <1>3, <1>4 DEF Started, NotStarted

\* The steps of a command before the doctor has listed the registrations.
Undoctored(u) ==
    \/ Begin(u) \/ Preflight(u) \/ CodexAuth(u) \/ StartDaemon(u) \/ ComposeCloses(u)
    \/ ComposeTimesOut(u) \/ Probe(u) \/ TimeRunsOut(u) \/ Wakes(u) \/ StopService(u)
    \/ RemoveRegistration(u) \/ AddRegistration(u) \/ AddFails(u) \/ DoctorTools(u)

\* All of them advance it.
LEMMA UndoctoredAdvances ==
    ASSUME LaunchTypeOK, NEW u \in Users, InStep(u), Undoctored(u)
    PROVE  Advances(u) /\ UNCHANGED <<job, names, tools>> /\ place[u] \notin {"status", "over"}
  <1> USE DEF world, shell, ghosts
  <1>0. /\ 1 \in 1 .. Len(job[u].profiles) /\ index[u] \in 1 .. Len(job[u].profiles)
        /\ ~IsLast(u) => index[u] + 1 \in 1 .. Len(job[u].profiles)
        /\ job[u].kind \in {"launch", "up", "down", "register"}
        /\ failed \in [Users -> SUBSET Gates]
        /\ place \in [Users -> Places] /\ index \in [Users -> Nat \ {0}]
        /\ place[u] = "down" => ~Launches(u)
    BY ProfileTypes DEF LaunchTypeOK, InStep
  <1>1. UNCHANGED <<job, names, tools>> /\ place[u] \notin {"status", "over"}
    BY DEF Undoctored, Begin, Preflight, CodexAuth, StartDaemon, ComposeCloses, ComposeTimesOut, Probe,
           TimeRunsOut, Wakes, StopService, RemoveRegistration, AddRegistration, AddFails, DoctorTools
  <1> SUFFICES Advances(u)
    BY <1>1
  <1>2. ASSUME NEW gate \in Gates, NEW ok \in BOOLEAN, NEW next \in Places \ {"status", "over", "down"},
               Gate(u, gate, ok, next),
               ok /\ next \notin {"idle", "preflight", "auth", "daemon"}
                   => place[u] \notin {"idle", "preflight", "auth", "daemon"} \/ daemon'
        PROVE  Advances(u)
    BY <1>0, <1>2, GateMoves DEF Advances, Places
  <1>3. ASSUME NEW p \in Places \ {"status"}, NEW i \in 1 .. Len(job[u].profiles), Goes(u, p, i),
               UNCHANGED failed, p \in {"over", "down"} => ~Launches(u),
               Launches(u) /\ p \notin {"idle", "preflight", "auth", "daemon"}
                   => place[u] \notin {"idle", "preflight", "auth", "daemon"}
        PROVE  Advances(u)
    BY <1>0, <1>3 DEF Advances, Goes, ShellMoves
  <1>4. CASE Begin(u)
    <2>1. place[u] = "idle" /\ UNCHANGED failed
      BY <1>4 DEF Begin
    <2>2. \E p \in {"preflight", "compose", "down", "remove", "add"} :
            Goes(u, p, 1) /\ (p = "preflight" <=> Launches(u))
      BY <1>0, <1>4 DEF Begin, FirstOfRegistration, Launches
    <2> QED
      BY <1>0, <1>3, <2>1, <2>2 DEF Places
  <1>5. CASE Preflight(u)
    <2>1. ("build" \in tools) \in BOOLEAN /\ "repo.preflight" \in Gates
          /\ "auth" \in Places \ {"status", "over", "down"}
      BY DEF Gates, Places
    <2>2. Gate(u, "repo.preflight", "build" \in tools, "auth")
      BY <1>5 DEF Preflight
    <2> QED
      BY <1>2, <2>1, <2>2
  <1>6. CASE CodexAuth(u)
    <2>1. (job[u].skipAuth \/ "login" \in tools) \in BOOLEAN
      BY LaunchAssumption DEF LaunchTypeOK, JobType
    <2> QED
      BY <1>2, <1>6, <2>1 DEF CodexAuth, Gates, Places
  <1>7. CASE StartDaemon(u)
    BY <1>2, <1>7 DEF StartDaemon, Gates, Places
  <1>8. CASE ComposeCloses(u)
    <2>1. place[u] = "compose"
      BY <1>8 DEF ComposeCloses
    <2>2. CASE Goes(u, "probe", index[u]) /\ UNCHANGED failed
      BY <1>0, <1>3, <2>1, <2>2 DEF Places
    <2> QED
      BY <1>8, <2>1, <2>2, StartAdvances DEF ComposeCloses
  <1>9. CASE ComposeTimesOut(u)
    BY <1>9, StartAdvances DEF ComposeTimesOut
  <1>10. CASE Probe(u)
    <2>1. CASE Started(u)
      BY <1>10, <2>1, StartAdvances DEF Probe
    <2>2. CASE Goes(u, "sleep", index[u]) /\ UNCHANGED failed
      BY <1>0, <1>3, <1>10, <2>2 DEF Probe, Places
    <2> QED
      BY <1>10, <2>1, <2>2 DEF Probe
  <1>11. CASE TimeRunsOut(u)
    BY <1>0, <1>11 DEF TimeRunsOut, Advances, ShellMoves, Places
  <1>12. CASE Wakes(u)
    <2>1. CASE NotStarted(u)
      BY <1>12, <2>1, StartAdvances DEF Wakes
    <2>2. CASE Goes(u, "probe", index[u]) /\ UNCHANGED failed
      BY <1>0, <1>3, <1>12, <2>2 DEF Wakes, Places
    <2> QED
      BY <1>12, <2>1, <2>2 DEF Wakes
  <1>13. CASE StopService(u)
    BY <1>0, <1>3, <1>13 DEF StopService, Places
  <1>14. CASE RemoveRegistration(u)
    BY <1>0, <1>3, <1>14 DEF RemoveRegistration, AfterRemove, Places
  <1>15. CASE AddRegistration(u)
    <2>1. place[u] = "add"
      BY <1>15 DEF AddRegistration
    <2>2. CASE Goes(u, FirstOfRegistration(u), index[u] + 1) /\ UNCHANGED failed /\ ~IsLast(u)
      BY <1>0, <1>3, <2>1, <2>2 DEF FirstOfRegistration, Places
    <2>3. CASE Gate(u, "mcp.codex_register", TRUE, "doctor")
      BY <1>2, <2>1, <2>3 DEF Gates, Places
    <2>4. CASE Goes(u, "over", 1) /\ UNCHANGED failed /\ ~Launches(u)
      BY <1>0, <1>3, <2>1, <2>4 DEF Places
    <2> QED
      BY <1>15, <2>2, <2>3, <2>4 DEF AddRegistration
  <1>16. CASE AddFails(u)
    <2>1. place[u] = "add"
      BY <1>16 DEF AddFails
    <2>2. CASE Gate(u, "mcp.codex_register", FALSE, "doctor")
      BY <1>2, <2>1, <2>2 DEF Gates, Places
    <2>3. CASE Goes(u, "over", 1) /\ UNCHANGED failed /\ ~Launches(u)
      BY <1>0, <1>3, <2>1, <2>3 DEF Places
    <2> QED
      BY <1>16, <2>2, <2>3 DEF AddFails
  <1>17. CASE DoctorTools(u)
    BY <1>0, <1>3, <1>17 DEF DoctorTools, Places
  <1> QED
    BY <1>4, <1>5, <1>6, <1>7, <1>8, <1>9, <1>10, <1>11, <1>12, <1>13, <1>14, <1>15, <1>16, <1>17
       DEF Undoctored

\* What is lost is facts, and stays lost.
LEMMA LossTypes ==
    ASSUME LaunchTypeOK, NEW facts \in SUBSET Facts, Loses(facts)
    PROVE  lost' \in [Users -> SUBSET Facts] /\ \A u \in Users : lost[u] \subseteq lost'[u]
  BY DEF Loses, LaunchTypeOK

\* The part of the type invariant that is not a command's own.
WorldTypes ==
    /\ container \in [Profiles -> {"down", "sick", "well"}]
    /\ pulling \subseteq Profiles /\ registry \subseteq Profiles
    /\ daemon \in BOOLEAN
    /\ lost \in [Users -> SUBSET Facts]
    /\ registered \subseteq Profiles /\ torn \subseteq Profiles
    /\ faults \in 0..MaxFaults

\* A command's step keeps the types of the world it acts on.
LEMMA WorldTypesKept ==
    ASSUME LaunchTypeOK, NEW u \in Users, InStep(u),
           Undoctored(u) \/ DoctorLists(u) \/ DoctorChecks(u)
    PROVE  WorldTypes'
  <1> USE DEF world, shell, ghosts
  <1>0. WorldTypes /\ Profile(u) \in Profiles /\ MaxFaults \in Nat
    BY ProfileTypes, LaunchAssumption DEF LaunchTypeOK, WorldTypes
  <1>1. <<"service", Profile(u)>> \in Facts /\ <<"registration", Profile(u)>> \in Facts
    BY <1>0 DEF Facts
  <1>2. CASE UNCHANGED <<container, pulling, registry, daemon, lost, registered, torn>> /\ faults' \in 0..MaxFaults
    BY <1>0, <1>2 DEF WorldTypes
  <1>3. CASE Begin(u) \/ Preflight(u) \/ CodexAuth(u) \/ Probe(u) \/ TimeRunsOut(u) \/ Wakes(u)
             \/ DoctorTools(u) \/ DoctorLists(u) \/ DoctorChecks(u)
    <2>1. UNCHANGED <<container, pulling, registry, daemon, lost, registered, torn>>
      BY <1>3 DEF Begin, Preflight, CodexAuth, Probe, TimeRunsOut, Wakes, DoctorTools, DoctorLists,
                  DoctorChecks
    <2>2. faults' = faults \/ (faults < MaxFaults /\ faults' = faults + 1)
      BY <1>3 DEF Begin, Preflight, CodexAuth, Probe, TimeRunsOut, Wakes, DoctorTools, DoctorLists,
                  DoctorChecks
    <2>3. faults' \in 0..MaxFaults
      BY <1>0, <2>2 DEF WorldTypes
    <2> QED
      BY <1>2, <2>1, <2>3
  <1>4. CASE StartDaemon(u)
    <2>1. faults' \in 0..MaxFaults
      <3>1. faults' = faults \/ (faults < MaxFaults /\ faults' = faults + 1)
        BY <1>4 DEF StartDaemon
      <3>2. faults \in 0..MaxFaults
        BY <1>0 DEF WorldTypes
      <3> QED
        BY <1>0, <3>1, <3>2
    <2>2. daemon' \in BOOLEAN
      BY <1>0, <1>4 DEF StartDaemon, WorldTypes
    <2>3. UNCHANGED <<container, pulling, registry, lost, registered, torn>>
      BY <1>4 DEF StartDaemon
    <2> QED
      BY <1>0, <2>1, <2>2, <2>3 DEF WorldTypes
  <1>5. CASE ComposeCloses(u)
    BY <1>0, <1>5 DEF ComposeCloses, WorldTypes
  <1>6. CASE ComposeTimesOut(u)
    BY <1>0, <1>6 DEF ComposeTimesOut, WorldTypes
  <1>7. CASE StopService(u)
    <2>1. {<<"service", Profile(u)>>} \in SUBSET Facts
      BY <1>1
    <2>2. lost' \in [Users -> SUBSET Facts]
      BY <1>7, <2>1, LossTypes DEF StopService
    <2> QED
      BY <1>0, <1>7, <2>2 DEF StopService, WorldTypes
  <1>8. CASE RemoveRegistration(u)
    <2>1. {<<"registration", Profile(u)>>} \in SUBSET Facts
      BY <1>1
    <2>2. lost' \in [Users -> SUBSET Facts]
      BY <1>8, <2>1, LossTypes DEF RemoveRegistration
    <2> QED
      BY <1>0, <1>8, <2>2 DEF RemoveRegistration, WorldTypes
  <1>9. CASE AddRegistration(u) \/ AddFails(u)
    <2>1. faults' \in 0..MaxFaults
      <3>1. faults' = faults \/ (faults < MaxFaults /\ faults' = faults + 1)
        BY <1>9 DEF AddRegistration, AddFails
      <3>2. faults \in 0..MaxFaults
        BY <1>0 DEF WorldTypes
      <3> QED
        BY <1>0, <3>1, <3>2
    <2>2. registry' \subseteq Profiles /\ registered' \subseteq Profiles /\ torn' \subseteq Profiles
      BY <1>0, <1>9 DEF AddRegistration, AddFails, WorldTypes
    <2>3. UNCHANGED <<container, pulling, daemon, lost>>
      BY <1>9 DEF AddRegistration, AddFails
    <2> QED
      BY <1>0, <2>1, <2>2, <2>3 DEF WorldTypes
  <1> QED
    BY <1>3, <1>4, <1>5, <1>6, <1>7, <1>8, <1>9 DEF Undoctored

\* ... and those of what it keeps to itself.
LEMMA OwnTypesKept ==
    ASSUME LaunchTypeOK, NEW u \in Users, InStep(u),
           Undoctored(u) \/ DoctorLists(u) \/ DoctorChecks(u)
    PROVE  /\ late' \in [Users -> BOOLEAN] /\ doctored' \in [Users -> {"none", "ok", "bad"}]
           /\ names' \in [Users -> SUBSET Profiles] /\ UNCHANGED <<job, tools>>
           /\ ShellTypes'
           /\ \A v \in Users \ {u} : /\ place'[v] = place[v] /\ index'[v] = index[v]
                                     /\ failed'[v] = failed[v] /\ doctored'[v] = doctored[v]
                                     /\ names'[v] = names[v]
  <1> USE DEF world, shell, ghosts
  <1>0. /\ place \in [Users -> Places] /\ index \in [Users -> Nat \ {0}]
        /\ failed \in [Users -> SUBSET Gates] /\ late \in [Users -> BOOLEAN]
        /\ doctored \in [Users -> {"none", "ok", "bad"}] /\ names \in [Users -> SUBSET Profiles]
        /\ registry \subseteq Profiles
    BY DEF LaunchTypeOK
  <1>1. CASE Undoctored(u)
    <2>1. /\ ShellTypes' /\ UNCHANGED <<job, names, tools>>
          /\ \A v \in Users \ {u} : /\ place'[v] = place[v] /\ index'[v] = index[v]
                                    /\ failed'[v] = failed[v]
      <3>1. Advances(u) /\ UNCHANGED <<job, names, tools>>
        BY <1>1, UndoctoredAdvances
      <3>2. 1 .. Len(job[u].profiles) \subseteq Nat \ {0}
        OBVIOUS
      <3> QED
        BY <1>0, <3>1, <3>2 DEF Advances, ShellMoves, ShellTypes
    <2>2. late' \in [Users -> BOOLEAN]
      BY <1>0, <1>1 DEF Undoctored, Begin, Preflight, CodexAuth, StartDaemon, ComposeCloses,
             ComposeTimesOut, Probe, TimeRunsOut, Wakes, StopService, RemoveRegistration,
             AddRegistration, AddFails, DoctorTools
    <2>3. doctored' = doctored \/ \E r \in {"ok", "bad"} : doctored' = [doctored EXCEPT ![u] = r]
      BY <1>1 DEF Undoctored, Begin, Preflight, CodexAuth, StartDaemon, ComposeCloses,
             ComposeTimesOut, Probe, TimeRunsOut, Wakes, StopService, RemoveRegistration,
             AddRegistration, AddFails, DoctorTools
    <2> QED
      BY <1>0, <2>1, <2>2, <2>3
  <1>2. CASE DoctorLists(u)
    BY <1>0, <1>2 DEF DoctorLists, Goes, ShellTypes, Places
  <1>3. CASE DoctorChecks(u)
    <2>1. /\ UNCHANGED <<late, job, names, tools>>
          /\ \E r \in {doctored[u], "bad"} : doctored' = [doctored EXCEPT ![u] = r]
      BY <1>3 DEF DoctorChecks
    <2>2. \/ \E ok \in BOOLEAN : Gate(u, "doctor.strict", ok, "over")
          \/ Goes(u, "status", index[u] + 1) /\ UNCHANGED failed
      BY <1>3 DEF DoctorChecks
    <2>3. /\ ShellTypes'
          /\ \A v \in Users \ {u} : /\ place'[v] = place[v] /\ index'[v] = index[v]
                                    /\ failed'[v] = failed[v]
      BY <1>0, <2>2 DEF Gate, Goes, ShellTypes, Places, Gates
    <2> QED
      BY <1>0, <2>1, <2>3
  <1> QED
    BY <1>1, <1>2, <1>3

\* A step of the world outside.
Outside == \/ \E p \in Profiles : ServiceRecovers(p) \/ PullEnds(p) \/ ServiceFails(p)
           \/ DaemonDies

\* The world keeps its types, and leaves the commands where they are.
LEMMA OutsideTypesKept ==
    ASSUME LaunchTypeOK, Outside
    PROVE  WorldTypes' /\ UNCHANGED <<tools, shell>>
  <1> USE DEF world, ghosts
  <1>0. WorldTypes /\ MaxFaults \in Nat /\ Daemon \in Facts /\ \A p \in Profiles : <<"service", p>> \in Facts
    BY LaunchAssumption DEF LaunchTypeOK, WorldTypes, Facts
  <1>1. CASE \E p \in Profiles : ServiceRecovers(p) \/ PullEnds(p)
    BY <1>0, <1>1 DEF ServiceRecovers, PullEnds, WorldTypes
  <1>2. ASSUME faults < MaxFaults, faults' = faults + 1 PROVE faults' \in 0..MaxFaults
    BY <1>0, <1>2 DEF WorldTypes
  <1>3. CASE \E p \in Profiles : ServiceFails(p)
    <2>1. PICK p \in Profiles : ServiceFails(p)
      BY <1>3
    <2>2. {<<"service", p>>} \in SUBSET Facts
      BY <1>0
    <2>3. lost' \in [Users -> SUBSET Facts]
      BY <2>1, <2>2, LossTypes DEF ServiceFails
    <2>4. faults' \in 0..MaxFaults
      BY <1>2, <2>1 DEF ServiceFails
    <2>5. container' \in [Profiles -> {"down", "sick", "well"}]
      BY <1>0, <2>1 DEF ServiceFails, WorldTypes
    <2> QED
      BY <1>0, <2>1, <2>3, <2>4, <2>5 DEF ServiceFails, WorldTypes
  <1>4. CASE DaemonDies
    <2>1. {Daemon} \in SUBSET Facts
      BY <1>0
    <2>2. lost' \in [Users -> SUBSET Facts]
      BY <1>4, <2>1, LossTypes DEF DaemonDies
    <2>3. faults' \in 0..MaxFaults
      BY <1>2, <1>4 DEF DaemonDies
    <2>4. daemon' \in BOOLEAN /\ UNCHANGED <<container, pulling, registry, tools, shell, registered, torn>>
      BY <1>4 DEF DaemonDies
    <2> QED
      BY <1>0, <2>2, <2>3, <2>4 DEF WorldTypes
  <1> QED
    BY <1>1, <1>3, <1>4 DEF Outside

\* Every step is one of a command or of the world.
LEMMA LaunchSteps ==
    LaunchNext => Outside \/ \E u \in Users : Undoctored(u) \/ DoctorLists(u) \/ DoctorChecks(u)
  BY DEF LaunchNext, Outside, Undoctored, CommandReturns

\* Every step keeps the types.
LEMMA LaunchTypesKept ==
    ASSUME LaunchTypeOK, \A u \in Users : InStep(u), LaunchNext
    PROVE  LaunchTypeOK'
  <1>1. CASE Outside
    BY <1>1, OutsideTypesKept DEF LaunchTypeOK, WorldTypes, shell
  <1>2. ASSUME NEW u \in Users, Undoctored(u) \/ DoctorLists(u) \/ DoctorChecks(u)
        PROVE  LaunchTypeOK'
    <2>1. WorldTypes'
      BY <1>2, WorldTypesKept
    <2>2. /\ late' \in [Users -> BOOLEAN] /\ doctored' \in [Users -> {"none", "ok", "bad"}]
          /\ names' \in [Users -> SUBSET Profiles] /\ UNCHANGED <<job, tools>>
          /\ ShellTypes'
      BY <1>2, OwnTypesKept
    <2> QED
      BY <2>1, <2>2 DEF LaunchTypeOK, WorldTypes, ShellTypes
  <1> QED
    BY <1>1, <1>2, LaunchSteps

-----------------------------------------------------------------------------
(* Launches: what a report is worth.                                        *)

\* A launch has passed the gate of the daemon.
Served(u) == place[u] \notin {"idle", "preflight", "auth", "daemon"}

\* The profiles whose services the doctor has asked for, in a launch that no gate has stopped.
Checked(u) ==
    IF place[u] = "status" THEN 1 .. index[u] - 1
    ELSE IF place[u] = "over" /\ failed[u] = {} THEN 1 .. Len(job[u].profiles) ELSE {}

\* What a launch has seen is still so, or was lost after its last look: the daemon, the
\* registrations on the doctor's list, and the services the doctor found well.
SawDaemon(u) == Served(u) /\ failed[u] = {} => daemon \/ Daemon \in lost[u]
SawNames(u) == \A p \in names[u] : p \in registry \/ <<"registration", p>> \in lost[u]
SawServices(u) ==
    doctored[u] # "bad" => \A i \in Checked(u) :
        /\ job[u].profiles[i] \in names[u]
        /\ container[job[u].profiles[i]] = "well" \/ <<"service", job[u].profiles[i]>> \in lost[u]

LaunchAt(u) == InStep(u) /\ (Launches(u) => SawDaemon(u) /\ SawNames(u) /\ SawServices(u))

\* What stops to hold after a launch has looked at it is lost to it.
LossStays == \A u \in Users : lost[u] \subseteq lost'[u]
DaemonIsLost ==
    \A u \in Users : Launches(u) /\ Served(u) /\ daemon /\ ~daemon' => Daemon \in lost'[u]
RegistrationsAreLost ==
    \A u \in Users, p \in Profiles :
        Launches(u) /\ place[u] \in {"status", "over"} /\ p \in registry /\ p \notin registry'
            => <<"registration", p>> \in lost'[u]
LooksAtService(u, p) ==
    \/ place[u] = "over"
    \/ place[u] = "status" /\ \E i \in 1..(index[u] - 1) : job[u].profiles[i] = p
ServicesAreLost ==
    \A u \in Users, p \in Profiles :
        Launches(u) /\ LooksAtService(u, p) /\ container[p] = "well" /\ container'[p] # "well"
            => <<"service", p>> \in lost'[u]
FactsAreLost == LossStays /\ DaemonIsLost /\ RegistrationsAreLost /\ ServicesAreLost

\* The three kinds of facts are told apart by HasLookedAt.
LEMMA LookedAt ==
    ASSUME NEW u \in Users, NEW p \in Profiles
    PROVE  /\ HasLookedAt(u, Daemon) <=> Served(u)
           /\ HasLookedAt(u, <<"registration", p>>) <=> place[u] \in {"status", "over"}
           /\ HasLookedAt(u, <<"service", p>>) <=> LooksAtService(u, p)
  <1>1. <<"registration", p>> # Daemon /\ <<"service", p>> # Daemon
    BY DEF Daemon
  <1>2. <<"registration", p>>[1] = "registration" /\ <<"service", p>>[1] = "service" /\ <<"service", p>>[2] = p
    OBVIOUS
  <1> QED
    BY <1>1, <1>2 DEF HasLookedAt, Served, LooksAtService

\* Losing one fact is recorded with every launch that has looked at it.
LEMMA LossOf ==
    ASSUME LaunchTypeOK, NEW f, Loses({f})
    PROVE  LossStays /\ \A u \in Users : Launches(u) /\ HasLookedAt(u, f) => f \in lost'[u]
  BY DEF Loses, LaunchTypeOK, LossStays

\* What does not stop to hold need not be lost.
LEMMA NoLoss ==
    /\ UNCHANGED lost => LossStays
    /\ (daemon => daemon') => DaemonIsLost
    /\ registry \subseteq registry' => RegistrationsAreLost
    /\ (\A p \in Profiles : container[p] = "well" => container'[p] = "well") => ServicesAreLost
  <1>1. (daemon => daemon') => DaemonIsLost
    BY Zenon DEF DaemonIsLost
  <1>2. registry \subseteq registry' => RegistrationsAreLost
    BY DEF RegistrationsAreLost
  <1>3. (\A p \in Profiles : container[p] = "well" => container'[p] = "well") => ServicesAreLost
    BY DEF ServicesAreLost
  <1>4. UNCHANGED lost => LossStays
    BY DEF LossStays
  <1> QED
    BY <1>1, <1>2, <1>3, <1>4

\* Every step loses what it takes away.
LEMMA LossesKept ==
    ASSUME LaunchTypeOK, \A u \in Users : InStep(u), LaunchNext
    PROVE  FactsAreLost
  <1> USE DEF world, shell, ghosts
  <1>0. /\ container \in [Profiles -> {"down", "sick", "well"}] /\ registry \subseteq Profiles
        /\ \A u \in Users : Profile(u) \in Profiles
    BY ProfileTypes DEF LaunchTypeOK
  <1>1. ASSUME UNCHANGED daemon PROVE DaemonIsLost
    BY <1>1, NoLoss, Zenon
  <1>2. ASSUME NEW p \in Profiles, Loses({<<"service", p>>}), UNCHANGED <<daemon, registry>>,
               \A q \in Profiles \ {p} : container'[q] = container[q]
        PROVE FactsAreLost
    <2>1. LossStays /\ ServicesAreLost
      BY <1>2, LossOf, LookedAt DEF ServicesAreLost
    <2>2. RegistrationsAreLost
      BY <1>2, NoLoss
    <2> QED
      BY <1>1, <1>2, <2>1, <2>2 DEF FactsAreLost
  <1>3. ASSUME NEW u \in Users, StopService(u) PROVE FactsAreLost
    BY <1>0, <1>2, <1>3 DEF StopService
  <1>4. ASSUME NEW p \in Profiles, ServiceFails(p) PROVE FactsAreLost
    BY <1>0, <1>2, <1>4 DEF ServiceFails
  <1>5. ASSUME NEW u \in Users, RemoveRegistration(u) PROVE FactsAreLost
    <2>1. /\ UNCHANGED <<daemon, container>> /\ Loses({<<"registration", Profile(u)>>})
          /\ registry' = registry \ {Profile(u)}
      BY <1>5 DEF RemoveRegistration
    <2>2. LossStays /\ RegistrationsAreLost
      BY <1>0, <2>1, LossOf, LookedAt DEF RegistrationsAreLost
    <2>3. ServicesAreLost
      BY <2>1, NoLoss
    <2> QED
      BY <1>1, <2>1, <2>2, <2>3 DEF FactsAreLost
  <1>6. ASSUME DaemonDies PROVE FactsAreLost
    <2>1. UNCHANGED <<registry, container>> /\ Loses({Daemon})
      BY <1>6 DEF DaemonDies
    <2>2. \A u \in Users : HasLookedAt(u, Daemon) <=> Served(u)
      BY DEF HasLookedAt, Served
    <2>3. LossStays /\ DaemonIsLost
      BY <2>1, <2>2, LossOf DEF DaemonIsLost
    <2> QED
      BY <2>1, <2>3, NoLoss DEF FactsAreLost
  <1>7. ASSUME UNCHANGED lost, DaemonIsLost, registry \subseteq registry',
               \A p \in Profiles : container[p] = "well" => container'[p] = "well"
        PROVE  FactsAreLost
    BY <1>7, NoLoss DEF FactsAreLost
  <1>8. ASSUME NEW u \in Users, StartDaemon(u) PROVE FactsAreLost
    <2>1. UNCHANGED <<lost, registry, container>>
      BY <1>8 DEF StartDaemon
    <2>2. daemon => daemon'
      BY <1>8, Zenon DEF StartDaemon
    <2> QED
      BY <1>7, <2>1, <2>2, NoLoss
  <1>9. ASSUME NEW u \in Users, ComposeCloses(u) \/ ComposeTimesOut(u) \/ AddRegistration(u) \/ AddFails(u)
        PROVE  FactsAreLost
    <2>1. /\ UNCHANGED <<lost, daemon>> /\ registry \subseteq registry'
          /\ \A p \in Profiles : container[p] = "well" => container'[p] = "well"
      BY <1>0, <1>9 DEF ComposeCloses, ComposeTimesOut, AddRegistration, AddFails
    <2> QED
      BY <1>1, <1>7, <2>1
  <1>10. ASSUME NEW u \in Users, Begin(u) \/ Preflight(u) \/ CodexAuth(u) \/ Probe(u) \/ TimeRunsOut(u)
                                \/ Wakes(u) \/ DoctorTools(u) \/ DoctorLists(u) \/ DoctorChecks(u)
        PROVE  FactsAreLost
    <2>1. UNCHANGED <<lost, daemon, registry, container>>
      BY <1>10 DEF Begin, Preflight, CodexAuth, Probe, TimeRunsOut, Wakes, DoctorTools, DoctorLists,
                   DoctorChecks
    <2> QED
      BY <1>1, <1>7, <2>1
  <1>11. ASSUME NEW p \in Profiles, ServiceRecovers(p) \/ PullEnds(p) PROVE FactsAreLost
    <2>1. /\ UNCHANGED <<lost, daemon, registry>>
          /\ \A q \in Profiles : container[q] = "well" => container'[q] = "well"
      BY <1>0, <1>11 DEF ServiceRecovers, PullEnds
    <2> QED
      BY <1>1, <1>7, <2>1
  <1> QED
    BY <1>3, <1>4, <1>5, <1>6, <1>8, <1>9, <1>10, <1>11 DEF LaunchNext, CommandReturns

\* What is lost is all that is taken from a launch that has seen it.
LEMMA SeenStays ==
    ASSUME LaunchTypeOK, NEW u \in Users, LaunchAt(u), Launches(u), FactsAreLost
    PROVE  /\ daemon \/ Daemon \in lost[u] => daemon' \/ Daemon \in lost'[u] \/ ~Served(u)
           /\ \A p \in names[u] : p \in registry' \/ <<"registration", p>> \in lost'[u]
           /\ doctored[u] # "bad" => \A i \in Checked(u) :
                  \/ container'[job[u].profiles[i]] = "well"
                  \/ <<"service", job[u].profiles[i]>> \in lost'[u]
  <1>0. lost[u] \subseteq lost'[u] /\ names[u] \subseteq Profiles /\ InStep(u)
    BY DEF FactsAreLost, LossStays, LaunchTypeOK, LaunchAt
  <1>1. daemon \/ Daemon \in lost[u] => daemon' \/ Daemon \in lost'[u] \/ ~Served(u)
    <2>1. daemon => daemon' \/ Daemon \in lost'[u] \/ ~Served(u)
      BY Zenon DEF FactsAreLost, DaemonIsLost
    <2>2. Daemon \in lost[u] => Daemon \in lost'[u]
      BY <1>0
    <2> QED
      BY <2>1, <2>2, Zenon
  <1>2. ASSUME NEW p \in names[u] PROVE p \in registry' \/ <<"registration", p>> \in lost'[u]
    <2>1. place[u] \in {"status", "over"} /\ p \in Profiles
      BY <1>0, <1>2 DEF InStep
    <2>2. p \in registry \/ <<"registration", p>> \in lost[u]
      BY <1>2 DEF LaunchAt, SawNames
    <2> QED
      BY <1>0, <2>1, <2>2 DEF FactsAreLost, RegistrationsAreLost
  <1>3. ASSUME doctored[u] # "bad", NEW i \in Checked(u)
        PROVE  \/ container'[job[u].profiles[i]] = "well"
               \/ <<"service", job[u].profiles[i]>> \in lost'[u]
    <2>1. i \in 1 .. Len(job[u].profiles) /\ LooksAtService(u, job[u].profiles[i])
      BY <1>0, <1>3 DEF Checked, LooksAtService, InStep
    <2>2. job[u].profiles[i] \in Profiles
      BY <1>0, <2>1, ProfileTypes
    <2>3. container[job[u].profiles[i]] = "well" \/ <<"service", job[u].profiles[i]>> \in lost[u]
      BY <1>3 DEF LaunchAt, SawServices
    <2> QED
      BY <1>0, <2>1, <2>2, <2>3 DEF FactsAreLost, ServicesAreLost
  <1> QED
    BY <1>1, <1>2, <1>3

\* Whoever moves, a launch that rests has not been lied to.
LEMMA RestingLaunch ==
    ASSUME LaunchTypeOK, NEW u \in Users, LaunchAt(u), FactsAreLost, UNCHANGED job,
           place'[u] = place[u], index'[u] = index[u], failed'[u] = failed[u],
           doctored'[u] = doctored[u], names'[u] = names[u]
    PROVE  LaunchAt(u)'
  <1>1. InStep(u)' /\ (Launches(u)' <=> Launches(u)) /\ (Served(u)' <=> Served(u)) /\ Checked(u)' = Checked(u)
    BY DEF LaunchAt, InStep, Launches, Served, Checked
  <1>2. SUFFICES ASSUME Launches(u) PROVE SawDaemon(u)' /\ SawNames(u)' /\ SawServices(u)'
    BY <1>1 DEF LaunchAt
  <1>3. SawDaemon(u)'
    <2>1. SawDaemon(u)
      BY <1>2 DEF LaunchAt
    <2> QED
      BY <1>1, <1>2, <2>1, SeenStays, Zenon DEF SawDaemon
  <1>4. SawNames(u)'
    BY <1>2, SeenStays DEF SawNames
  <1>5. SawServices(u)'
    BY <1>1, <1>2, SeenStays DEF SawServices, LaunchAt
  <1> QED
    BY <1>3, <1>4, <1>5

\* A launch that goes on to the doctor has found its daemon running.
LEMMA AdvancingLaunch ==
    ASSUME LaunchTypeOK, NEW u \in Users, LaunchAt(u), FactsAreLost, Undoctored(u)
    PROVE  LaunchAt(u)'
  <1>1. InStep(u) /\ place \in [Users -> Places] /\ index \in [Users -> Nat \ {0}]
    BY DEF LaunchAt, LaunchTypeOK
  <1>2. /\ Advances(u) /\ UNCHANGED <<job, names>> /\ place[u] \notin {"status", "over"}
        /\ names[u] = {}
    BY <1>1, UndoctoredAdvances DEF InStep
  <1>3. PICK p \in Places \ {"status"}, i \in 1 .. Len(job[u].profiles) :
            /\ place'[u] = p /\ index'[u] = i
            /\ failed[u] \subseteq failed'[u]
            /\ p = "over" => ~Launches(u) \/ failed'[u] # {}
            /\ p = "down" => ~Launches(u)
            /\ Launches(u) /\ failed'[u] = {} /\ p \notin {"idle", "preflight", "auth", "daemon"}
                   => place[u] \notin {"idle", "preflight", "auth", "daemon"} \/ daemon'
    BY <1>1, <1>2 DEF Advances, ShellMoves
  <1>4. InStep(u)'
    BY <1>2, <1>3 DEF InStep, Launches
  <1>5. ASSUME Launches(u) PROVE SawDaemon(u)'
    <2>1. SUFFICES ASSUME Served(u)', failed'[u] = {} PROVE daemon' \/ Daemon \in lost'[u]
      BY DEF SawDaemon
    <2>2. failed[u] = {} /\ (Served(u) \/ daemon')
      BY <1>3, <1>5, <2>1 DEF Served
    <2>3. SawDaemon(u)
      BY <1>5 DEF LaunchAt
    <2> QED
      BY <1>5, <2>2, <2>3, SeenStays, Zenon DEF SawDaemon
  <1>6. SawNames(u)'
    BY <1>2 DEF SawNames
  <1>7. ASSUME Launches(u) PROVE SawServices(u)'
    <2>1. Checked(u)' = {}
      BY <1>3, <1>7 DEF Checked
    <2> QED
      BY <2>1 DEF SawServices
  <1>8. Launches(u)' <=> Launches(u)
    BY <1>2 DEF Launches
  <1> QED
    BY <1>4, <1>5, <1>6, <1>7, <1>8 DEF LaunchAt

\* The doctor's list is the registrations there are, or none.
LEMMA ListingLaunch ==
    ASSUME LaunchTypeOK, NEW u \in Users, LaunchAt(u), FactsAreLost, DoctorLists(u)
    PROVE  LaunchAt(u)'
  <1> USE DEF world, shell, ghosts
  <1>1. /\ place[u] = "list" /\ place'[u] = "status" /\ index'[u] = 1 /\ UNCHANGED <<job, failed, registry>>
        /\ names'[u] \in {registry, {}}
    BY DEF DoctorLists, Goes, LaunchTypeOK
  <1>2. InStep(u)'
    <2>1. InStep(u)
      BY DEF LaunchAt
    <2>2. 1 \in 1 .. Len(job[u].profiles)
      BY <2>1, ProfileTypes
    <2> QED
      BY <1>1, <2>2 DEF InStep
  <1>3. ASSUME Launches(u) PROVE SawDaemon(u)'
    <2>1. Served(u) /\ SawDaemon(u)
      BY <1>1, <1>3 DEF LaunchAt, Served
    <2>2. failed'[u] = failed[u]
      BY <1>1
    <2> QED
      BY <1>3, <2>1, <2>2, SeenStays, Zenon DEF SawDaemon
  <1>4. SawNames(u)'
    BY <1>1 DEF SawNames
  <1>5. SawServices(u)'
    BY <1>1 DEF SawServices, Checked
  <1>6. Launches(u)' <=> Launches(u)
    BY <1>1 DEF Launches
  <1> QED
    BY <1>2, <1>3, <1>4, <1>5, <1>6 DEF LaunchAt

\* A check of the doctor is of a service that is well and registered, or the report is bad.
LEMMA CheckingLaunch ==
    ASSUME LaunchTypeOK, NEW u \in Users, LaunchAt(u), FactsAreLost, DoctorChecks(u)
    PROVE  LaunchAt(u)'
  <1> USE DEF world, shell, ghosts
  <1>1. /\ place[u] = "status" /\ UNCHANGED <<job, names, container, daemon, lost>>
        /\ doctored'[u] = IF CheckPasses(u) THEN doctored[u] ELSE "bad"
    BY DEF DoctorChecks, LaunchTypeOK
  <1>2. /\ IsLast(u) => /\ place'[u] = "over" /\ index'[u] = 1
                        /\ failed[u] \subseteq failed'[u]
                        /\ doctored'[u] = "bad" => failed'[u] # {}
        /\ ~IsLast(u) => place'[u] = "status" /\ index'[u] = index[u] + 1 /\ failed'[u] = failed[u]
    BY <1>1 DEF DoctorChecks, Gate, Goes, LaunchTypeOK
  <1>3. InStep(u) /\ index[u] \in Nat \ {0} /\ Len(job[u].profiles) \in Nat
    BY LaunchAssumption DEF LaunchAt, LaunchTypeOK, JobType
  <1>4. InStep(u)'
    BY <1>1, <1>2, <1>3, ProfileTypes DEF InStep
  <1>5. ASSUME Launches(u) PROVE SawDaemon(u)'
    <2>1. Served(u) /\ SawDaemon(u)
      BY <1>1, <1>5 DEF LaunchAt, Served
    <2>2. failed'[u] = {} => failed[u] = {}
      BY <1>2
    <2> QED
      BY <1>5, <2>1, <2>2, SeenStays, Zenon DEF SawDaemon
  <1>6. ASSUME Launches(u) PROVE SawNames(u)'
    BY <1>1, <1>6, SeenStays DEF SawNames
  <1>7. ASSUME Launches(u) PROVE SawServices(u)'
    <2>1. SUFFICES ASSUME doctored'[u] # "bad", NEW i \in Checked(u)'
                   PROVE  /\ job[u].profiles[i] \in names[u]
                          /\ \/ container[job[u].profiles[i]] = "well"
                             \/ <<"service", job[u].profiles[i]>> \in lost[u]
      BY <1>1 DEF SawServices
    <2>2. CheckPasses(u) /\ doctored[u] # "bad"
      BY <1>1, <2>1
    <2>3. Checked(u) = 1 .. index[u] - 1 /\ i \in 1 .. index[u]
      BY <1>1, <1>2, <1>3, <2>1 DEF Checked, IsLast
    <2>4. CASE i = index[u]
      BY <2>2, <2>4 DEF CheckPasses, Profile
    <2>5. CASE i # index[u]
      <3>1. i \in Checked(u)
        BY <1>3, <2>3, <2>5
      <3> QED
        BY <1>7, <2>2, <3>1 DEF LaunchAt, SawServices
    <2> QED
      BY <2>4, <2>5
  <1>8. Launches(u)' <=> Launches(u)
    BY <1>1 DEF Launches
  <1> QED
    BY <1>4, <1>5, <1>6, <1>7, <1>8 DEF LaunchAt

\* Where no command removes or adds, a registration stays as explained as it was.
LEMMA RegistrationRests ==
    ASSUME RegistrationStays, UNCHANGED <<job, registered, registry, torn>>,
           \A u \in Users : place[u] = "add" => place'[u] = "add" /\ index'[u] = index[u]
    PROVE  RegistrationStays'
  BY DEF RegistrationStays, Replacing, Profile

\* `codex mcp remove` and `codex mcp add` keep reported registrations explained, whoever else
\* is between the two.
LEMMA RegistrationsKept ==
    ASSUME LaunchTypeOK, \A u \in Users : InStep(u), RegistrationStays, LaunchNext
    PROVE  RegistrationStays'
  <1> USE DEF world, shell, ghosts
  <1>1. CASE Outside
    BY <1>1, RegistrationRests
       DEF Outside, ServiceRecovers, PullEnds, ServiceFails, DaemonDies
  <1>2. ASSUME NEW u \in Users, Undoctored(u) \/ DoctorLists(u) \/ DoctorChecks(u)
        PROVE  RegistrationStays'
    <2>1. /\ UNCHANGED job
          /\ \A v \in Users \ {u} : place'[v] = place[v] /\ index'[v] = index[v]
      BY <1>2, OwnTypesKept
    <2>2. \A v \in Users \ {u} : Profile(v)' = Profile(v)
      BY <2>1 DEF Profile
    <2>3. \A p : Replacing(p) => Replacing(p)' \/ (place[u] = "add" /\ Profile(u) = p)
      BY <2>1, <2>2 DEF Replacing
    <2>4. CASE RemoveRegistration(u)
      <3>1. /\ registry' = registry \ {Profile(u)} /\ UNCHANGED <<registered, torn>>
            /\ place[u] = "remove" /\ place'[u] = "add" /\ index'[u] = index[u]
        BY <2>4 DEF RemoveRegistration, AfterRemove, Goes, LaunchTypeOK
      <3>2. \A p : p = Profile(u) => Replacing(p)'
        BY <2>1, <3>1 DEF Replacing, Profile
      <3> QED
        BY <2>3, <3>1, <3>2 DEF RegistrationStays
    <2>5. CASE AddRegistration(u)
      <3>1. /\ registry' = registry \cup {Profile(u)} /\ registered' = registered \cup {Profile(u)}
            /\ torn' = torn \ {Profile(u)}
        BY <2>5 DEF AddRegistration
      <3> QED
        BY <2>3, <3>1 DEF RegistrationStays
    <2>6. CASE AddFails(u)
      <3>1. torn' = torn \cup ({Profile(u)} \ registry) /\ UNCHANGED <<registry, registered>>
        BY <2>6 DEF AddFails
      <3> QED
        BY <2>3, <3>1 DEF RegistrationStays
    <2>7. CASE ~(RemoveRegistration(u) \/ AddRegistration(u) \/ AddFails(u))
      <3>1. UNCHANGED <<registered, registry, torn>> /\ place[u] # "add"
        BY <1>2, <2>7 DEF Undoctored, Begin, Preflight, CodexAuth, StartDaemon, ComposeCloses,
             ComposeTimesOut, Probe, TimeRunsOut, Wakes, StopService, DoctorTools, DoctorLists, DoctorChecks
      <3> QED
        BY <2>1, <3>1, RegistrationRests
    <2> QED
      BY <2>4, <2>5, <2>6, <2>7
  <1> QED
    BY <1>1, <1>2, LaunchSteps

\* What holds of every state of the launches.
LaunchInv == LaunchTypeOK /\ (\A u \in Users : LaunchAt(u)) /\ RegistrationStays

\* A behaviour of the workstation that is about the daemon leaves every command of a launch at
\* its beginning.
LEMMA LaunchBegins ==
    ASSUME NEW jobs \in [Users -> Jobs], NEW up \in BOOLEAN, NEW checks \in SUBSET {"build", "login"},
           LaunchStart(jobs, up, checks)
    PROVE  LaunchInv
  <1>1. LaunchTypeOK
    <2>1. daemon \in BOOLEAN /\ tools \subseteq {"build", "login"} /\ job \in [Users -> Jobs]
      BY DEF LaunchStart
    <2>2. faults \in 0..MaxFaults
      BY LaunchAssumption DEF LaunchStart
    <2> QED
      BY <2>1, <2>2 DEF LaunchStart, LaunchTypeOK, Places
  <1>2. ASSUME NEW u \in Users PROVE LaunchAt(u)
    <2>1. job[u] \in JobType /\ job[u].profiles # <<>>
      BY LaunchAssumption DEF LaunchStart
    <2>2. job[u].profiles \in Seq(Profiles)
      BY <2>1 DEF JobType
    <2>3. place[u] = "idle" /\ index[u] = 1 /\ names[u] = {}
      BY DEF LaunchStart
    <2>4. index[u] \in 1 .. Len(job[u].profiles)
      BY <2>1, <2>2, <2>3
    <2> QED
      BY <2>3, <2>4 DEF LaunchAt, InStep, SawDaemon, Served, SawNames, SawServices, Checked
  <1>3. RegistrationStays
    BY DEF LaunchStart, RegistrationStays
  <1> QED
    BY <1>1, <1>2, <1>3 DEF LaunchInv

\* Every step of the workstation keeps it.
LEMMA LaunchKeeps ==
    ASSUME LaunchInv, [LaunchNext]_launchVars
    PROVE  LaunchInv'
  <1>1. /\ LaunchTypeOK /\ RegistrationStays
        /\ \A u \in Users : LaunchAt(u) /\ InStep(u)
    BY DEF LaunchInv, LaunchAt
  <1>2. CASE UNCHANGED launchVars
    <2>1. UNCHANGED <<container, pulling, registry, daemon, tools, job, place, index, late, failed,
                      doctored, names, lost, registered, torn, faults>>
      BY <1>2 DEF launchVars, world, shell, ghosts
    <2>2. LaunchTypeOK'
      BY <1>1, <2>1 DEF LaunchTypeOK
    <2>3. RegistrationStays'
      BY <1>1, <2>1 DEF RegistrationStays, Replacing, Profile
    <2>4. FactsAreLost
      BY <2>1, NoLoss, Zenon DEF FactsAreLost
    <2>5. \A u \in Users : LaunchAt(u)'
      BY <1>1, <2>1, <2>4, RestingLaunch
    <2> QED
      BY <2>2, <2>3, <2>5 DEF LaunchInv
  <1>3. CASE LaunchNext
    <2>1. LaunchTypeOK' /\ RegistrationStays' /\ FactsAreLost
      BY <1>1, <1>3, LaunchTypesKept, RegistrationsKept, LossesKept
    <2>2. CASE Outside
      <3>1. UNCHANGED shell
        BY <1>1, <2>2, OutsideTypesKept
      <3>2. \A u \in Users : LaunchAt(u)'
        BY <1>1, <2>1, <3>1, RestingLaunch DEF shell
      <3> QED
        BY <2>1, <3>2 DEF LaunchInv
    <2>3. ASSUME NEW v \in Users, Undoctored(v) \/ DoctorLists(v) \/ DoctorChecks(v)
          PROVE  LaunchInv'
      <3>1. LaunchAt(v)'
        BY <1>1, <2>1, <2>3, AdvancingLaunch, ListingLaunch, CheckingLaunch
      <3>2. ASSUME NEW u \in Users \ {v} PROVE LaunchAt(u)'
        BY <1>1, <2>1, <2>3, OwnTypesKept, RestingLaunch
      <3> QED
        BY <2>1, <3>1, <3>2 DEF LaunchInv
    <2> QED
      BY <1>3, <2>2, <2>3, LaunchSteps
  <1> QED
    BY <1>2, <1>3

\* It holds in every state of the workstation.
LEMMA LaunchInvariance == WorkSpec => []LaunchInv
  <1>1. WorkInit => LaunchInv
    <2>1. SUFFICES ASSUME WorkInit PROVE LaunchInv
      OBVIOUS
    <2>2. (CHOOSE jobs \in [Users -> Jobs] : TRUE) \in [Users -> Jobs]
      <3>1. PICK j \in Jobs : TRUE
        BY LaunchAssumption
      <3>2. [u \in Users |-> j] \in [Users -> Jobs]
        OBVIOUS
      <3> QED
        BY <3>2
    <2>3. \E jobs \in [Users -> Jobs], up \in BOOLEAN, checks \in SUBSET {"build", "login"} :
            LaunchStart(jobs, up, checks)
      BY <2>1, <2>2 DEF WorkInit, LaunchInit
    <2> QED
      BY <2>3, LaunchBegins
  <1>2. LaunchInv /\ [WorkNext]_workVars => LaunchInv'
    <2>1. [WorkNext]_workVars => [LaunchNext]_launchVars
      BY DEF WorkNext, Background, Launching, workVars
    <2> QED
      BY <2>1, LaunchKeeps
  <1> QED
    BY <1>1, <1>2, PTL DEF WorkSpec

\* When a launch reports that it is ready, its daemon runs and every service of its profiles is
\* healthy and registered, except for what was lost after its last look: for any number of
\* shells, profiles, jobs and faults (runLaunch, runDoctor, buildLaunchReport).
THEOREM ReportsStaySound == WorkSpec => []ReportsAreSound
  <1>1. LaunchInv => ReportsAreSound
    <2>1. SUFFICES ASSUME LaunchInv, NEW u \in Users, ReportsReady(u),
                          NEW f \in {Daemon} \cup {<<k, job[u].profiles[i]>> :
                                       k \in {"service", "registration"}, i \in DOMAIN job[u].profiles}
                   PROVE  Holds(f) \/ f \in lost[u]
      BY DEF LaunchInv, ReportsAreSound, ReadyIsReady
    <2>2. /\ Launches(u) /\ place[u] = "over" /\ failed[u] = {} /\ doctored[u] = "ok"
          /\ SawDaemon(u) /\ SawNames(u) /\ SawServices(u)
      BY <2>1 DEF LaunchInv, LaunchAt, ReportsReady, IsOk
    <2>3. CASE f = Daemon
      <3>1. daemon \/ Daemon \in lost[u]
        BY <2>2 DEF SawDaemon, Served
      <3>2. daemon \in BOOLEAN
        BY <2>1 DEF LaunchInv, LaunchTypeOK
      <3>3. CASE daemon
        BY <2>3, <3>2, <3>3 DEF Holds
      <3> QED
        BY <2>3, <3>1, <3>3
    <2>4. ASSUME NEW i \in DOMAIN job[u].profiles, NEW k \in {"service", "registration"},
                 f = <<k, job[u].profiles[i]>>
          PROVE  Holds(f) \/ f \in lost[u]
      <3>1. job[u].profiles \in Seq(Profiles)
        <4>1. job[u] \in JobType
          BY <2>1, LaunchAssumption DEF LaunchInv, LaunchTypeOK
        <4> QED
          BY <4>1 DEF JobType
      <3>2. i \in Checked(u)
        BY <2>2, <3>1 DEF Checked
      <3>3. /\ job[u].profiles[i] \in names[u]
            /\ container[job[u].profiles[i]] = "well" \/ <<"service", job[u].profiles[i]>> \in lost[u]
        BY <2>2, <3>2 DEF SawServices
      <3>4. job[u].profiles[i] \in registry \/ <<"registration", job[u].profiles[i]>> \in lost[u]
        BY <2>2, <3>3 DEF SawNames
      <3>5. f # Daemon /\ f[1] = k /\ f[2] = job[u].profiles[i]
        BY <2>4 DEF Daemon
      <3>6. CASE k = "service"
        BY <2>4, <3>3, <3>5, <3>6 DEF Holds
      <3>7. CASE k = "registration"
        BY <2>4, <3>4, <3>5, <3>7 DEF Holds
      <3> QED
        BY <3>6, <3>7
    <2> QED
      BY <2>1, <2>3, <2>4
  <1> QED
    BY <1>1, LaunchInvariance, PTL

\* A registration that a command reported stays, unless a command is between its remove and its
\* add, or its add failed: for any number of commands on the same profile (registerProfile).
THEOREM RegistrationsStay == WorkSpec => []RegistrationStays
  <1>1. LaunchInv => RegistrationStays
    BY DEF LaunchInv
  <1> QED
    BY <1>1, LaunchInvariance, PTL
=============================================================================
