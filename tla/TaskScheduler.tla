---------------------------- MODULE TaskScheduler ----------------------------
(***************************************************************************)
(* The task path of codex-synaptic: TaskScheduler (src/core/scheduler.ts)  *)
(* with the three objects its methods call synchronously through method    *)
(* calls and EventEmitter listeners: AgentRegistry (src/agents/registry.ts)*)
(* for the agent statuses, ResourceManager (src/core/resources.ts) for the *)
(* per-tenant task slots, and CodexSynapticSystem (src/core/system.ts) for *)
(* the execution of a task and the promise of the caller that waits for it.*)
(*                                                                         *)
(* Everything runs on one Node.js event loop.  A macrotask (a timer or an  *)
(* I/O callback) runs to its first await; the continuations of awaits are  *)
(* microtasks, run in FIFO order before the next macrotask.  The variable  *)
(* jobs is that microtask queue: an action with guard Quiet is a macrotask,*)
(* every other action runs Head(jobs).  A job put at the FRONT of jobs is  *)
(* not a microtask but the rest of the same synchronous block, split off   *)
(* so that an action makes one change at a time; no step can come between. *)
(***************************************************************************)
EXTENDS Integers, FiniteSets, SequencesExt

CONSTANTS
    Tasks,        \* the tasks a behaviour may submit
    Agents,       \* the agents it may deploy; their order is the insertion order of the Map
    Tenants,
    None,         \* "undefined" in the code: no agent, no tenant, no limit, no task
    TenantOf,     \* [Tasks -> Tenants \cup {None}]
    Priority,     \* [Tasks -> Int]
    Capable,      \* [Tasks -> SUBSET Agents]: the agents with every required capability
    HasDeadline,  \* the tasks submitted with a deadline
    Limits,       \* the values a tenant's maxConcurrentTasks may take, None for no quota
    MaxDeferrals, \* MAX_TASK_DEFERRAL_COUNT, 5 in the code
    BatchLimit,   \* tasks assigned by one processTasks, 10 in the code
    MaxHops       \* awaits of settled promises inside one executeTask

ASSUME TasksAssumption == IsFiniteSet(Tasks) /\ None \notin Tasks
ASSUME AgentsAssumption == Agents \subseteq Nat /\ IsFiniteSet(Agents) /\ None \notin Agents
ASSUME TenantsAssumption == None \notin Tenants /\ TenantOf \in [Tasks -> Tenants \cup {None}]
ASSUME TaskDataAssumption == /\ Priority \in [Tasks -> Int]
                             /\ Capable \in [Tasks -> SUBSET Agents]
                             /\ HasDeadline \subseteq Tasks
ASSUME LimitsAssumption == Limits \subseteq Nat \cup {None} /\ None \notin Nat
ASSUME BoundsAssumption == /\ MaxDeferrals \in Nat \ {0}
                           /\ BatchLimit \in Nat \ {0}
                           /\ MaxHops \in Nat

VARIABLES
    pendingTasks, runningTasks, completedTasks, \* the keys of the three Maps of the scheduler
    taskQueue,    \* tasks waiting for an agent, in assignment order
    status,       \* Task.status
    assignedTo,   \* Task.assignedTo
    deferrals,    \* taskDeferrals: quota refusals counted for a task, 0 for no entry
    pastDue,      \* tasks whose deadline has passed
    agentStatus,  \* AgentMetadata.status; "absent" before and "retired" after registration
    slots, limit, \* tenantTaskCounts and tenantTaskLimits of the ResourceManager
    starts,       \* how often executeTask was called for a task
    executing,    \* tasks whose executeTask promise has not settled
    promise,      \* what the caller waiting in waitForTaskResult has been told
    phase,        \* "up", "stopping" after scheduler.shutdown, "down" after system.shutdown
    jobs          \* the microtask queue

schedVars == <<pendingTasks, runningTasks, completedTasks, taskQueue, status,
               assignedTo, deferrals>>
vars == <<pendingTasks, runningTasks, completedTasks, taskQueue, status, assignedTo,
          deferrals, pastDue, agentStatus, slots, limit, starts, executing, promise,
          phase, jobs>>

TaskStatus  == {"none", "pending", "assigned", "running", "completed", "failed", "cancelled"}
AgentStatus == {"absent", "idle", "running", "error", "offline", "retired"}
Registered  == {a \in Agents : agentStatus[a] \notin {"absent", "retired"}}

\* control: where the one processTasks call in progress has got to.
ControlKinds == {"expire", "loop", "assigned", "dequeue", "refused", "unavailable"}
Job ==
    [kind : {"expire", "loop"}, task : {None},
     overdue : SUBSET Tasks,      \* expire: the expired tasks not yet failed
     avail : SUBSET Agents,       \* the list read by getAvailableAgents
     count : Nat]                 \* tasksProcessed; of an execute job, its awaits left
    \cup [kind : (ControlKinds \ {"expire", "loop"}) \cup {"execute"}, task : Tasks,
          overdue : SUBSET Tasks, avail : SUBSET Agents, count : Nat]

Expire(due) == [kind |-> "expire", task |-> None, overdue |-> due, avail |-> {}, count |-> 0]
Loop(av, n) == [kind |-> "loop", task |-> None, overdue |-> {}, avail |-> av, count |-> n]
Execute(t, h) == [kind |-> "execute", task |-> t, overdue |-> {}, avail |-> {}, count |-> h]
Await(k, t, av, n) == [kind |-> k, task |-> t, overdue |-> {}, avail |-> av, count |-> n]

Quiet == jobs = <<>>
Runs(k) == jobs # <<>> /\ Head(jobs).kind = k

Queued == {taskQueue[i] : i \in DOMAIN taskQueue}
OfTenant(S, n) == {t \in S : TenantOf[t] = n}

-----------------------------------------------------------------------------
(* Mutated forms, each a plausible bug of the definition it is named for.   *)

Released_Nothing(S) == slots
QuotaReached_OneMore(t) ==
    /\ TenantOf[t] # None
    /\ limit[TenantOf[t]] # None
    /\ slots[TenantOf[t]] > limit[TenantOf[t]]
QueueAfterFailure_Requeued(S) == taskQueue \o SetToSeq(S)
Told_Nobody(t, answer) == promise
ResultTimeout_OnlyRunning(t) ==
    /\ Quiet
    /\ t \in runningTasks
    /\ promise[t] = "waiting"
    /\ promise' = [promise EXCEPT ![t] = "rejected"]
    /\ runningTasks' = runningTasks \ {t}
    /\ completedTasks' = completedTasks \cup {t}
    /\ slots' = [n \in Tenants |-> IF n = TenantOf[t] /\ slots[n] > 0 THEN slots[n] - 1
                                   ELSE slots[n]]
    /\ status' = [status EXCEPT ![t] = "failed"]
    /\ UNCHANGED <<pendingTasks, taskQueue, assignedTo, deferrals, pastDue, agentStatus,
                   limit, starts, executing, phase, jobs>>

-----------------------------------------------------------------------------
(* Helpers of the handlers.                                                 *)

\* taskQueue.push and the stable sort: after the tasks of no lower priority.
InsertByPriority(q, t) ==
    InsertAt(q, Cardinality({i \in DOMAIN q : Priority[q[i]] >= Priority[t]}) + 1, t)

\* Array.shift, which does nothing to an empty queue.
Shifted == IF taskQueue = <<>> THEN <<>> ELSE Tail(taskQueue)

\* removeTaskFromQueue: its caller's task is the head of the queue.
QueueWithout(t) == Shifted

\* The status test of getAvailableAgents and of AgentRegistry.assignTask.
Available(a) == agentStatus[a] \in {"idle", "running"}

\* releaseTenantTaskSlot for every task of S: the count stops at zero.
Released(S) ==
    [n \in Tenants |->
        LET k == Cardinality(OfTenant(S, n)) IN IF k >= slots[n] THEN 0 ELSE slots[n] - k]

\* acquireTenantTaskSlot refuses only a tenant with a limit that is reached ...
QuotaReached(t) ==
    /\ TenantOf[t] # None
    /\ limit[TenantOf[t]] # None
    /\ slots[TenantOf[t]] >= limit[TenantOf[t]]

\* ... and counts a task only for a tenant that has a limit at that moment.
Acquired(t) ==
    [n \in Tenants |-> IF n = TenantOf[t] /\ limit[n] # None THEN slots[n] + 1 ELSE slots[n]]

\* Listeners of the system: attached until the end of CodexSynapticSystem.shutdown.
Listening == phase # "down"

\* resolveTaskPromise / rejectTaskPromise: only a tracker still in the Map is told.
Told(t, answer) ==
    IF Listening /\ promise[t] = "waiting" THEN [promise EXCEPT ![t] = answer] ELSE promise

\* updateAgentStatus on behalf of a listener of the system: unknown agents are ignored.
AgentOf(t, st) ==
    [a \in Agents |-> IF Listening /\ a = assignedTo[t] /\ a \in Registered
                      THEN st ELSE agentStatus[a]]

\* The running tasks handleAgentFailure takes from the agent of t, once t has
\* left runningTasks and onTaskFailedListener has set that agent to ERROR.
Orphans(t) ==
    IF Listening /\ assignedTo[t] \in Registered
    THEN {u \in runningTasks \ {t} : assignedTo[u] = assignedTo[t]}
    ELSE {}

\* handleAgentFailure(S): the tasks go back to pendingTasks; the queue is left alone.
QueueAfterFailure(S) == taskQueue

Reassign(S) ==
    /\ pendingTasks' = pendingTasks \cup S
    /\ taskQueue' = QueueAfterFailure(S)
    /\ assignedTo' = [u \in Tasks |-> IF u \in S THEN None ELSE assignedTo[u]]

\* A task leaves as FAILED and the taskFailed event is handled: its agent becomes
\* ERROR, and that event sends the agent's other running tasks back to pending.
Fail(t) ==
    LET orphans == Orphans(t) IN
    /\ runningTasks' = runningTasks \ ({t} \cup orphans)
    /\ completedTasks' = completedTasks \cup {t}
    /\ slots' = Released({t} \cup orphans)
    /\ status' = [u \in Tasks |-> IF u = t THEN "failed"
                                  ELSE IF u \in orphans THEN "pending" ELSE status[u]]
    /\ agentStatus' = AgentOf(t, "error")
    /\ Reassign(orphans)

\* failTask: only a task in runningTasks can fail, any other call is ignored.
FailTask(t) ==
    IF t \in runningTasks
    THEN Fail(t) /\ deferrals' = [deferrals EXCEPT ![t] = 0]
    ELSE UNCHANGED <<schedVars, slots, agentStatus>>

\* completeTask: the agent becomes IDLE, whatever else it is executing.
CompleteTask(t) ==
    IF t \in runningTasks
    THEN /\ runningTasks' = runningTasks \ {t}
         /\ completedTasks' = completedTasks \cup {t}
         /\ slots' = Released({t})
         /\ status' = [status EXCEPT ![t] = "completed"]
         /\ deferrals' = [deferrals EXCEPT ![t] = 0]
         /\ agentStatus' = AgentOf(t, "idle")
         /\ UNCHANGED <<pendingTasks, taskQueue, assignedTo>>
    ELSE UNCHANGED <<schedVars, slots, agentStatus>>

\* handleTaskAssignment after the await of agent.executeTask.
Settle(t) ==
    /\ executing' = executing \ {t}
    /\ \/ /\ CompleteTask(t)
          /\ promise' = IF t \in runningTasks THEN Told(t, "resolved") ELSE promise
       \/ /\ FailTask(t)
          /\ promise' = IF t \in runningTasks THEN Told(t, "rejected") ELSE promise

-----------------------------------------------------------------------------
Init ==
    /\ pendingTasks = {} /\ runningTasks = {} /\ completedTasks = {}
    /\ taskQueue = <<>>
    /\ status = [t \in Tasks |-> "none"]
    /\ assignedTo = [t \in Tasks |-> None]
    /\ deferrals = [t \in Tasks |-> 0]
    /\ pastDue = {}
    /\ agentStatus = [a \in Agents |-> "absent"]
    /\ slots = [n \in Tenants |-> 0]
    /\ limit \in [Tenants -> Limits]
    /\ starts = [t \in Tasks |-> 0]
    /\ executing = {}
    /\ promise = [t \in Tasks |-> "none"]
    /\ phase = "up"
    /\ jobs = <<>>

(* Macrotasks.                                                              *)

\* submitTask, then waitForTaskResult in the same synchronous block.
SubmitTask(t) ==
    /\ Quiet
    /\ status[t] = "none"
    /\ status' = [status EXCEPT ![t] = "pending"]
    /\ pendingTasks' = pendingTasks \cup {t}
    /\ taskQueue' = InsertByPriority(taskQueue, t)
    /\ promise' = [promise EXCEPT ![t] = "waiting"]
    /\ UNCHANGED <<runningTasks, completedTasks, assignedTo, deferrals, pastDue,
                   agentStatus, slots, limit, starts, executing, phase, jobs>>

\* The one-second interval enters processTasks and collects the expired tasks.
ProcessTasks ==
    /\ Quiet
    /\ phase = "up"
    /\ taskQueue # <<>>
    /\ jobs' = <<Expire(runningTasks \cap pastDue)>>
    /\ UNCHANGED <<schedVars, pastDue, agentStatus, slots, limit, starts, executing,
                   promise, phase>>

\* The promise of an executeTask that did real I/O settles.
ExecutionSettles(t) ==
    /\ Quiet
    /\ t \in executing
    /\ Settle(t)
    /\ UNCHANGED <<pastDue, limit, starts, phase, jobs>>

\* The timer of waitForTaskResult: the tracker is dropped, then the task failed.
ResultTimeout(t) ==
    /\ Quiet
    /\ promise[t] = "waiting"
    /\ promise' = [promise EXCEPT ![t] = "rejected"]
    /\ FailTask(t)
    /\ UNCHANGED <<pastDue, limit, starts, executing, phase, jobs>>

DeadlinePasses(t) ==
    /\ Quiet
    /\ t \in HasDeadline \ pastDue
    /\ pastDue' = pastDue \cup {t}
    /\ UNCHANGED <<schedVars, agentStatus, slots, limit, starts, executing, promise,
                   phase, jobs>>

\* checkAgentHeartbeats marks an agent OFFLINE; handleAgentFailure follows.  An idle
\* agent is spared: publishIdleHeartbeats refreshes it before the 90 seconds.
AgentMissesHeartbeat(a) ==
    LET affected == {u \in runningTasks : assignedTo[u] = a} IN
    /\ Quiet
    /\ phase = "up"
    /\ agentStatus[a] \in {"running", "error"}
    /\ agentStatus' = [agentStatus EXCEPT ![a] = "offline"]
    /\ runningTasks' = runningTasks \ affected
    /\ slots' = Released(affected)
    /\ status' = [u \in Tasks |-> IF u \in affected THEN "pending" ELSE status[u]]
    /\ Reassign(affected)
    /\ UNCHANGED <<completedTasks, deferrals, pastDue, limit, starts, executing,
                   promise, phase, jobs>>

\* deployAgent: registered and IDLE at once; ids are fresh, agents join in Map order.
DeployAgent(a) ==
    /\ Quiet
    /\ agentStatus[a] = "absent"
    /\ \A b \in Agents : b < a => agentStatus[b] # "absent"
    /\ agentStatus' = [agentStatus EXCEPT ![a] = "idle"]
    /\ UNCHANGED <<schedVars, pastDue, slots, limit, starts, executing, promise, phase,
                   jobs>>

\* retireIdleWorkers unregisters an IDLE agent; its running tasks are not touched.
RetireAgent(a) ==
    /\ Quiet
    /\ agentStatus[a] = "idle"
    /\ agentStatus' = [agentStatus EXCEPT ![a] = "retired"]
    /\ UNCHANGED <<schedVars, pastDue, slots, limit, starts, executing, promise, phase,
                   jobs>>

\* registerTenantQuota: an operator changes a quota; the counts stay as they are.
RegisterTenantQuota(n, q) ==
    /\ Quiet
    /\ limit[n] # q
    /\ limit' = [limit EXCEPT ![n] = q]
    /\ UNCHANGED <<schedVars, pastDue, agentStatus, slots, starts, executing, promise,
                   phase, jobs>>

\* TaskScheduler.shutdown: running tasks are CANCELLED where they are.
SchedulerShutdown ==
    /\ Quiet
    /\ phase = "up"
    /\ phase' = "stopping"
    /\ status' = [t \in Tasks |-> IF t \in runningTasks THEN "cancelled" ELSE status[t]]
    /\ UNCHANGED <<pendingTasks, runningTasks, completedTasks, taskQueue, assignedTo,
                   deferrals, pastDue, agentStatus, slots, limit, starts, executing,
                   promise, jobs>>

\* The finally block of CodexSynapticSystem.shutdown: every waiting caller is rejected.
SystemDown ==
    /\ Quiet
    /\ phase = "stopping"
    /\ phase' = "down"
    /\ promise' = [t \in Tasks |-> IF promise[t] = "waiting" THEN "rejected" ELSE promise[t]]
    /\ UNCHANGED <<schedVars, pastDue, agentStatus, slots, limit, starts, executing, jobs>>

-----------------------------------------------------------------------------
(* The rest of processTasks, and the microtasks it awaits.                  *)

\* checkExpiredTasks: each task collected before the loop is failed, also one that
\* the failure of an earlier one has already sent back to pending.  (In any order:
\* the code follows the insertion order of runningTasks.)
ExpireTask ==
    /\ Runs("expire")
    /\ \E t \in Head(jobs).overdue :
        /\ jobs' = <<Expire(Head(jobs).overdue \ {t})>> \o Tail(jobs)
        /\ promise' = Told(t, "rejected")
        /\ Fail(t)
    /\ UNCHANGED <<deferrals, pastDue, limit, starts, executing, phase>>

\* The list of available agents is read once, before the loop.
EnterLoop ==
    /\ Runs("expire")
    /\ Head(jobs).overdue = {}
    /\ jobs' = <<Loop({a \in Agents : Available(a)}, 0)>> \o Tail(jobs)
    /\ UNCHANGED <<schedVars, pastDue, agentStatus, slots, limit, starts, executing,
                   promise, phase>>

\* The agents of the list that are still registered and have the capabilities.
Suitable(t) == Head(jobs).avail \cap Registered \cap Capable[t]

Proceeds == taskQueue # <<>> /\ Head(jobs).count < BatchLimit
            /\ Suitable(Head(taskQueue)) # {}

\* The queue is empty, the batch is full, or nobody can run the head: return.
LeaveLoop ==
    /\ Runs("loop")
    /\ ~Proceeds
    /\ jobs' = Tail(jobs)
    /\ UNCHANGED <<schedVars, pastDue, agentStatus, slots, limit, starts, executing,
                   promise, phase>>

\* acquireTenantTaskSlot throws out of assignTaskToAgent before anything is changed.
RefuseHead ==
    /\ Runs("loop")
    /\ Proceeds
    /\ QuotaReached(Head(taskQueue))
    /\ jobs' = Append(Tail(jobs), Await("refused", Head(taskQueue), Head(jobs).avail,
                                        Head(jobs).count))
    /\ UNCHANGED <<schedVars, pastDue, agentStatus, slots, limit, starts, executing,
                   promise, phase>>

\* A slot is taken and the first suitable agent of the list is asked.  It may have
\* become unavailable since the list was read; otherwise the task starts executing,
\* either with real I/O or settling after h microtasks.
AssignHead ==
    /\ Runs("loop")
    /\ Proceeds
    /\ ~QuotaReached(Head(taskQueue))
    /\ LET t == Head(taskQueue)
           resume(k) == Await(k, t, Head(jobs).avail, Head(jobs).count)
       IN \E a \in Suitable(t) :
       /\ \A b \in Suitable(t) : a <= b
       /\ slots' = Acquired(t)
       /\ assignedTo' = [assignedTo EXCEPT ![t] = a]
       /\ status' = [status EXCEPT ![t] = "assigned"]
       /\ pendingTasks' = pendingTasks \ {t}
       /\ runningTasks' = runningTasks \cup {t}
       /\ \/ /\ Available(a)
             /\ agentStatus' = [agentStatus EXCEPT ![a] = "running"]
             /\ starts' = [starts EXCEPT ![t] = @ + 1]
             /\ executing' = executing \cup {t}
             /\ \/ jobs' = Append(Tail(jobs), resume("assigned"))
                \/ \E h \in 0..MaxHops :
                   jobs' = Append(Append(Tail(jobs), Execute(t, h)), resume("assigned"))
          \/ /\ ~Available(a)
             /\ jobs' = Append(Tail(jobs), resume("unavailable"))
             /\ UNCHANGED <<agentStatus, starts, executing>>
    /\ UNCHANGED <<completedTasks, taskQueue, deferrals, pastDue, limit, promise, phase>>

\* executeTask awaits a promise that is already settled.
ExecuteTask ==
    /\ Runs("execute")
    /\ Head(jobs).count > 0
    /\ jobs' = Append(Tail(jobs), Execute(Head(jobs).task, Head(jobs).count - 1))
    /\ UNCHANGED <<schedVars, pastDue, agentStatus, slots, limit, starts, executing,
                   promise, phase>>

\* executeTask has settled within this run of the microtask queue.
ExecutionReturns ==
    /\ Runs("execute")
    /\ Head(jobs).count = 0
    /\ jobs' = Tail(jobs)
    /\ Settle(Head(jobs).task)
    /\ UNCHANGED <<pastDue, limit, starts, phase>>

\* assignTaskToAgent resumes after its await and marks the task RUNNING, whatever
\* has happened to it meanwhile.
TaskAssigned ==
    /\ Runs("assigned")
    /\ status' = [status EXCEPT ![Head(jobs).task] = "running"]
    /\ jobs' = Append(Tail(jobs), [Head(jobs) EXCEPT !.kind = "dequeue"])
    /\ UNCHANGED <<pendingTasks, runningTasks, completedTasks, taskQueue, assignedTo,
                   deferrals, pastDue, agentStatus, slots, limit, starts, executing,
                   promise, phase>>

\* processTasks resumes: shift the queue, next turn of the loop.
Dequeue ==
    /\ Runs("dequeue")
    /\ taskQueue' = Shifted
    /\ deferrals' = [deferrals EXCEPT ![Head(jobs).task] = 0]
    /\ jobs' = <<Loop(Head(jobs).avail, Head(jobs).count + 1)>> \o Tail(jobs)
    /\ UNCHANGED <<pendingTasks, runningTasks, completedTasks, status, assignedTo,
                   pastDue, agentStatus, slots, limit, starts, executing, promise, phase>>

\* The registry threw: assignTaskToAgent undoes the assignment and rethrows; the
\* error is no quota error, so processTasks leaves the loop with the task at the head.
AgentUnavailable ==
    /\ Runs("unavailable")
    /\ LET t == Head(jobs).task IN
       /\ slots' = Released({t})
       /\ status' = [status EXCEPT ![t] = "pending"]
       /\ assignedTo' = [assignedTo EXCEPT ![t] = None]
       /\ runningTasks' = runningTasks \ {t}
       /\ pendingTasks' = pendingTasks \cup {t}
    /\ jobs' = Tail(jobs)
    /\ UNCHANGED <<completedTasks, taskQueue, deferrals, pastDue, agentStatus, limit,
                   starts, executing, promise, phase>>

\* handleTenantQuotaDeferral: a limit of zero, or the fifth refusal, gives up; a later
\* refusal than the first may also come five seconds after it.
GivesUp(t) ==
    \/ limit[TenantOf[t]] = 0
    \/ deferrals[t] + 1 >= MaxDeferrals

QuotaDeferred ==
    /\ Runs("refused")
    /\ ~GivesUp(Head(jobs).task)
    /\ deferrals' = [deferrals EXCEPT ![Head(jobs).task] = @ + 1]
    /\ jobs' = Tail(jobs)
    /\ UNCHANGED <<pendingTasks, runningTasks, completedTasks, taskQueue, status,
                   assignedTo, pastDue, agentStatus, slots, limit, starts, executing,
                   promise, phase>>

\* failPendingTask with its listeners (a refused task has no agent to blame), then
\* the next turn of the loop.
QuotaFails ==
    /\ Runs("refused")
    /\ LET t == Head(jobs).task IN
       /\ GivesUp(t) \/ deferrals[t] > 0
       /\ pendingTasks' = pendingTasks \ {t}
       /\ runningTasks' = runningTasks \ {t}
       /\ completedTasks' = completedTasks \cup {t}
       /\ taskQueue' = QueueWithout(t)
       /\ status' = [status EXCEPT ![t] = "failed"]
       /\ deferrals' = [deferrals EXCEPT ![t] = 0]
       /\ promise' = Told(t, "rejected")
       /\ jobs' = <<Loop(Head(jobs).avail, Head(jobs).count + 1)>> \o Tail(jobs)
    /\ UNCHANGED <<assignedTo, pastDue, agentStatus, slots, limit, starts, executing, phase>>

Microtask == \/ ExpireTask \/ EnterLoop \/ LeaveLoop \/ RefuseHead \/ AssignHead
             \/ ExecuteTask \/ ExecutionReturns \/ TaskAssigned \/ Dequeue
             \/ AgentUnavailable \/ QuotaDeferred \/ QuotaFails

Next ==
    \/ \E t \in Tasks : \/ SubmitTask(t) \/ ExecutionSettles(t)
                         \/ ResultTimeout(t) \/ DeadlinePasses(t)
    \/ \E a \in Agents : DeployAgent(a) \/ RetireAgent(a) \/ AgentMissesHeartbeat(a)
    \/ \E n \in Tenants, q \in Limits : RegisterTenantQuota(n, q)
    \/ ProcessTasks \/ SchedulerShutdown \/ SystemDown
    \/ Microtask

\* Node drains the microtask queue, and runs a due timer although other macrotasks keep
\* coming in between (strong fairness); it promises nothing else.
Fairness == /\ WF_vars(Microtask)
            /\ \A t \in Tasks : SF_vars(ResultTimeout(t))

Spec == Init /\ [][Next]_vars /\ Fairness
-----------------------------------------------------------------------------
(* Properties.                                                              *)

\* Every variable has its type: in particular no tenant's slot count is negative.
TypeOK ==
    /\ pendingTasks \subseteq Tasks
    /\ runningTasks \subseteq Tasks
    /\ completedTasks \subseteq Tasks
    /\ taskQueue \in Seq(Tasks)
    /\ status \in [Tasks -> TaskStatus]
    /\ assignedTo \in [Tasks -> Agents \cup {None}]
    /\ deferrals \in [Tasks -> Nat]
    /\ pastDue \subseteq HasDeadline
    /\ agentStatus \in [Agents -> AgentStatus]
    /\ slots \in [Tenants -> Nat]
    /\ limit \in [Tenants -> Limits]
    /\ starts \in [Tasks -> Nat]
    /\ executing \subseteq Tasks
    /\ promise \in [Tasks -> {"none", "waiting", "resolved", "rejected"}]
    /\ phase \in {"up", "stopping", "down"}
    /\ jobs \in Seq(Job)

\* submitTask's sort, the shift of processTasks and the removals of failPendingTask
\* keep the queue in assignment order at every step.
QueueSorted ==
    \A i, j \in DOMAIN taskQueue : i < j => Priority[taskQueue[i]] >= Priority[taskQueue[j]]

\* Between two turns of the event loop a queued task is pending and nothing else, and
\* is queued once: whatever interleaving of assignments, failures and expirations.
QueuedIsPending ==
    Quiet => /\ Queued \subseteq pendingTasks \ (runningTasks \cup completedTasks)
             /\ Cardinality(Queued) = Len(taskQueue)

\* The scheduler, the agents and the system together keep TaskContract: no agent is
\* handed a task twice, no waiter is answered twice, or resolved by anything but the
\* end of its own task's execution.
Contract ==
    INSTANCE TaskContract WITH
        work   <- [t \in Tasks |-> IF starts[t] = 0 THEN "unstarted"
                                   ELSE IF starts[t] = 1 /\ t \in executing THEN "going on"
                                   ELSE IF starts[t] = 1 THEN "over" ELSE "repeated"],
        answer <- promise
KeepsContract == Contract!Spec

\* Nobody waits for a task the scheduler has filed as completed or failed.
NoForgottenWaiter == \A t \in completedTasks : promise[t] # "waiting"

\* Quota slots do not leak: a tenant never has more slots taken than tasks in
\* runningTasks, so when its tasks are gone it can run its full quota again.
NoSlotLeak == \A n \in Tenants : slots[n] <= Cardinality(OfTenant(runningTasks, n))

\* Where quotas are fixed and no deadline is set, the count is exact ...
SlotsMatchRunning ==
    Quiet => \A n \in Tenants :
                slots[n] = IF limit[n] = None THEN 0 ELSE Cardinality(OfTenant(runningTasks, n))

\* ... and the quota holds at every step: runningTasks has no more tasks of a tenant
\* than maxConcurrentTasks.
QuotaHolds ==
    \A n \in Tenants : limit[n] # None => Cardinality(OfTenant(runningTasks, n)) <= limit[n]

\* Between two turns of the event loop no running task belongs to an agent that is in
\* ERROR or OFFLINE: every failure is followed by handleAgentFailure before another
\* task can be given to the agent.
FailedAgentHoldsNothing ==
    Quiet => \A t \in runningTasks :
                assignedTo[t] \in Agents /\ agentStatus[assignedTo[t]] \notin {"error", "offline"}

\* The scheduler's books agree with one another and with the callers: no interleaving of
\* assignments, failures, expirations and timeouts leaves the queue out of order, a task in two
\* places, a running task with a failed agent or a filed task with a caller that still waits.
BooksAreSound ==
    /\ QueueSorted
    /\ QueuedIsPending
    /\ FailedAgentHoldsNothing
    /\ NoForgottenWaiter

\* Under a fixed quota, and without deadlines, slots are counted exactly and the quota holds.
QuotaIsKept == SlotsMatchRunning /\ QuotaHolds

\* The caller of executeTask is answered in the end, whatever becomes of its task.
EveryWaiterAnswered == \A t \in Tasks : promise[t] = "waiting" ~> promise[t] # "waiting"

\* handleAgentFailure logs "Task reassigned due to agent failure": a pending task is in
\* the queue, where processTasks looks for work.
PendingIsQueued == Quiet => pendingTasks \ completedTasks \subseteq Queued

\* docs/architecture/multi-tenancy.md: the scheduler respects quotas under concurrency.
\* A step that gives a task of a tenant to an agent leaves no more than the quota
\* running.
AssignmentRespectsQuota ==
    [][\A n \in Tenants :
         limit[n] # None /\ OfTenant(runningTasks' \ runningTasks, n) # {}
           => Cardinality(OfTenant(runningTasks', n)) <= limit[n]]_vars

\* getTasksByStatus looks in completedTasks for the tasks that are completed, failed or
\* cancelled, and nowhere else: a filed task has one of these statuses.
FiledIsFinal ==
    Quiet => \A t \in completedTasks : status[t] \in {"completed", "failed", "cancelled"}
=============================================================================
