------------------------ MODULE TaskScheduler_proofs ------------------------
(***************************************************************************)
(* Proofs about the task path, for every set of tasks, agents and tenants, *)
(* every limit and every bound.  First its type correctness; then, from    *)
(* the invariant IInv, which says what the microtask queue promises while  *)
(* a processTasks call and executions of tasks are suspended in it: the    *)
(* books are sound, slots do not leak, the scheduler implements            *)
(* TaskContract, and with quotas that are fixed, and no deadlines, a       *)
(* tenant never has more running tasks than its quota.                     *)
(***************************************************************************)
EXTENDS TaskScheduler, FiniteSetTheorems, SequenceTheorems, TLAPS

USE TasksAssumption, AgentsAssumption, TenantsAssumption, TaskDataAssumption,
    LimitsAssumption, BoundsAssumption

\* The positions of a queue of n entries are finite, and n of them.
LEMMA PositionsCount ==
    ASSUME NEW n \in Nat
    PROVE  IsFiniteSet(1..n) /\ Cardinality(1..n) = n
<1>1. 1 \in Int /\ n \in Int
  OBVIOUS
<1>2. IsFiniteSet(1..n) /\ Cardinality(1..n) = IF 1 > n THEN 0 ELSE n - 1 + 1
  BY ONLY <1>1, FS_Interval, Zenon
<1>3. (IF 1 > n THEN 0 ELSE n - 1 + 1) = n
  OBVIOUS
<1>4. QED
  BY <1>2, <1>3

\* What the sort of submitTask leaves in the queue.
LEMMA InsertByPriorityType ==
    ASSUME NEW q \in Seq(Tasks), NEW t \in Tasks
    PROVE  InsertByPriority(q, t) \in Seq(Tasks)
<1> DEFINE before == {i \in DOMAIN q : Priority[q[i]] >= Priority[t]}
<1>1. IsFiniteSet(1..Len(q)) /\ Cardinality(1..Len(q)) = Len(q)
  <2>1. Len(q) \in Nat
    OBVIOUS
  <2>2. QED
    BY ONLY <2>1, PositionsCount, Zenon
<1>2. Cardinality(before) \in 0..Len(q)
  BY <1>1, FS_Subset, FS_CardinalityType
<1> DEFINE k == Cardinality(before) + 1
<1>3. SubSeq(q, 1, k - 1) \in Seq(Tasks)
  <2>1. \A i \in 1..k - 1 : q[i] \in Tasks
    BY <1>2
  <2>2. QED
    BY <2>1, <1>2, SubSeqProperties
<1>4. SubSeq(q, k, Len(q)) \in Seq(Tasks)
  <2>1. \A i \in k..Len(q) : q[i] \in Tasks
    BY <1>2
  <2>2. QED
    BY <2>1, <1>2, SubSeqProperties
<1>5. InsertByPriority(q, t) = SubSeq(q, 1, k - 1) \o <<t>> \o SubSeq(q, k, Len(q))
  BY DEF InsertByPriority, InsertAt
<1>6. QED
  BY <1>3, <1>4, <1>5

\* Slot counts stay natural numbers on every path that gives slots back.
LEMMA ReleasedType ==
    ASSUME TypeOK, NEW S \in SUBSET Tasks
    PROVE  Released(S) \in [Tenants -> Nat]
<1>1. \A n \in Tenants : Cardinality(OfTenant(S, n)) \in Nat
  BY FS_Subset, FS_CardinalityType DEF OfTenant
<1>2. QED
  BY <1>1 DEF Released, TypeOK

\* The jobs the handlers make are jobs, and a job has the fields of its kind.
LEMMA JobsMade ==
    ASSUME NEW t \in Tasks, NEW n \in Nat, NEW av \in SUBSET Agents, NEW due \in SUBSET Tasks
    PROVE  /\ Expire(due) \in Job
           /\ Loop(av, n) \in Job
           /\ Execute(t, n) \in Job
           /\ \A k \in ControlKinds \ {"expire", "loop"} : Await(k, t, av, n) \in Job
  BY DEF Expire, Loop, Execute, Await, Job, ControlKinds

\* A job of a kind has the fields that kind is used with.
LEMMA JobFields ==
    ASSUME NEW j \in Job
    PROVE  /\ j.overdue \in SUBSET Tasks
           /\ j.avail \in SUBSET Agents
           /\ j.count \in Nat
           /\ j.kind \notin {"expire", "loop"} => j.task \in Tasks
  BY DEF Job, ControlKinds

\* What the next microtask runs is a job, and the rest are jobs.
LEMMA HeadOfJobs ==
    ASSUME TypeOK, jobs # <<>>
    PROVE  Head(jobs) \in Job /\ Tail(jobs) \in Seq(Job)
  BY DEF TypeOK

\* The head of a queue that is not empty is a task.
LEMMA HeadOfQueue ==
    ASSUME TypeOK, taskQueue # <<>>
    PROVE  Head(taskQueue) \in Tasks /\ Tail(taskQueue) \in Seq(Tasks)
  BY DEF TypeOK

\* Array.shift leaves a queue of tasks.
LEMMA ShiftedType ==
    ASSUME TypeOK PROVE Shifted \in Seq(Tasks)
  BY DEF TypeOK, Shifted

\* handleAgentFailure takes running tasks only.
LEMMA OrphansType ==
    ASSUME TypeOK, NEW t \in Tasks
    PROVE  Orphans(t) \in SUBSET Tasks
  BY DEF TypeOK, Orphans

\* updateAgentStatus sets statuses an agent can have.
LEMMA AgentOfType ==
    ASSUME TypeOK, NEW t \in Tasks, NEW st \in AgentStatus
    PROVE  AgentOf(t, st) \in [Agents -> AgentStatus]
  BY DEF TypeOK, AgentOf

\* Answering waiters keeps every promise one of its four states.
LEMMA ToldType ==
    ASSUME TypeOK, NEW t \in Tasks, NEW answer \in {"resolved", "rejected"}
    PROVE  Told(t, answer) \in [Tasks -> {"none", "waiting", "resolved", "rejected"}]
  BY DEF TypeOK, Told

\* The part of TypeOK that failTask and completeTask can disturb.
SchedTypes ==
    /\ pendingTasks \subseteq Tasks
    /\ runningTasks \subseteq Tasks
    /\ completedTasks \subseteq Tasks
    /\ taskQueue \in Seq(Tasks)
    /\ status \in [Tasks -> TaskStatus]
    /\ assignedTo \in [Tasks -> Agents \cup {None}]
    /\ deferrals \in [Tasks -> Nat]
    /\ agentStatus \in [Agents -> AgentStatus]
    /\ slots \in [Tenants -> Nat]

\* The two ways out of runningTasks keep the types of what they change.
LEMMA FailType ==
    ASSUME TypeOK, NEW t \in Tasks, Fail(t), deferrals' \in [Tasks -> Nat]
    PROVE  SchedTypes'
<1>1. Orphans(t) \in SUBSET Tasks
  BY OrphansType
<1>2. slots' \in [Tenants -> Nat]
  BY <1>1, ReleasedType DEF Fail
<1>3. agentStatus' \in [Agents -> AgentStatus]
  BY AgentOfType DEF Fail, AgentStatus
<1>4. status' \in [Tasks -> TaskStatus]
  BY <1>1 DEF Fail, TypeOK, TaskStatus
<1>5. assignedTo' \in [Tasks -> Agents \cup {None}] /\ taskQueue' \in Seq(Tasks)
      /\ pendingTasks' \subseteq Tasks
  BY <1>1 DEF Fail, Reassign, QueueAfterFailure, TypeOK
<1>6. runningTasks' \subseteq Tasks /\ completedTasks' \subseteq Tasks
  BY DEF Fail, TypeOK
<1>7. QED
  BY <1>2, <1>3, <1>4, <1>5, <1>6 DEF SchedTypes

\* failTask keeps the types.
LEMMA FailTaskType ==
    ASSUME TypeOK, NEW t \in Tasks, FailTask(t)
    PROVE  SchedTypes'
<1>1. CASE t \in runningTasks
  <2>1. deferrals' \in [Tasks -> Nat]
    BY <1>1 DEF FailTask, TypeOK
  <2>2. QED
    BY <1>1, <2>1, FailType DEF FailTask
<1>2. CASE t \notin runningTasks
  BY <1>2 DEF FailTask, schedVars, TypeOK, SchedTypes
<1>3. QED
  BY <1>1, <1>2

\* completeTask keeps the types.
LEMMA CompleteTaskType ==
    ASSUME TypeOK, NEW t \in Tasks, CompleteTask(t)
    PROVE  SchedTypes'
<1>1. CASE t \in runningTasks
  <2>1. slots' \in [Tenants -> Nat]
    BY <1>1, ReleasedType DEF CompleteTask
  <2>2. agentStatus' \in [Agents -> AgentStatus]
    BY <1>1, AgentOfType DEF CompleteTask, AgentStatus
  <2>3. /\ status' \in [Tasks -> TaskStatus]
        /\ deferrals' \in [Tasks -> Nat]
    <3>1. /\ status' = [status EXCEPT ![t] = "completed"]
          /\ deferrals' = [deferrals EXCEPT ![t] = 0]
      BY <1>1 DEF CompleteTask
    <3>2. QED
      BY <3>1 DEF TypeOK, TaskStatus
  <2>4. UNCHANGED <<pendingTasks, taskQueue, assignedTo>>
    BY <1>1 DEF CompleteTask
  <2>5. runningTasks' \subseteq Tasks /\ completedTasks' \subseteq Tasks
    BY <1>1 DEF CompleteTask, TypeOK
  <2>6. QED
    BY <2>1, <2>2, <2>3, <2>4, <2>5 DEF TypeOK, SchedTypes
<1>2. CASE t \notin runningTasks
  BY <1>2 DEF CompleteTask, schedVars, TypeOK, SchedTypes
<1>3. QED
  BY <1>1, <1>2

\* The end of an execution, told to scheduler and waiter, keeps the types.
LEMMA SettleType ==
    ASSUME TypeOK, NEW t \in Tasks, Settle(t)
    PROVE  /\ SchedTypes'
           /\ executing' \subseteq Tasks
           /\ promise' \in [Tasks -> {"none", "waiting", "resolved", "rejected"}]
<1>1. executing' \subseteq Tasks
  BY DEF Settle, TypeOK
<1>2. promise' \in [Tasks -> {"none", "waiting", "resolved", "rejected"}]
  <2>1. /\ Told(t, "resolved") \in [Tasks -> {"none", "waiting", "resolved", "rejected"}]
        /\ Told(t, "rejected") \in [Tasks -> {"none", "waiting", "resolved", "rejected"}]
    BY ToldType
  <2>2. promise' \in {promise, Told(t, "resolved"), Told(t, "rejected")}
    BY DEF Settle
  <2>3. QED
    BY <2>1, <2>2 DEF TypeOK
<1>3. SchedTypes'
  BY FailTaskType, CompleteTaskType DEF Settle
<1>4. QED
  BY <1>1, <1>2, <1>3

-----------------------------------------------------------------------------
\* The initial states have their types.
LEMMA InitType == Init => TypeOK
<1>1. \A S : <<>> \in Seq(S)
  OBVIOUS
<1>2. QED
  BY <1>1 DEF Init, TypeOK, TaskStatus, AgentStatus

\* A microtask keeps the types.
LEMMA MicrotaskType == ASSUME TypeOK, Microtask PROVE TypeOK'
<1> USE JobFields, HeadOfJobs
<1>1. CASE ExpireTask
  <2>1. PICK t \in Head(jobs).overdue :
          /\ jobs' = <<Expire(Head(jobs).overdue \ {t})>> \o Tail(jobs)
          /\ promise' = Told(t, "rejected")
          /\ Fail(t)
    BY <1>1 DEF ExpireTask
  <2>2. Head(jobs) \in Job /\ Tail(jobs) \in Seq(Job) /\ t \in Tasks
    BY <1>1, <2>1 DEF ExpireTask, Runs
  <2>3. Expire(Head(jobs).overdue \ {t}) \in Job
    BY <2>2 DEF Expire, Job
  <2>4. jobs' \in Seq(Job)
    BY <2>1, <2>2, <2>3
  <2>5. promise' \in [Tasks -> {"none", "waiting", "resolved", "rejected"}]
    BY <2>1, <2>2, ToldType
  <2>6. SchedTypes'
    BY <1>1, <2>1, <2>2, FailType DEF ExpireTask, TypeOK
  <2>7. QED
    BY <1>1, <2>4, <2>5, <2>6 DEF ExpireTask, SchedTypes, TypeOK
<1>2. CASE EnterLoop
  <2>1. Loop({a \in Agents : Available(a)}, 0) \in Job
    BY DEF Loop, Job
  <2>2. jobs' \in Seq(Job)
    BY <1>2, <2>1 DEF EnterLoop, Runs
  <2>3. QED
    BY <1>2, <2>2 DEF EnterLoop, TypeOK, schedVars
<1>3. CASE LeaveLoop
  BY <1>3 DEF LeaveLoop, Runs, TypeOK, schedVars
<1>4. CASE RefuseHead
  <2>1. Head(taskQueue) \in Tasks
    BY <1>4, HeadOfQueue DEF RefuseHead, Proceeds
  <2>2. Await("refused", Head(taskQueue), Head(jobs).avail, Head(jobs).count) \in Job
    BY <1>4, <2>1, JobsMade DEF RefuseHead, Runs, ControlKinds
  <2>3. jobs' \in Seq(Job)
    BY <1>4, <2>2 DEF RefuseHead, Runs
  <2>4. QED
    BY <1>4, <2>3 DEF RefuseHead, TypeOK, schedVars
<1>5. CASE AssignHead
  <2> DEFINE t == Head(taskQueue)
             resume(k) == Await(k, t, Head(jobs).avail, Head(jobs).count)
  <2>1. t \in Tasks /\ Head(jobs) \in Job /\ Tail(jobs) \in Seq(Job)
    BY <1>5, HeadOfQueue DEF AssignHead, Proceeds, Runs
  <2>2. slots' \in [Tenants -> Nat]
    BY <1>5 DEF AssignHead, Acquired, TypeOK
  <2>3. PICK a \in Suitable(t) :
          /\ assignedTo' = [assignedTo EXCEPT ![t] = a]
          /\ \/ /\ agentStatus' = [agentStatus EXCEPT ![a] = "running"]
                /\ starts' = [starts EXCEPT ![t] = @ + 1]
                /\ executing' = executing \cup {t}
             \/ UNCHANGED <<agentStatus, starts, executing>>
    BY <1>5 DEF AssignHead
  <2>4. a \in Agents
    BY <2>3 DEF Suitable, Registered
  <2>5. status' = [status EXCEPT ![t] = "assigned"]
    BY <1>5 DEF AssignHead
  <2>6. /\ pendingTasks' = pendingTasks \ {t}
        /\ runningTasks' = runningTasks \cup {t}
    BY <1>5 DEF AssignHead
  <2>7. /\ resume("assigned") \in Job
        /\ resume("unavailable") \in Job
        /\ \A h \in 0..MaxHops : Execute(t, h) \in Job
    <3>1. Head(jobs).avail \in SUBSET Agents /\ Head(jobs).count \in Nat
      BY <2>1
    <3>2. \A k \in {"assigned", "unavailable"} : resume(k) \in Job
      BY <2>1, <3>1, JobsMade DEF ControlKinds
    <3>3. \A h \in 0..MaxHops : Execute(t, h) \in Job
      BY <2>1 DEF Execute, Job
    <3>4. QED
      BY <3>2, <3>3
  <2>8. \/ jobs' = Append(Tail(jobs), resume("assigned"))
        \/ \E h \in 0..MaxHops :
             jobs' = Append(Append(Tail(jobs), Execute(t, h)), resume("assigned"))
        \/ jobs' = Append(Tail(jobs), resume("unavailable"))
    BY <1>5 DEF AssignHead
  <2>9. UNCHANGED <<completedTasks, taskQueue, deferrals, pastDue, limit, promise, phase>>
    BY <1>5 DEF AssignHead
  <2> HIDE DEF t, resume
  <2>10. jobs' \in Seq(Job)
    <3>1. Append(Tail(jobs), resume("assigned")) \in Seq(Job)
      BY <2>1, <2>7
    <3>2. Append(Tail(jobs), resume("unavailable")) \in Seq(Job)
      BY <2>1, <2>7
    <3>3. ASSUME NEW h \in 0..MaxHops
          PROVE  Append(Append(Tail(jobs), Execute(t, h)), resume("assigned")) \in Seq(Job)
      BY <2>1, <2>7
    <3>4. QED
      BY <2>8, <3>1, <3>2, <3>3
  <2>11. assignedTo' \in [Tasks -> Agents \cup {None}]
    BY <2>3, <2>4 DEF TypeOK
  <2>12. status' \in [Tasks -> TaskStatus]
    BY <2>5 DEF TypeOK, TaskStatus
  <2>13. agentStatus' \in [Agents -> AgentStatus]
    BY <2>3 DEF TypeOK, AgentStatus
  <2>14. starts' \in [Tasks -> Nat]
    BY <2>3 DEF TypeOK
  <2>15. executing' \subseteq Tasks /\ pendingTasks' \subseteq Tasks /\ runningTasks' \subseteq Tasks
    BY <2>1, <2>3, <2>6 DEF TypeOK
  <2>16. QED
    BY <2>2, <2>9, <2>10, <2>11, <2>12, <2>13, <2>14, <2>15 DEF TypeOK
<1>6. CASE ExecuteTask
  <2>1. Execute(Head(jobs).task, Head(jobs).count - 1) \in Job
    BY <1>6 DEF ExecuteTask, Runs, Execute, Job, ControlKinds
  <2>2. jobs' \in Seq(Job)
    BY <1>6, <2>1 DEF ExecuteTask, Runs
  <2>3. QED
    BY <1>6, <2>2 DEF ExecuteTask, TypeOK, schedVars
<1>7. CASE ExecutionReturns
  <2>1. Head(jobs).task \in Tasks /\ jobs' \in Seq(Job)
    BY <1>7 DEF ExecutionReturns, Runs
  <2>2. QED
    BY <1>7, <2>1, SettleType DEF ExecutionReturns, SchedTypes, TypeOK
<1>8. CASE TaskAssigned
  <2>1. [Head(jobs) EXCEPT !.kind = "dequeue"] \in Job
    BY <1>8 DEF TaskAssigned, Runs, Job, ControlKinds
  <2>2. jobs' \in Seq(Job)
    BY <1>8, <2>1 DEF TaskAssigned, Runs
  <2>3. QED
    BY <1>8, <2>2 DEF TaskAssigned, TypeOK, TaskStatus
<1>9. CASE Dequeue
  <2>1. Loop(Head(jobs).avail, Head(jobs).count + 1) \in Job
    BY <1>9 DEF Dequeue, Runs, Loop, Job
  <2>2. jobs' \in Seq(Job)
    BY <1>9, <2>1 DEF Dequeue, Runs
  <2>3. taskQueue' \in Seq(Tasks)
    BY <1>9, ShiftedType DEF Dequeue
  <2>4. QED
    BY <1>9, <2>2, <2>3 DEF Dequeue, TypeOK
<1>10. CASE AgentUnavailable
  <2>1. Head(jobs).task \in Tasks /\ jobs' \in Seq(Job)
    BY <1>10 DEF AgentUnavailable, Runs
  <2>2. slots' \in [Tenants -> Nat]
    BY <1>10, <2>1, ReleasedType DEF AgentUnavailable
  <2>3. QED
    BY <1>10, <2>1, <2>2 DEF AgentUnavailable, TypeOK, TaskStatus
<1>11. CASE QuotaDeferred
  <2>1. jobs' \in Seq(Job)
    BY <1>11 DEF QuotaDeferred, Runs
  <2>2. PICK u \in Tasks : deferrals' = [deferrals EXCEPT ![u] = @ + 1]
    <3>1. Head(jobs).task \in Tasks
      BY <1>11 DEF QuotaDeferred, Runs
    <3>2. QED
      BY <1>11, <3>1 DEF QuotaDeferred
  <2>3. deferrals' \in [Tasks -> Nat]
    BY <2>2 DEF TypeOK
  <2>4. QED
    BY <1>11, <2>1, <2>3 DEF QuotaDeferred, TypeOK
<1>12. CASE QuotaFails
  <2> DEFINE t == Head(jobs).task
  <2>1. t \in Tasks /\ Loop(Head(jobs).avail, Head(jobs).count + 1) \in Job
    BY <1>12 DEF QuotaFails, Runs, Loop, Job
  <2>2. jobs' \in Seq(Job)
    BY <1>12, <2>1 DEF QuotaFails, Runs
  <2>3. promise' \in [Tasks -> {"none", "waiting", "resolved", "rejected"}]
    BY <1>12, <2>1, ToldType DEF QuotaFails
  <2>4. taskQueue' \in Seq(Tasks)
    BY <1>12, ShiftedType DEF QuotaFails, QueueWithout
  <2>5. /\ status' = [status EXCEPT ![t] = "failed"]
        /\ deferrals' = [deferrals EXCEPT ![t] = 0]
        /\ UNCHANGED <<assignedTo, pastDue, agentStatus, slots, limit, starts, executing,
                       phase>>
    BY <1>12 DEF QuotaFails
  <2>6. status' \in [Tasks -> TaskStatus] /\ deferrals' \in [Tasks -> Nat]
    BY <2>5 DEF TypeOK, TaskStatus
  <2>7. pendingTasks' \subseteq Tasks /\ runningTasks' \subseteq Tasks
        /\ completedTasks' \subseteq Tasks
    BY <1>12, <2>1 DEF QuotaFails, TypeOK
  <2>8. QED
    BY <2>2, <2>3, <2>4, <2>5, <2>6, <2>7 DEF TypeOK
<1>13. QED
  BY <1>1, <1>2, <1>3, <1>4, <1>5, <1>6, <1>7, <1>8, <1>9, <1>10, <1>11, <1>12
     DEF Microtask

\* Every step keeps the types.
LEMMA StepType == TypeOK /\ [Next]_vars => TypeOK'
<1> SUFFICES ASSUME TypeOK, [Next]_vars PROVE TypeOK'
  OBVIOUS
<1>1. ASSUME NEW t \in Tasks, SubmitTask(t) PROVE TypeOK'
  <2>1. taskQueue' \in Seq(Tasks)
    BY <1>1, InsertByPriorityType DEF SubmitTask, TypeOK
  <2>2. QED
    BY <1>1, <2>1 DEF SubmitTask, TypeOK, TaskStatus
<1>2. ASSUME NEW t \in Tasks, ExecutionSettles(t) PROVE TypeOK'
  BY <1>2, SettleType DEF ExecutionSettles, SchedTypes, TypeOK
<1>3. ASSUME NEW t \in Tasks, ResultTimeout(t) PROVE TypeOK'
  BY <1>3, FailTaskType DEF ResultTimeout, SchedTypes, TypeOK
<1>4. ASSUME NEW t \in Tasks, DeadlinePasses(t) PROVE TypeOK'
  BY <1>4 DEF DeadlinePasses, TypeOK, schedVars
<1>5. ASSUME NEW a \in Agents, DeployAgent(a) PROVE TypeOK'
  BY <1>5 DEF DeployAgent, TypeOK, AgentStatus, schedVars
<1>6. ASSUME NEW a \in Agents, RetireAgent(a) PROVE TypeOK'
  BY <1>6 DEF RetireAgent, TypeOK, AgentStatus, schedVars
<1>7. ASSUME NEW a \in Agents, AgentMissesHeartbeat(a) PROVE TypeOK'
  <2> DEFINE affected == {u \in runningTasks : assignedTo[u] = a}
  <2>1. affected \in SUBSET Tasks
    BY DEF TypeOK
  <2>2. slots' \in [Tenants -> Nat]
    BY <1>7, <2>1, ReleasedType DEF AgentMissesHeartbeat
  <2>3. status' \in [Tasks -> TaskStatus] /\ agentStatus' \in [Agents -> AgentStatus]
    BY <1>7 DEF AgentMissesHeartbeat, TypeOK, TaskStatus, AgentStatus
  <2>4. assignedTo' \in [Tasks -> Agents \cup {None}] /\ taskQueue' \in Seq(Tasks)
        /\ pendingTasks' \subseteq Tasks /\ runningTasks' \subseteq Tasks
    BY <1>7, <2>1 DEF AgentMissesHeartbeat, Reassign, QueueAfterFailure, TypeOK
  <2>5. QED
    BY <1>7, <2>2, <2>3, <2>4 DEF AgentMissesHeartbeat, TypeOK
<1>8. ASSUME NEW n \in Tenants, NEW q \in Limits, RegisterTenantQuota(n, q) PROVE TypeOK'
  BY <1>8 DEF RegisterTenantQuota, TypeOK, schedVars
<1>9. CASE ProcessTasks
  <2>1. Expire(runningTasks \cap pastDue) \in Job
    BY DEF Expire, Job, TypeOK
  <2>2. jobs' \in Seq(Job)
    BY <1>9, <2>1 DEF ProcessTasks
  <2>3. QED
    BY <1>9, <2>2 DEF ProcessTasks, TypeOK, schedVars
<1>10. CASE SchedulerShutdown
  BY <1>10 DEF SchedulerShutdown, TypeOK, TaskStatus
<1>11. CASE SystemDown
  BY <1>11 DEF SystemDown, TypeOK, schedVars
<1>12. CASE Microtask
  BY <1>12, MicrotaskType
<1>13. CASE UNCHANGED vars
  BY <1>13 DEF vars, TypeOK
<1>14. QED
  BY <1>1, <1>2, <1>3, <1>4, <1>5, <1>6, <1>7, <1>8, <1>9, <1>10, <1>11, <1>12, <1>13
     DEF Next

\* Every variable of TaskScheduler keeps its type: no slot count goes below zero, only
\* known tasks are queued and running, and only jobs are in the microtask queue.
THEOREM TypeCorrect == Spec => []TypeOK
  BY InitType, StepType, PTL DEF Spec

-----------------------------------------------------------------------------
(* The microtask queue.                                                     *)

Timeless == {"expire", "loop"}   \* the jobs that are the rest of a synchronous block

\* The tasks of the suspended jobs of a kind, and the tasks still to be expired.
TasksOf(js, k) == {js[i].task : i \in {i \in DOMAIN js : js[i].kind = k}}
DueOf(js) == UNION {js[i].overdue : i \in {i \in DOMAIN js : js[i].kind = "expire"}}

OnlyExecutions(js) == \A i \in DOMAIN js : js[i].kind = "execute"

\* At most one job belongs to processTasks, the rest of a block comes first, and no
\* task has two executions under way.
InOrder(js) ==
    /\ \A i \in DOMAIN js : js[i].kind \in Timeless => i = 1
    /\ \A i, j \in DOMAIN js : i # j => js[i].kind = "execute" \/ js[j].kind = "execute"
    /\ \A i, j \in DOMAIN js : i # j /\ js[i].kind = "execute" /\ js[j].kind = "execute"
                                 => js[i].task # js[j].task

\* What is suspended: the tasks whose assignment, dequeueing, rejection by the registry or
\* refusal by the quota is about to be handled, those executing, and those to be expired.
Suspended(js, assigned, dequeue, unavailable, refused, execute, due) ==
    /\ TasksOf(js, "assigned") = assigned
    /\ TasksOf(js, "dequeue") = dequeue
    /\ TasksOf(js, "unavailable") = unavailable
    /\ TasksOf(js, "refused") = refused
    /\ TasksOf(js, "execute") = execute
    /\ DueOf(js) = due

\* An empty queue suspends nothing.
LEMMA NoJobs == InOrder(<<>>) /\ Suspended(<<>>, {}, {}, {}, {}, {}, {})
  BY DEF InOrder, Suspended, TasksOf, DueOf

\* Taking the first job leaves the others, none of them the rest of a block.
LEMMA TailJobs ==
    ASSUME NEW js \in Seq(Job), js # <<>>, InOrder(js)
    PROVE  /\ InOrder(Tail(js))
           /\ \A i \in DOMAIN Tail(js) : Tail(js)[i].kind \notin Timeless
           /\ Head(js).kind # "execute" => OnlyExecutions(Tail(js))
           /\ Head(js).kind = "execute" => Head(js).task \notin TasksOf(Tail(js), "execute")
           /\ \A k : TasksOf(js, k) = TasksOf(Tail(js), k)
                                      \cup (IF Head(js).kind = k THEN {Head(js).task} ELSE {})
           /\ DueOf(js) = IF Head(js).kind = "expire" THEN Head(js).overdue ELSE {}
           /\ DueOf(Tail(js)) = {}
<1> DEFINE tl == Tail(js)
<1>1. /\ Len(tl) = Len(js) - 1 /\ Len(js) \in Nat \ {0}
      /\ \A i \in 1..Len(js) - 1 : tl[i] = js[i + 1]
      /\ Head(js) = js[1]
      /\ DOMAIN js = 1..Len(js) /\ DOMAIN tl = 1..Len(js) - 1
  OBVIOUS
<1> HIDE DEF tl
<1>10. \A i \in DOMAIN tl : i + 1 \in DOMAIN js /\ i + 1 # 1 /\ tl[i] = js[i + 1]
  BY <1>1
<1>11. 1 \in DOMAIN js
  BY <1>1
<1>2. \A i \in DOMAIN tl : tl[i].kind \notin Timeless
  BY <1>10 DEF InOrder
<1>3. InOrder(tl)
  <2>1. ASSUME NEW i \in DOMAIN tl, NEW j \in DOMAIN tl, i # j
        PROVE  /\ tl[i].kind = "execute" \/ tl[j].kind = "execute"
               /\ tl[i].kind = "execute" /\ tl[j].kind = "execute" => tl[i].task # tl[j].task
    <3>1. /\ i + 1 \in DOMAIN js /\ j + 1 \in DOMAIN js /\ i + 1 # j + 1
          /\ tl[i] = js[i + 1] /\ tl[j] = js[j + 1]
      BY <1>1, <1>10, <2>1
    <3>2. QED
      BY <3>1 DEF InOrder
  <2>2. QED
    BY <1>2, <2>1 DEF InOrder
<1>4. Head(js).kind # "execute" => OnlyExecutions(tl)
  BY <1>1, <1>10, <1>11 DEF InOrder, OnlyExecutions
<1>5. Head(js).kind = "execute" => Head(js).task \notin TasksOf(tl, "execute")
  BY <1>1, <1>10, <1>11 DEF InOrder, TasksOf
<1>6. ASSUME NEW k
      PROVE  TasksOf(js, k) = TasksOf(tl, k)
                              \cup (IF Head(js).kind = k THEN {Head(js).task} ELSE {})
  <2>1. ASSUME NEW t \in TasksOf(js, k)
        PROVE  t \in TasksOf(tl, k) \/ (Head(js).kind = k /\ t = Head(js).task)
    <3>1. PICK i \in 1..Len(js) : js[i].kind = k /\ t = js[i].task
      BY <1>1 DEF TasksOf
    <3>2. CASE i = 1
      BY <1>1, <3>1, <3>2
    <3>3. CASE i # 1
      <4>1. i - 1 \in 1..Len(js) - 1 /\ tl[i - 1] = js[i]
        BY <1>1, <3>3
      <4>2. QED
        BY <1>1, <3>1, <4>1 DEF TasksOf
    <3>4. QED
      BY <3>2, <3>3
  <2>2. ASSUME NEW t \in TasksOf(tl, k) PROVE t \in TasksOf(js, k)
    <3>1. PICK i \in 1..Len(js) - 1 : tl[i].kind = k /\ t = tl[i].task
      BY <1>1 DEF TasksOf
    <3>2. i + 1 \in 1..Len(js) /\ tl[i] = js[i + 1]
      BY <1>1
    <3>3. QED
      BY <1>1, <3>1, <3>2 DEF TasksOf
  <2>3. Head(js).kind = k => Head(js).task \in TasksOf(js, k)
    BY <1>1 DEF TasksOf
  <2>4. QED
    BY <2>1, <2>2, <2>3
<1>7. DueOf(tl) = {}
  BY <1>2 DEF DueOf, Timeless
<1>8. DueOf(js) = IF Head(js).kind = "expire" THEN Head(js).overdue ELSE {}
  <2>1. \A i \in DOMAIN js : js[i].kind = "expire" => i = 1
    BY DEF InOrder, Timeless
  <2>2. QED
    BY <1>1, <1>11, <2>1 DEF DueOf
<1>9. QED
  BY <1>2, <1>3, <1>4, <1>5, <1>6, <1>7, <1>8 DEF tl

\* Without the rest of a block nothing is left to expire.
LEMMA NothingDue ==
    ASSUME NEW js \in Seq(Job), \A i \in DOMAIN js : js[i].kind \notin Timeless
    PROVE  DueOf(js) = {}
  BY DEF DueOf, Timeless

\* Between executions nothing else is suspended.
LEMMA OnlyExecutionsSuspended ==
    ASSUME NEW js \in Seq(Job), OnlyExecutions(js)
    PROVE  /\ InOrder(js) => Suspended(js, {}, {}, {}, {}, TasksOf(js, "execute"), {})
           /\ \A i \in DOMAIN js : js[i].kind \notin Timeless
  BY DEF OnlyExecutions, Suspended, TasksOf, DueOf, Timeless

\* Queueing a continuation.
LEMMA AppendJob ==
    ASSUME NEW js \in Seq(Job), InOrder(js), NEW x \in Job, x.kind \notin Timeless,
           \A i \in DOMAIN js : js[i].kind \notin Timeless,
           x.kind # "execute" => OnlyExecutions(js),
           x.kind = "execute" => x.task \notin TasksOf(js, "execute")
    PROVE  /\ InOrder(Append(js, x))
           /\ Append(js, x) \in Seq(Job)
           /\ \A i \in DOMAIN Append(js, x) : Append(js, x)[i].kind \notin Timeless
           /\ \A k : TasksOf(Append(js, x), k) = TasksOf(js, k)
                                                 \cup (IF x.kind = k THEN {x.task} ELSE {})
<1> DEFINE q == Append(js, x)
<1>1. /\ Len(q) = Len(js) + 1 /\ Len(js) \in Nat /\ q \in Seq(Job)
      /\ \A i \in 1..Len(js) : q[i] = js[i]
      /\ q[Len(js) + 1] = x
      /\ DOMAIN q = 1..Len(js) + 1 /\ DOMAIN js = 1..Len(js)
  OBVIOUS
<1> HIDE DEF q
<1>2. \A i \in DOMAIN q : q[i].kind \notin Timeless
  BY <1>1
<1>3. ASSUME NEW i \in DOMAIN q, NEW j \in DOMAIN q, i # j
      PROVE  /\ q[i].kind = "execute" \/ q[j].kind = "execute"
             /\ q[i].kind = "execute" /\ q[j].kind = "execute" => q[i].task # q[j].task
  BY <1>1, <1>3 DEF InOrder, OnlyExecutions, TasksOf
<1>4. InOrder(q)
  BY <1>2, <1>3 DEF InOrder
<1>5. ASSUME NEW k
      PROVE  TasksOf(q, k) = TasksOf(js, k) \cup (IF x.kind = k THEN {x.task} ELSE {})
  BY <1>1 DEF TasksOf
<1>6. QED
  BY <1>1, <1>2, <1>4, <1>5 DEF q

\* Queueing the continuation of processTasks.
LEMMA AppendContinuation ==
    ASSUME NEW js \in Seq(Job), InOrder(js), OnlyExecutions(js), NEW x \in Job,
           x.kind \in {"assigned", "dequeue", "unavailable", "refused"}
    PROVE  LET mine(k) == IF x.kind = k THEN {x.task} ELSE {} IN
           /\ InOrder(Append(js, x))
           /\ Suspended(Append(js, x), mine("assigned"), mine("dequeue"), mine("unavailable"),
                        mine("refused"), TasksOf(js, "execute"), {})
<1>1. x.kind \notin Timeless /\ x.kind # "execute"
  BY DEF Timeless
<1>2. \A i \in DOMAIN js : js[i].kind \notin Timeless
  BY OnlyExecutionsSuspended
<1>3. /\ InOrder(Append(js, x)) /\ Append(js, x) \in Seq(Job)
      /\ \A i \in DOMAIN Append(js, x) : Append(js, x)[i].kind \notin Timeless
  BY <1>1, <1>2, AppendJob
<1>4. \A k : TasksOf(Append(js, x), k) = TasksOf(js, k)
                                        \cup (IF x.kind = k THEN {x.task} ELSE {})
  BY <1>1, <1>2, AppendJob
<1>5. DueOf(Append(js, x)) = {}
  BY <1>3, NothingDue
<1>6. \A k \in {"assigned", "dequeue", "unavailable", "refused"} : TasksOf(js, k) = {}
  BY DEF TasksOf, OnlyExecutions
<1>7. QED
  BY <1>1, <1>3, <1>4, <1>5, <1>6 DEF Suspended

\* Queueing the continuation of an execution whose task has no other one queued.
LEMMA AppendExecution ==
    ASSUME NEW js \in Seq(Job), InOrder(js), NEW x \in Job, x.kind = "execute",
           \A i \in DOMAIN js : js[i].kind \notin Timeless,
           x.task \notin TasksOf(js, "execute")
    PROVE  /\ InOrder(Append(js, x)) /\ Append(js, x) \in Seq(Job)
           /\ OnlyExecutions(js) => OnlyExecutions(Append(js, x))
           /\ Suspended(Append(js, x), TasksOf(js, "assigned"), TasksOf(js, "dequeue"),
                        TasksOf(js, "unavailable"), TasksOf(js, "refused"),
                        TasksOf(js, "execute") \cup {x.task}, {})
<1>1. x.kind \notin Timeless
  BY DEF Timeless
<1>2. /\ InOrder(Append(js, x)) /\ Append(js, x) \in Seq(Job)
      /\ \A i \in DOMAIN Append(js, x) : Append(js, x)[i].kind \notin Timeless
  BY <1>1, AppendJob
<1>3. \A k : TasksOf(Append(js, x), k) = TasksOf(js, k)
                                        \cup (IF x.kind = k THEN {x.task} ELSE {})
  BY <1>1, AppendJob
<1>4. DueOf(Append(js, x)) = {}
  BY <1>2, NothingDue
<1>5. OnlyExecutions(js) => OnlyExecutions(Append(js, x))
  BY DEF OnlyExecutions
<1>6. QED
  BY <1>2, <1>3, <1>4, <1>5 DEF Suspended

\* Putting the rest of a block first.
LEMMA FrontJob ==
    ASSUME NEW js \in Seq(Job), InOrder(js), OnlyExecutions(js), NEW x \in Job, x.kind \in Timeless
    PROVE  /\ InOrder(<<x>> \o js)
           /\ Suspended(<<x>> \o js, {}, {}, {}, {}, TasksOf(js, "execute"),
                        IF x.kind = "expire" THEN x.overdue ELSE {})
<1> DEFINE q == <<x>> \o js
<1>1. /\ Len(q) = Len(js) + 1 /\ Len(js) \in Nat
      /\ q[1] = x
      /\ \A i \in 1..Len(js) : q[i + 1] = js[i]
      /\ DOMAIN q = 1..Len(js) + 1 /\ DOMAIN js = 1..Len(js)
  OBVIOUS
<1> HIDE DEF q
<1>2. ASSUME NEW i \in DOMAIN q, i # 1 PROVE q[i].kind = "execute" /\ q[i] = js[i - 1] /\ i - 1 \in DOMAIN js
  <2>1. i - 1 \in 1..Len(js) /\ (i - 1) + 1 = i
    BY <1>1, <1>2
  <2>2. QED
    BY <1>1, <2>1 DEF OnlyExecutions
<1>3. q[1].kind \in Timeless /\ q[1].kind # "execute"
  BY <1>1 DEF Timeless
<1>4. \A i, j \in DOMAIN q : i # j /\ i # 1 /\ j # 1 => q[i].task # q[j].task
  <2>1. ASSUME NEW i \in DOMAIN q, NEW j \in DOMAIN q, i # j, i # 1, j # 1
        PROVE  q[i].task # q[j].task
    <3>1. /\ i - 1 \in DOMAIN js /\ j - 1 \in DOMAIN js /\ i - 1 # j - 1
          /\ js[i - 1].kind = "execute" /\ js[j - 1].kind = "execute"
          /\ q[i] = js[i - 1] /\ q[j] = js[j - 1]
      BY <1>1, <1>2, <2>1
    <3>2. QED
      BY <3>1 DEF InOrder
  <2>2. QED
    BY <2>1
<1>5. InOrder(q)
  BY <1>2, <1>3, <1>4 DEF InOrder, Timeless
<1>6. ASSUME NEW k, k \notin Timeless PROVE TasksOf(q, k) = TasksOf(js, k)
  <2>1. ASSUME NEW t \in TasksOf(q, k) PROVE t \in TasksOf(js, k)
    <3>1. PICK i \in DOMAIN q : q[i].kind = k /\ t = q[i].task
      BY DEF TasksOf
    <3>2. i # 1
      BY <1>3, <1>6, <3>1
    <3>3. QED
      BY <1>2, <3>1, <3>2 DEF TasksOf
  <2>2. ASSUME NEW t \in TasksOf(js, k) PROVE t \in TasksOf(q, k)
    <3>1. PICK i \in DOMAIN js : js[i].kind = k /\ t = js[i].task
      BY DEF TasksOf
    <3>2. i + 1 \in DOMAIN q /\ q[i + 1] = js[i]
      BY <1>1
    <3>3. QED
      BY <3>1, <3>2 DEF TasksOf
  <2>3. QED
    BY <2>1, <2>2
<1>7. DueOf(q) = IF x.kind = "expire" THEN x.overdue ELSE {}
  <2>1. \A i \in DOMAIN q : q[i].kind = "expire" => i = 1
    BY <1>2
  <2>2. 1 \in DOMAIN q /\ q[1] = x
    BY <1>1
  <2>3. {i \in DOMAIN q : q[i].kind = "expire"} = IF x.kind = "expire" THEN {1} ELSE {}
    BY <2>1, <2>2
  <2>4. QED
    BY <2>2, <2>3 DEF DueOf
<1>8. QED
  <2>1. \A k \in {"assigned", "dequeue", "unavailable", "refused"} : TasksOf(q, k) = {}
    <3>1. Suspended(js, {}, {}, {}, {}, TasksOf(js, "execute"), {})
      BY OnlyExecutionsSuspended
    <3>2. \A k \in {"assigned", "dequeue", "unavailable", "refused"} : TasksOf(js, k) = {}
      BY <3>1 DEF Suspended
    <3>3. QED
      BY <1>6, <3>2 DEF Timeless
  <2>2. TasksOf(q, "execute") = TasksOf(js, "execute")
    BY <1>6 DEF Timeless
  <2>3. QED
    BY <1>5, <1>7, <2>1, <2>2 DEF Suspended, q

\* While processTasks has the next microtask, nothing else of it is suspended.
LEMMA HeadOfProcessTasks ==
    ASSUME TypeOK, InOrder(jobs), jobs # <<>>, Head(jobs).kind # "execute"
    PROVE  LET mine(k) == IF Head(jobs).kind = k THEN {Head(jobs).task} ELSE {} IN
           /\ InOrder(Tail(jobs)) /\ OnlyExecutions(Tail(jobs)) /\ Tail(jobs) \in Seq(Job)
           /\ Head(jobs) \in Job
           /\ Suspended(jobs, mine("assigned"), mine("dequeue"), mine("unavailable"),
                        mine("refused"), TasksOf(jobs, "execute"),
                        IF Head(jobs).kind = "expire" THEN Head(jobs).overdue ELSE {})
           /\ Suspended(Tail(jobs), {}, {}, {}, {}, TasksOf(jobs, "execute"), {})
<1>1. jobs \in Seq(Job) /\ Head(jobs) \in Job /\ Tail(jobs) \in Seq(Job)
  BY DEF TypeOK
<1>2. InOrder(Tail(jobs)) /\ OnlyExecutions(Tail(jobs))
  BY <1>1, TailJobs
<1>3. Suspended(Tail(jobs), {}, {}, {}, {}, TasksOf(Tail(jobs), "execute"), {})
  BY <1>1, <1>2, OnlyExecutionsSuspended
<1>4. \A k : TasksOf(jobs, k) = TasksOf(Tail(jobs), k)
                               \cup (IF Head(jobs).kind = k THEN {Head(jobs).task} ELSE {})
  BY <1>1, TailJobs
<1>5. DueOf(jobs) = IF Head(jobs).kind = "expire" THEN Head(jobs).overdue ELSE {}
  BY <1>1, TailJobs
<1>6. TasksOf(jobs, "execute") = TasksOf(Tail(jobs), "execute")
  BY <1>4
<1>7. QED
  BY <1>1, <1>2, <1>3, <1>4, <1>5, <1>6 DEF Suspended

\* While an execution has the next microtask, it is the only one of its task.
LEMMA HeadOfExecution ==
    ASSUME TypeOK, InOrder(jobs), jobs # <<>>, Head(jobs).kind = "execute"
    PROVE  /\ InOrder(Tail(jobs)) /\ Tail(jobs) \in Seq(Job)
           /\ Head(jobs) \in Job
           /\ \A i \in DOMAIN Tail(jobs) : Tail(jobs)[i].kind \notin Timeless
           /\ Head(jobs).task \in TasksOf(jobs, "execute")
           /\ DueOf(jobs) = {}
           /\ Suspended(Tail(jobs), TasksOf(jobs, "assigned"), TasksOf(jobs, "dequeue"),
                        TasksOf(jobs, "unavailable"), TasksOf(jobs, "refused"),
                        TasksOf(jobs, "execute") \ {Head(jobs).task}, {})
<1>1. jobs \in Seq(Job) /\ Head(jobs) \in Job /\ Tail(jobs) \in Seq(Job)
  BY DEF TypeOK
<1>2. \A k : TasksOf(jobs, k) = TasksOf(Tail(jobs), k)
                               \cup (IF Head(jobs).kind = k THEN {Head(jobs).task} ELSE {})
  BY <1>1, TailJobs
<1>3. /\ DueOf(jobs) = {} /\ DueOf(Tail(jobs)) = {}
      /\ InOrder(Tail(jobs))
      /\ \A i \in DOMAIN Tail(jobs) : Tail(jobs)[i].kind \notin Timeless
      /\ Head(jobs).task \notin TasksOf(Tail(jobs), "execute")
  BY <1>1, TailJobs
<1>4. QED
  BY <1>1, <1>2, <1>3 DEF Suspended

-----------------------------------------------------------------------------
(* The task queue.                                                          *)

EntriesOf(q) == {q[i] : i \in DOMAIN q}
Sorted(q) == \A i, j \in DOMAIN q : i < j => Priority[q[i]] >= Priority[q[j]]
NoneTwice(q) == \A i, j \in DOMAIN q : q[i] = q[j] => i = j

\* A set of positions that has with each position every earlier one is an initial segment.
LEMMA InitialSegment ==
    ASSUME NEW n \in Nat, NEW D \in SUBSET (1..n),
           \A i \in D : \A j \in 1..i : j \in D
    PROVE  Cardinality(D) \in 0..n /\ \A i \in 1..n : i \in D <=> i <= Cardinality(D)
<1>1. ASSUME NEW m \in Nat, NEW E \in SUBSET (1..m)
      PROVE  IsFiniteSet(E) /\ Cardinality(E) \in Nat /\ Cardinality(E) <= m
  <2> DEFINE N == 1..m
  <2>1. IsFiniteSet(N) /\ Cardinality(N) = m /\ E \in SUBSET N
    BY PositionsCount
  <2> HIDE DEF N
  <2>2. IsFiniteSet(E) /\ Cardinality(E) <= Cardinality(N)
    BY <2>1, FS_Subset
  <2>3. QED
    BY <2>1, <2>2, FS_CardinalityType
<1>2. IsFiniteSet(D) /\ Cardinality(D) \in Nat /\ Cardinality(D) <= n
  BY <1>1
<1>3. ASSUME NEW i \in D PROVE i <= Cardinality(D)
  <2>1. i \in Nat /\ 1..i \in SUBSET D
    OBVIOUS
  <2>2. Cardinality(1..i) <= Cardinality(D)
    BY <1>2, <2>1, FS_Subset
  <2>3. Cardinality(1..i) = i
    BY <2>1, PositionsCount
  <2>4. QED
    BY <2>2, <2>3
<1>4. ASSUME NEW i \in 1..n, i \notin D PROVE ~(i <= Cardinality(D))
  <2>1. i - 1 \in Nat
    OBVIOUS
  <2>2. D \in SUBSET (1..i - 1)
    <3>1. ASSUME NEW j \in D PROVE j <= i - 1
      <4>1. i \notin 1..j
        BY <1>4
      <4>2. QED
        BY <4>1
    <3>2. QED
      BY <3>1
  <2>4. Cardinality(D) <= i - 1
    BY <1>1, <2>1, <2>2
  <2>5. QED
    BY <1>2, <2>4
<1>5. QED
  BY <1>2, <1>3, <1>4

\* Where an inserted entry and the others are.
LEMMA InsertedEntries ==
    ASSUME NEW q \in Seq(Tasks), NEW t \in Tasks, NEW c \in 0..Len(q)
    PROVE  LET r == InsertAt(q, c + 1, t) IN
           /\ DOMAIN r = 1..Len(q) + 1
           /\ \A i \in 1..c : r[i] = q[i]
           /\ r[c + 1] = t
           /\ \A i \in c + 1..Len(q) : r[i + 1] = q[i]
<1> DEFINE front == SubSeq(q, 1, c)
           back == SubSeq(q, c + 1, Len(q))
<1>1. /\ front \in Seq(Tasks) /\ Len(front) = c
      /\ \A i \in 1..c : front[i] = q[i]
  <2>1. \A i \in 1..c : q[i] \in Tasks
    OBVIOUS
  <2>2. QED
    BY <2>1, SubSeqProperties
<1>2. /\ back \in Seq(Tasks) /\ Len(back) = Len(q) - c
      /\ \A i \in 1..Len(q) - c : back[i] = q[c + i]
  <2>1. \A i \in c + 1..Len(q) : q[i] \in Tasks
    OBVIOUS
  <2>2. /\ back \in Seq(Tasks)
        /\ Len(back) = IF c + 1 <= Len(q) THEN Len(q) - (c + 1) + 1 ELSE 0
        /\ \A i \in 1..Len(q) - (c + 1) + 1 : back[i] = q[(c + 1) + i - 1]
    BY <2>1, SubSeqProperties
  <2>3. Len(q) \in Nat /\ c \in Nat /\ c <= Len(q)
    OBVIOUS
  <2> HIDE DEF back
  <2>4. Len(q) - (c + 1) + 1 = Len(q) - c /\ \A i \in 1..Len(q) - c : (c + 1) + i - 1 = c + i
    BY <2>3
  <2>5. Len(back) = Len(q) - c
    BY <2>2, <2>3
  <2>6. \A i \in 1..Len(q) - c : back[i] = q[c + i]
    BY <2>2, <2>4
  <2>7. QED
    BY <2>2, <2>5, <2>6
<1> DEFINE mid == front \o <<t>>
<1> HIDE DEF front, back
<1>3. /\ Len(mid) = c + 1 /\ mid \in Seq(Tasks)
      /\ \A i \in 1..c : mid[i] = q[i]
      /\ mid[c + 1] = t
  <2>1. <<t>> \in Seq(Tasks) /\ Len(<<t>>) = 1 /\ <<t>>[1] = t
    OBVIOUS
  <2>2. /\ mid \in Seq(Tasks) /\ Len(mid) = Len(front) + Len(<<t>>)
        /\ \A i \in 1..Len(front) + Len(<<t>>) :
              mid[i] = IF i <= Len(front) THEN front[i] ELSE <<t>>[i - Len(front)]
    BY <1>1, <2>1, ConcatProperties
  <2> HIDE DEF mid
  <2>3. \A i \in 1..c : mid[i] = q[i]
    BY <1>1, <2>1, <2>2
  <2>4. mid[c + 1] = <<t>>[(c + 1) - c]
    BY <1>1, <2>1, <2>2
  <2>5. (c + 1) - c = 1
    OBVIOUS
  <2>6. QED
    BY <1>1, <2>1, <2>2, <2>3, <2>4, <2>5
<1> HIDE DEF mid
<1>4. /\ Len(mid \o back) = Len(q) + 1
      /\ \A i \in 1..c + 1 : (mid \o back)[i] = mid[i]
      /\ \A i \in 1..Len(q) - c : (mid \o back)[c + 1 + i] = back[i]
      /\ mid \o back \in Seq(Tasks)
  <2>1. /\ mid \o back \in Seq(Tasks) /\ Len(mid \o back) = Len(mid) + Len(back)
        /\ \A i \in 1..Len(mid) + Len(back) :
              (mid \o back)[i] = IF i <= Len(mid) THEN mid[i] ELSE back[i - Len(mid)]
    <3>1. mid \in Seq(Tasks) /\ back \in Seq(Tasks)
      BY <1>2, <1>3
    <3>2. QED
      BY ONLY <3>1, ConcatProperties, Zenon
  <2> DEFINE m == mid \o back
  <2> HIDE DEF m
  <2>2. Len(m) = Len(q) + 1 /\ \A i \in 1..c + 1 : m[i] = mid[i]
    <3>1. Len(mid) = c + 1 /\ Len(back) = Len(q) - c
      BY <1>2, <1>3
    <3>2. Len(m) = Len(q) + 1
      BY <2>1, <3>1 DEF m
    <3>3. ASSUME NEW i \in 1..c + 1 PROVE m[i] = mid[i]
      <4>1. i \in 1..Len(mid) + Len(back) /\ i <= Len(mid)
        BY <3>1
      <4>2. QED
        BY <2>1, <4>1 DEF m
    <3>4. QED
      BY <3>2, <3>3
  <2>3. ASSUME NEW i \in 1..Len(q) - c PROVE m[c + 1 + i] = back[i]
    <3>1. c + 1 + i \in 1..Len(mid) + Len(back) /\ ~(c + 1 + i <= Len(mid))
          /\ (c + 1 + i) - Len(mid) = i
      BY <1>2, <1>3
    <3>2. QED
      BY <2>1, <3>1 DEF m
  <2>4. QED
    BY <2>1, <2>2, <2>3 DEF m
<1> DEFINE r == mid \o back
<1> HIDE DEF r
<1>5. DOMAIN r = 1..Len(q) + 1
  BY <1>4 DEF r
<1>6. ASSUME NEW i \in c + 1..Len(q) PROVE r[i + 1] = q[i]
  <2>1. i - c \in 1..Len(q) - c /\ c + 1 + (i - c) = i + 1 /\ c + (i - c) = i
    OBVIOUS
  <2>2. r[c + 1 + (i - c)] = back[i - c] /\ back[i - c] = q[c + (i - c)]
    BY <1>2, <1>4, <2>1 DEF r
  <2>3. QED
    BY <2>1, <2>2
<1>7. InsertAt(q, c + 1, t) = r
  <2>1. (c + 1) - 1 = c
    OBVIOUS
  <2>2. QED
    BY <2>1 DEF InsertAt, front, back, mid, r
<1>8. (\A i \in 1..c : r[i] = q[i]) /\ r[c + 1] = t
  BY <1>3, <1>4 DEF r
<1>9. QED
  BY <1>5, <1>6, <1>7, <1>8

\* Push and sort put a new task after those of no lower priority and keep the order.
LEMMA InsertByPrioritySorted ==
    ASSUME NEW q \in Seq(Tasks), NEW t \in Tasks, Sorted(q)
    PROVE  LET r == InsertByPriority(q, t) IN
           /\ Sorted(r)
           /\ EntriesOf(r) = EntriesOf(q) \cup {t}
           /\ NoneTwice(q) /\ t \notin EntriesOf(q) => NoneTwice(r)
<1> DEFINE D == {i \in DOMAIN q : Priority[q[i]] >= Priority[t]}
           c == Cardinality(D)
           r == InsertAt(q, c + 1, t)
<1>1. \A i \in DOMAIN q : q[i] \in Tasks /\ Priority[q[i]] \in Int
  OBVIOUS
<1>2. Priority[t] \in Int /\ DOMAIN q = 1..Len(q) /\ Len(q) \in Nat
  OBVIOUS
<1>3. c \in 0..Len(q) /\ \A i \in 1..Len(q) : i \in D <=> i <= c
  <2>1. \A i \in D : \A j \in 1..i : j \in D
    BY <1>1, <1>2 DEF Sorted
  <2>2. D \in SUBSET (1..Len(q))
    BY <1>2
  <2> HIDE DEF D
  <2>3. QED
    BY <1>2, <2>1, <2>2, InitialSegment
<1>4. /\ DOMAIN r = 1..Len(q) + 1
      /\ \A i \in 1..c : r[i] = q[i]
      /\ r[c + 1] = t
      /\ \A i \in c + 1..Len(q) : r[i + 1] = q[i]
  <2> HIDE DEF c
  <2>1. QED
    BY <1>3, InsertedEntries
<1>5. \A i \in 1..Len(q) : Priority[q[i]] >= Priority[t] <=> i <= c
  BY <1>2, <1>3
<1> HIDE DEF c, r
<1>6. ASSUME NEW i \in DOMAIN r
      PROVE  \/ i \in 1..c /\ r[i] = q[i] /\ i \in DOMAIN q
             \/ i = c + 1 /\ r[i] = t
             \/ i - 1 \in c + 1..Len(q) /\ r[i] = q[i - 1] /\ i - 1 \in DOMAIN q
  <2>1. CASE i \in 1..c
    BY <1>2, <1>3, <1>4, <2>1
  <2>2. CASE i = c + 1
    BY <1>4, <2>2
  <2>3. CASE i > c + 1
    <3>1. i - 1 \in c + 1..Len(q) /\ (i - 1) + 1 = i
      BY <1>2, <1>3, <1>4, <2>3
    <3>2. r[(i - 1) + 1] = q[i - 1]
      BY <1>4, <3>1
    <3>3. QED
      BY <1>2, <1>3, <3>1, <3>2
  <2>4. QED
    BY <1>2, <1>3, <1>4, <2>1, <2>2, <2>3
<1>7. Sorted(r)
  <2> SUFFICES ASSUME NEW i \in DOMAIN r, NEW j \in DOMAIN r, i < j
               PROVE  Priority[r[i]] >= Priority[r[j]]
    BY DEF Sorted
  <2>1. i \in Nat /\ j \in Nat /\ c \in Nat
    BY <1>2, <1>3, <1>4
  <2>2. CASE i \in 1..c /\ j \in 1..c
    <3>1. r[i] = q[i] /\ r[j] = q[j] /\ i \in DOMAIN q /\ j \in DOMAIN q
      BY <1>2, <1>3, <1>4, <2>2
    <3>2. QED
      BY <3>1 DEF Sorted
  <2>3. CASE i \in 1..c /\ j = c + 1
    BY <1>2, <1>5, <1>6, <2>1, <2>3
  <2>4. CASE i \in 1..c /\ j > c + 1
    <3>1. r[i] = q[i] /\ i \in DOMAIN q
      BY <1>6, <2>1, <2>4
    <3>2. j \notin 1..c /\ j # c + 1
      BY <2>1, <2>4
    <3>3. r[j] = q[j - 1] /\ j - 1 \in DOMAIN q
      BY <1>6, <3>2
    <3>4. i < j - 1
      BY <2>1, <2>4
    <3>5. QED
      BY <3>1, <3>3, <3>4 DEF Sorted
  <2>5. CASE i = c + 1 /\ j > c + 1
    <3>1. r[i] = t /\ r[j] = q[j - 1] /\ j - 1 \in 1..Len(q) /\ ~(j - 1 <= c)
      BY <1>2, <1>6, <2>1, <2>5
    <3>2. QED
      BY <1>1, <1>2, <1>5, <3>1
  <2>6. CASE i > c + 1 /\ j > c + 1
    <3>5. ASSUME NEW k \in DOMAIN r, k > c + 1 PROVE r[k] = q[k - 1] /\ k - 1 \in DOMAIN q
      <4>1. k \notin 1..c /\ k # c + 1
        BY <1>4, <2>1, <3>5
      <4>2. QED
        BY <1>6, <4>1
    <3>1. r[i] = q[i - 1] /\ i - 1 \in DOMAIN q
      BY <2>6, <3>5
    <3>2. r[j] = q[j - 1] /\ j - 1 \in DOMAIN q
      BY <2>6, <3>5
    <3>3. i - 1 < j - 1
      BY <2>1
    <3>4. QED
      BY <3>1, <3>2, <3>3 DEF Sorted
  <2>7. QED
    BY <1>4, <2>1, <2>2, <2>3, <2>4, <2>5, <2>6
<1>8. EntriesOf(r) = EntriesOf(q) \cup {t}
  <2>1. EntriesOf(r) \subseteq EntriesOf(q) \cup {t}
    BY <1>6 DEF EntriesOf
  <2>2. t \in EntriesOf(r)
    <3>1. c + 1 \in DOMAIN r
      BY <1>2, <1>3, <1>4
    <3>2. QED
      BY <1>4, <3>1 DEF EntriesOf
  <2>3. ASSUME NEW i \in DOMAIN q PROVE q[i] \in EntriesOf(r)
    <3>1. CASE i <= c
      <4>1. i \in DOMAIN r /\ r[i] = q[i]
        BY <1>2, <1>3, <1>4, <3>1
      <4>2. QED
        BY <4>1 DEF EntriesOf
    <3>2. CASE i > c
      <4>1. i + 1 \in DOMAIN r /\ r[i + 1] = q[i]
        BY <1>2, <1>3, <1>4, <3>2
      <4>2. QED
        BY <4>1 DEF EntriesOf
    <3>3. QED
      BY <1>2, <1>3, <3>1, <3>2
  <2>4. EntriesOf(q) \subseteq EntriesOf(r)
    BY <2>3 DEF EntriesOf
  <2>5. QED
    BY <2>1, <2>2, <2>4
<1>9. ASSUME NoneTwice(q), t \notin EntriesOf(q) PROVE NoneTwice(r)
  <2> SUFFICES ASSUME NEW i \in DOMAIN r, NEW j \in DOMAIN r, r[i] = r[j]
               PROVE  i = j
    BY DEF NoneTwice
  <2>1. i \in Int /\ j \in Int
    BY <1>4
  <2>2. \A k \in DOMAIN q : q[k] # t
    BY <1>9 DEF EntriesOf
  <2>3. \A k, l \in DOMAIN q : q[k] = q[l] => k = l
    BY <1>9 DEF NoneTwice
  <2>4. QED
    BY <1>3, <1>6, <2>1, <2>2, <2>3
<1>10. InsertByPriority(q, t) = r
  BY DEF InsertByPriority, r, c
<1>11. QED
  BY <1>7, <1>8, <1>9, <1>10

\* The shift takes the head, and only it, and keeps the order.
LEMMA ShiftedEntries ==
    ASSUME NEW q \in Seq(Tasks), q # <<>>, Sorted(q), NoneTwice(q)
    PROVE  /\ Sorted(Tail(q)) /\ NoneTwice(Tail(q))
           /\ EntriesOf(Tail(q)) = EntriesOf(q) \ {Head(q)}
<1> DEFINE tl == Tail(q)
<1>1. /\ Len(q) \in Nat \ {0} /\ DOMAIN q = 1..Len(q) /\ DOMAIN tl = 1..Len(q) - 1
      /\ \A i \in 1..Len(q) - 1 : tl[i] = q[i + 1]
      /\ Head(q) = q[1]
  OBVIOUS
<1> HIDE DEF tl
<1>2. \A i \in DOMAIN tl : i \in Nat /\ i + 1 \in DOMAIN q /\ i + 1 # 1 /\ tl[i] = q[i + 1]
  BY <1>1
<1>3. Sorted(tl)
  <2> SUFFICES ASSUME NEW i \in DOMAIN tl, NEW j \in DOMAIN tl, i < j
               PROVE  Priority[tl[i]] >= Priority[tl[j]]
    BY DEF Sorted
  <2>1. i + 1 \in DOMAIN q /\ j + 1 \in DOMAIN q /\ i + 1 < j + 1
        /\ tl[i] = q[i + 1] /\ tl[j] = q[j + 1]
    BY <1>2
  <2>2. QED
    BY <2>1 DEF Sorted
<1>4. NoneTwice(tl)
  <2> SUFFICES ASSUME NEW i \in DOMAIN tl, NEW j \in DOMAIN tl, tl[i] = tl[j]
               PROVE  i = j
    BY DEF NoneTwice
  <2>1. i + 1 \in DOMAIN q /\ j + 1 \in DOMAIN q /\ q[i + 1] = q[j + 1]
    BY <1>2
  <2>2. i + 1 = j + 1
    BY <2>1 DEF NoneTwice
  <2>3. QED
    BY <1>2, <2>2
<1>5. ASSUME NEW t \in EntriesOf(tl) PROVE t \in EntriesOf(q) /\ t # Head(q)
  <2>1. PICK i \in DOMAIN tl : t = tl[i]
    BY DEF EntriesOf
  <2>2. i + 1 \in DOMAIN q /\ 1 \in DOMAIN q /\ i + 1 # 1 /\ t = q[i + 1]
    BY <1>1, <1>2, <2>1
  <2>3. QED
    BY <1>1, <2>2 DEF EntriesOf, NoneTwice
<1>6. ASSUME NEW t \in EntriesOf(q), t # Head(q) PROVE t \in EntriesOf(tl)
  <2>1. PICK i \in DOMAIN q : t = q[i]
    BY DEF EntriesOf
  <2>2. i - 1 \in DOMAIN tl /\ tl[i - 1] = q[i]
    <3>1. i # 1
      BY <1>1, <1>6, <2>1
    <3>2. i - 1 \in 1..Len(q) - 1 /\ (i - 1) + 1 = i
      BY <1>1, <3>1
    <3>3. QED
      BY <1>1, <3>2
  <2>3. QED
    BY <2>1, <2>2 DEF EntriesOf
<1>7. QED
  BY <1>3, <1>4, <1>5, <1>6 DEF tl

\* A queue in which nothing occurs twice has as many tasks as entries.
LEMMA EntriesCount ==
    ASSUME NEW q \in Seq(Tasks), NoneTwice(q)
    PROVE  Cardinality(EntriesOf(q)) = Len(q)
<1>1. Len(q) \in Nat /\ DOMAIN q = 1..Len(q)
  OBVIOUS
<1>2. q \in [1..Len(q) -> EntriesOf(q)]
  BY <1>1 DEF EntriesOf
<1>3. q \in Injection(1..Len(q), EntriesOf(q)) /\ q \in Surjection(1..Len(q), EntriesOf(q))
  BY <1>1, <1>2 DEF Injection, Surjection, IsInjective, EntriesOf, NoneTwice
<1>4. ExistsBijection(1..Len(q), EntriesOf(q))
  BY <1>3 DEF ExistsBijection, Bijection
<1>5. IsFiniteSet(1..Len(q)) /\ Cardinality(1..Len(q)) = Len(q)
  BY <1>1, PositionsCount
<1>6. Cardinality(EntriesOf(q)) = Cardinality(1..Len(q))
  BY <1>4, <1>5, FS_Bijection
<1>7. QED
  BY <1>5, <1>6

-----------------------------------------------------------------------------
(* The inductive invariant.                                                 *)

JobsInv == InOrder(jobs) /\ (jobs # <<>> => phase = "up")

\* The tasks that an assignment in progress has taken from the queue, where they still
\* are the first entry.
Handled == TasksOf(jobs, "assigned") \cup TasksOf(jobs, "dequeue")
           \cup TasksOf(jobs, "unavailable")
Untouched(t) == t \notin completedTasks /\ starts[t] = 0 /\ t \notin executing

\* The task being handled is the head of the queue, every other queued task is queued once
\* and has never been given to an agent; nor has one the registry is about to reject.
QueueInv ==
    /\ NoneTwice(taskQueue)
    /\ \A t \in Handled \cup TasksOf(jobs, "refused") : taskQueue # <<>> /\ Head(taskQueue) = t
    /\ \A t \in Queued \ Handled : Untouched(t) /\ t \in pendingTasks \ runningTasks
    /\ \A t \in TasksOf(jobs, "unavailable") : Untouched(t) /\ t \in runningTasks
    /\ DueOf(jobs) \cap Queued = {}

\* A task nobody has submitted is nowhere, and nobody waits for it.
KnownInv ==
    \A t \in Tasks :
        /\ status[t] = "none" <=> promise[t] = "none"
        /\ status[t] = "none" => /\ Untouched(t)
                                 /\ t \notin pendingTasks \cup runningTasks
                                 /\ t \notin Queued \cup DueOf(jobs)

\* An execution that has not settled is the only one of its task.
WorkInv ==
    /\ \A t \in Tasks : starts[t] \in {0, 1}
    /\ \A t \in executing : starts[t] = 1
    /\ TasksOf(jobs, "execute") \subseteq executing

Failed(a) == agentStatus[a] \in {"error", "offline"}

\* The only running task of a failed agent is the one whose assignment is about to be undone.
AgentInv ==
    \A t \in runningTasks : /\ assignedTo[t] \in Agents
                            /\ Failed(assignedTo[t]) <=> t \in TasksOf(jobs, "unavailable")

\* Once the listeners are gone nobody waits for a running task.
WaitInv ==
    /\ NoForgottenWaiter
    /\ phase = "down" => \A t \in runningTasks : promise[t] # "waiting"

IInv == /\ TypeOK /\ JobsInv /\ QueueInv /\ QueueSorted /\ KnownInv /\ WorkInv /\ AgentInv
        /\ WaitInv /\ NoSlotLeak

-----------------------------------------------------------------------------
(* Tasks leaving runningTasks.                                              *)

\* The tasks C are filed and the tasks O go back to pending: what failTask, completeTask
\* and handleAgentFailure have in common.  The tasks that stay keep their agents, and
\* their agents do not fail.
Departure(C, O) ==
    /\ C \subseteq (runningTasks \cup DueOf(jobs)) \ TasksOf(jobs, "unavailable")
    /\ O \subseteq runningTasks \ TasksOf(jobs, "unavailable")
    /\ runningTasks' = runningTasks \ (C \cup O)
    /\ completedTasks' = completedTasks \cup C
    /\ pendingTasks' = pendingTasks \cup O
    /\ taskQueue' = taskQueue
    /\ slots' = Released(C \cup O)
    /\ \A u \in Tasks : status'[u] = status[u] \/ (u \in C \cup O /\ status'[u] # "none")
    /\ \A u \in runningTasks' : /\ assignedTo'[u] = assignedTo[u]
                                /\ Failed(assignedTo[u])' <=> Failed(assignedTo[u])

\* Giving back no slot changes no count.
LEMMA ReleasedNone == ASSUME TypeOK PROVE Released({}) = slots
<1>1. \A n \in Tenants : Cardinality(OfTenant({}, n)) = 0
  <2>1. \A n : OfTenant({}, n) = {}
    BY DEF OfTenant
  <2>2. QED
    BY <2>1, FS_EmptySet
<1>2. \A n \in Tenants : slots[n] \in Nat
  BY DEF TypeOK
<1>3. slots = [n \in Tenants |-> slots[n]]
  BY DEF TypeOK
<1>4. QED
  BY <1>1, <1>2, <1>3 DEF Released

\* Slots given back do not leave a tenant with more slots than running tasks.
LEMMA ReleasedCovers ==
    ASSUME TypeOK, NoSlotLeak, NEW T \in SUBSET Tasks, NEW n \in Tenants
    PROVE  Released(T)[n] <= Cardinality(OfTenant(runningTasks \ T, n))
<1> DEFINE R == OfTenant(runningTasks, n)
           S == OfTenant(T, n)
<1>1. IsFiniteSet(R) /\ IsFiniteSet(S)
  <2>1. R \subseteq Tasks /\ S \subseteq Tasks
    BY DEF OfTenant, TypeOK
  <2>2. QED
    BY <2>1, FS_Subset
<1>2. OfTenant(runningTasks \ T, n) = R \ S
  BY DEF OfTenant
<1>3. /\ Cardinality(R \ S) = Cardinality(R) - Cardinality(R \cap S)
      /\ Cardinality(R) \in Nat /\ Cardinality(S) \in Nat /\ Cardinality(R \cap S) \in Nat
      /\ Cardinality(R \cap S) <= Cardinality(S)
      /\ Cardinality(R \cap S) <= Cardinality(R)
  <2>1. R \cap S \subseteq S /\ R \cap S \subseteq R
    OBVIOUS
  <2> HIDE DEF R, S
  <2>2. Cardinality(R \ S) = Cardinality(R) - Cardinality(R \cap S)
    BY <1>1, FS_Difference
  <2>3. Cardinality(R \cap S) <= Cardinality(S) /\ IsFiniteSet(R \cap S)
    BY <1>1, <2>1, FS_Subset
  <2>4. Cardinality(R \cap S) <= Cardinality(R)
    BY <1>1, <2>1, FS_Subset
  <2>5. QED
    BY <1>1, <2>2, <2>3, <2>4, FS_CardinalityType
<1>4. slots[n] \in Nat /\ slots[n] <= Cardinality(R)
  BY DEF TypeOK, NoSlotLeak
<1>5. Released(T)[n] = IF Cardinality(S) >= slots[n] THEN 0 ELSE slots[n] - Cardinality(S)
  BY DEF Released
<1> DEFINE all == Cardinality(R)
           back == Cardinality(S)
           common == Cardinality(R \cap S)
<1>6. /\ all \in Nat /\ back \in Nat /\ common \in Nat /\ common <= back /\ common <= all
      /\ Cardinality(OfTenant(runningTasks \ T, n)) = all - common
      /\ slots[n] \in Nat /\ slots[n] <= all
      /\ Released(T)[n] = IF back >= slots[n] THEN 0 ELSE slots[n] - back
  BY <1>2, <1>3, <1>4, <1>5
<1> HIDE DEF all, back, common
<1>7. QED
  BY <1>6

\* What is still to be expired are tasks.
LEMMA DueType == ASSUME TypeOK PROVE DueOf(jobs) \subseteq Tasks
<1>1. \A i \in DOMAIN jobs : jobs[i].overdue \in SUBSET Tasks
  BY JobFields DEF TypeOK
<1>2. QED
  BY <1>1 DEF DueOf

\* A departure leaks no slot.
LEMMA DepartureSlots ==
    ASSUME TypeOK, NoSlotLeak, NEW C, NEW O, Departure(C, O)
    PROVE  NoSlotLeak'
<1>1. C \cup O \in SUBSET Tasks
  BY DueType DEF Departure, TypeOK
<1>2. runningTasks' = runningTasks \ (C \cup O) /\ slots' = Released(C \cup O)
  BY DEF Departure
<1>3. \A n \in Tenants :
        Released(C \cup O)[n] <= Cardinality(OfTenant(runningTasks \ (C \cup O), n))
  BY <1>1, ReleasedCovers
<1>4. QED
  BY <1>2, <1>3 DEF NoSlotLeak

\* Departures do not touch the queue, nor a task waiting in it.
LEMMA DepartureQueue ==
    ASSUME TypeOK, QueueInv, NEW C, NEW O, Departure(C, O), NEW execute, NEW due,
           starts' = starts, executing' \subseteq executing, due \subseteq DueOf(jobs),
           Suspended(jobs', TasksOf(jobs, "assigned"), TasksOf(jobs, "dequeue"),
                     TasksOf(jobs, "unavailable"), TasksOf(jobs, "refused"), execute, due)
    PROVE  QueueInv'
<1>1. Handled' = Handled /\ Queued' = Queued /\ taskQueue' = taskQueue
  BY DEF Handled, Queued, Departure, Suspended
<1>2. TasksOf(jobs', "unavailable") = TasksOf(jobs, "unavailable")
      /\ TasksOf(jobs', "refused") = TasksOf(jobs, "refused") /\ DueOf(jobs') = due
  BY DEF Suspended
<1>3. ASSUME NEW t \in Queued \ Handled PROVE Untouched(t)' /\ t \in (pendingTasks \ runningTasks)'
  <2>1. Untouched(t) /\ t \in pendingTasks \ runningTasks /\ t \notin DueOf(jobs)
    BY <1>3 DEF QueueInv
  <2>2. t \notin C /\ t \notin O
    BY <2>1 DEF Departure
  <2>3. QED
    BY <2>1, <2>2 DEF Departure, Untouched
<1>4. ASSUME NEW t \in TasksOf(jobs, "unavailable") PROVE Untouched(t)' /\ t \in runningTasks'
  BY <1>4 DEF Departure, Untouched, QueueInv
<1>5. QED
  BY <1>1, <1>2, <1>3, <1>4 DEF QueueInv

\* Only callers that wait are told anything.
WaitersTold ==
    \A u \in Tasks : \/ promise'[u] = promise[u]
                     \/ promise[u] = "waiting" /\ promise'[u] \in {"resolved", "rejected"}

\* A departure whose filed tasks nobody waits for any longer keeps the invariant.
LEMMA DepartureInv ==
    ASSUME IInv, TypeOK', JobsInv', NEW C, NEW O, Departure(C, O), WaitersTold,
           \A u \in C : promise'[u] # "waiting",
           starts' = starts, phase' = phase, executing' \subseteq executing,
           NEW execute \in SUBSET executing', NEW due \in SUBSET DueOf(jobs),
           Suspended(jobs', TasksOf(jobs, "assigned"), TasksOf(jobs, "dequeue"),
                     TasksOf(jobs, "unavailable"), TasksOf(jobs, "refused"), execute, due)
    PROVE  IInv'
<1>0. /\ TypeOK /\ JobsInv /\ QueueInv /\ QueueSorted /\ KnownInv /\ WorkInv /\ AgentInv
      /\ WaitInv /\ NoSlotLeak
  BY DEF IInv
<1>1. /\ TasksOf(jobs', "unavailable") = TasksOf(jobs, "unavailable")
      /\ TasksOf(jobs', "execute") = execute /\ DueOf(jobs') = due
  BY DEF Suspended
<1>2. QueueInv'
  BY <1>0, DepartureQueue
<1>3. QueueSorted'
  BY <1>0 DEF QueueSorted, Departure
<1>4. KnownInv'
  <2> SUFFICES ASSUME NEW t \in Tasks
               PROVE  /\ (status[t] = "none" <=> promise[t] = "none")'
                      /\ status'[t] = "none" => /\ Untouched(t)'
                                               /\ t \notin pendingTasks' \cup runningTasks'
                                               /\ t \notin Queued' \cup DueOf(jobs')
    BY DEF KnownInv
  <2>1. t \in C \cup O => (status[t] # "none" /\ status'[t] # "none") \/ status'[t] = status[t]
    BY <1>0 DEF Departure, KnownInv
  <2>2. t \in C \cup O => status[t] # "none"
    BY <1>0 DEF Departure, KnownInv
  <2>3. status'[t] = "none" <=> status[t] = "none"
    BY <2>2 DEF Departure
  <2>4. promise'[t] = "none" <=> promise[t] = "none"
    BY DEF WaitersTold
  <2>5. ASSUME status[t] = "none"
        PROVE  /\ Untouched(t)'
               /\ t \notin pendingTasks' \cup runningTasks'
               /\ t \notin Queued' \cup DueOf(jobs')
    <3>1. /\ t \notin C \cup O /\ Untouched(t) /\ t \notin pendingTasks \cup runningTasks
          /\ t \notin Queued \cup DueOf(jobs)
      BY <1>0, <2>2, <2>5 DEF KnownInv
    <3>2. Queued' = Queued
      BY DEF Queued, Departure
    <3>3. QED
      BY <1>1, <3>1, <3>2 DEF Departure, Untouched
  <2>6. QED
    BY <1>0, <2>3, <2>4, <2>5 DEF KnownInv
<1>5. WorkInv'
  BY <1>0, <1>1 DEF WorkInv
<1>6. AgentInv'
  BY <1>0, <1>1 DEF AgentInv, Departure
<1>7. WaitInv'
  <2>1. ASSUME NEW t \in completedTasks' PROVE promise'[t] # "waiting"
    <3>1. CASE t \in C
      BY <3>1
    <3>2. CASE t \notin C
      <4>1. t \in completedTasks /\ t \in Tasks
        BY <1>0, <2>1, <3>2 DEF Departure, TypeOK
      <4>2. promise[t] # "waiting"
        BY <1>0, <4>1 DEF WaitInv, NoForgottenWaiter
      <4>3. QED
        BY <4>1, <4>2 DEF WaitersTold
    <3>3. QED
      BY <3>1, <3>2
  <2>2. ASSUME phase' = "down", NEW t \in runningTasks' PROVE promise'[t] # "waiting"
    <3>1. t \in runningTasks /\ t \in Tasks
      BY <1>0 DEF Departure, TypeOK
    <3>2. promise[t] # "waiting"
      BY <1>0, <2>2, <3>1 DEF WaitInv
    <3>3. QED
      BY <3>1, <3>2 DEF WaitersTold
  <2>3. QED
    BY <2>1, <2>2 DEF WaitInv, NoForgottenWaiter
<1>8. NoSlotLeak'
  BY <1>0, DepartureSlots
<1>9. QED
  BY <1>2, <1>3, <1>4, <1>5, <1>6, <1>7, <1>8 DEF IInv

\* A failing task departs with the running tasks of its agent.
LEMMA FailDeparts ==
    ASSUME TypeOK, AgentInv, NEW t \in Tasks, Fail(t),
           t \in (runningTasks \cup DueOf(jobs)) \ TasksOf(jobs, "unavailable"),
           t \in runningTasks \/ TasksOf(jobs, "unavailable") = {}
    PROVE  Departure({t}, Orphans(t))
<1> DEFINE O == Orphans(t)
<1>1. O \subseteq runningTasks \ TasksOf(jobs, "unavailable")
  <2>1. ASSUME NEW u \in O, u \in TasksOf(jobs, "unavailable") PROVE FALSE
    <3>1. u \in runningTasks /\ assignedTo[u] = assignedTo[t]
      BY DEF Orphans
    <3>2. t \in runningTasks /\ t \notin TasksOf(jobs, "unavailable")
      BY <2>1
    <3>3. QED
      BY <2>1, <3>1, <3>2 DEF AgentInv
  <2>2. O \subseteq runningTasks
    BY DEF Orphans
  <2>3. QED
    BY <2>1, <2>2
<1>2. ASSUME NEW u \in runningTasks'
      PROVE  /\ assignedTo'[u] = assignedTo[u]
             /\ Failed(assignedTo[u])' <=> Failed(assignedTo[u])
  <2>1. u \in runningTasks /\ u \in Tasks /\ u # t /\ u \notin O
    BY DEF Fail, TypeOK
  <2>2. assignedTo'[u] = assignedTo[u]
    BY <2>1 DEF Fail, Reassign
  <2>3. assignedTo[u] \in Agents
    BY <2>1 DEF AgentInv
  <2>4. ~(Listening /\ assignedTo[u] = assignedTo[t] /\ assignedTo[u] \in Registered)
    BY <2>1 DEF Orphans
  <2>5. agentStatus'[assignedTo[u]] = agentStatus[assignedTo[u]]
    BY <2>3, <2>4 DEF Fail, AgentOf
  <2>6. QED
    BY <2>2, <2>5 DEF Failed
<1>3. ASSUME NEW u \in Tasks
      PROVE  status'[u] = status[u] \/ (u \in {t} \cup O /\ status'[u] # "none")
  BY DEF Fail
<1>4. /\ runningTasks' = runningTasks \ ({t} \cup O)
      /\ completedTasks' = completedTasks \cup {t}
      /\ pendingTasks' = pendingTasks \cup O
      /\ taskQueue' = taskQueue
      /\ slots' = Released({t} \cup O)
  BY DEF Fail, Reassign, QueueAfterFailure
<1> HIDE DEF O
<1>5. Departure({t}, O)
  BY <1>1, <1>2, <1>3, <1>4 DEF Departure
<1>6. QED
  BY <1>5 DEF O

\* A call that finds nothing in runningTasks is a departure of no task.
LEMMA NothingDeparts ==
    ASSUME TypeOK, UNCHANGED <<schedVars, slots, agentStatus>>
    PROVE  Departure({}, {})
  BY ReleasedNone DEF Departure, schedVars, Failed

\* failTask is a departure of the task, or of nothing.
LEMMA FailTaskDeparts ==
    ASSUME TypeOK, AgentInv, NEW t \in Tasks, FailTask(t), t \notin TasksOf(jobs, "unavailable")
    PROVE  \E C \in SUBSET ({t} \cap runningTasks), O \in SUBSET Tasks : Departure(C, O)
<1>1. CASE t \in runningTasks
  <2>1. Departure({t}, Orphans(t))
    BY <1>1, FailDeparts DEF FailTask
  <2>2. Orphans(t) \in SUBSET Tasks /\ {t} \in SUBSET ({t} \cap runningTasks)
    BY <1>1, OrphansType
  <2>3. QED
    BY <2>1, <2>2
<1>2. CASE t \notin runningTasks
  BY <1>2, NothingDeparts DEF FailTask
<1>3. QED
  BY <1>1, <1>2

\* completeTask is a departure of the task alone, or of nothing.
LEMMA CompleteTaskDeparts ==
    ASSUME TypeOK, AgentInv, NEW t \in Tasks, CompleteTask(t),
           t \notin TasksOf(jobs, "unavailable")
    PROVE  \E C \in SUBSET ({t} \cap runningTasks), O \in SUBSET Tasks : Departure(C, O)
<1>1. CASE t \in runningTasks
  <2>1. ASSUME NEW u \in runningTasks'
        PROVE  /\ assignedTo'[u] = assignedTo[u]
               /\ Failed(assignedTo[u])' <=> Failed(assignedTo[u])
    <3>1. u \in runningTasks /\ assignedTo'[u] = assignedTo[u] /\ assignedTo[u] \in Agents
      BY <1>1 DEF CompleteTask, AgentInv
    <3>2. agentStatus' = AgentOf(t, "idle")
      BY <1>1 DEF CompleteTask
    <3>3. CASE assignedTo[u] = assignedTo[t]
      <4>1. ~Failed(assignedTo[u])
        BY <1>1, <3>3 DEF AgentInv
      <4>2. agentStatus'[assignedTo[u]] \in {"idle", agentStatus[assignedTo[u]]}
        BY <3>1, <3>2 DEF AgentOf
      <4>3. QED
        BY <3>1, <4>1, <4>2 DEF Failed
    <3>4. CASE assignedTo[u] # assignedTo[t]
      <4>1. agentStatus'[assignedTo[u]] = agentStatus[assignedTo[u]]
        BY <3>1, <3>2, <3>4 DEF AgentOf
      <4>2. QED
        BY <3>1, <4>1 DEF Failed
    <3>5. QED
      BY <3>3, <3>4
  <2>2. ASSUME NEW u \in Tasks
        PROVE  status'[u] = status[u] \/ (u \in {t} \cup {} /\ status'[u] # "none")
    BY <1>1 DEF CompleteTask, TypeOK
  <2>3. /\ runningTasks' = runningTasks \ ({t} \cup {})
        /\ completedTasks' = completedTasks \cup {t}
        /\ pendingTasks' = pendingTasks \cup {}
        /\ taskQueue' = taskQueue
    BY <1>1 DEF CompleteTask
  <2>4. slots' = Released({t} \cup {})
    <3>1. slots' = Released({t}) /\ {t} = {t} \cup {}
      BY <1>1 DEF CompleteTask
    <3>2. QED
      BY <3>1
  <2>5. Departure({t}, {})
    BY <1>1, <2>1, <2>2, <2>3, <2>4 DEF Departure
  <2>6. QED
    BY <1>1, <2>5
<1>2. CASE t \notin runningTasks
  BY <1>2, NothingDeparts DEF CompleteTask
<1>3. QED
  BY <1>1, <1>2

\* The end of an execution is a departure of its task, whose caller is told.
LEMMA SettleDeparts ==
    ASSUME IInv, NEW t \in executing, Settle(t)
    PROVE  /\ \E C \in SUBSET {t}, O \in SUBSET Tasks :
                  Departure(C, O) /\ \A u \in C : promise'[u] # "waiting"
           /\ WaitersTold
           /\ executing' = executing \ {t}
<1>0. TypeOK /\ QueueInv /\ AgentInv /\ WaitInv /\ t \in Tasks
  BY DEF IInv, TypeOK
<1>1. t \notin TasksOf(jobs, "unavailable")
  BY <1>0 DEF QueueInv, Untouched
<1>2. PICK C \in SUBSET ({t} \cap runningTasks), O \in SUBSET Tasks : Departure(C, O)
  BY <1>0, <1>1, FailTaskDeparts, CompleteTaskDeparts DEF Settle
<1>3. PICK answer \in {"resolved", "rejected"} :
        promise' = IF t \in runningTasks THEN Told(t, answer) ELSE promise
  BY DEF Settle
<1>4. ASSUME t \in runningTasks PROVE promise'[t] # "waiting"
  <2>1. promise' = Told(t, answer)
    BY <1>3, <1>4
  <2>2. ~Listening => promise[t] # "waiting"
    BY <1>0, <1>4 DEF WaitInv, Listening
  <2>3. QED
    BY <1>0, <2>1, <2>2 DEF Told, TypeOK
<1>5. WaitersTold
  BY <1>0, <1>3 DEF WaitersTold, Told, TypeOK
<1>6. executing' = executing \ {t}
  BY DEF Settle
<1>7. QED
  BY <1>2, <1>4, <1>5, <1>6

-----------------------------------------------------------------------------
(* The steps in which tasks leave runningTasks.                             *)

\* Between two turns of the event loop nothing is suspended.
LEMMA QuietJobs ==
    ASSUME Quiet, UNCHANGED jobs
    PROVE  /\ Suspended(jobs, {}, {}, {}, {}, {}, {})
           /\ Suspended(jobs', TasksOf(jobs, "assigned"), TasksOf(jobs, "dequeue"),
                        TasksOf(jobs, "unavailable"), TasksOf(jobs, "refused"), {}, {})
           /\ InOrder(jobs') /\ JobsInv'
  BY NoJobs DEF Quiet, Suspended, JobsInv

\* The end of an execution that did real I/O: the task is filed, or its agent's tasks go back.
LEMMA ExecutionSettlesInv ==
    ASSUME IInv, TypeOK', NEW t \in Tasks, ExecutionSettles(t)
    PROVE  IInv'
<1>1. /\ Quiet /\ t \in executing /\ Settle(t)
      /\ UNCHANGED <<starts, phase, jobs>>
  BY DEF ExecutionSettles
<1>2. PICK C \in SUBSET {t}, O \in SUBSET Tasks :
         Departure(C, O) /\ \A u \in C : promise'[u] # "waiting"
  BY <1>1, SettleDeparts
<1>3. WaitersTold /\ executing' \subseteq executing
  BY <1>1, SettleDeparts
<1>4. /\ Suspended(jobs', TasksOf(jobs, "assigned"), TasksOf(jobs, "dequeue"),
                   TasksOf(jobs, "unavailable"), TasksOf(jobs, "refused"), {}, {})
      /\ JobsInv'
  BY <1>1, QuietJobs
<1>5. QED
  BY <1>1, <1>2, <1>3, <1>4, DepartureInv

\* The end of an execution within the microtask queue, the same, while its job is taken.
LEMMA ExecutionReturnsInv ==
    ASSUME IInv, TypeOK', ExecutionReturns
    PROVE  IInv'
<1> DEFINE t == Head(jobs).task
           rest == TasksOf(jobs, "execute") \ {t}
<1>0. TypeOK /\ JobsInv /\ WorkInv
  BY DEF IInv
<1>1. /\ jobs # <<>> /\ Head(jobs).kind = "execute" /\ jobs' = Tail(jobs) /\ Settle(t)
      /\ UNCHANGED <<starts, phase>>
  BY DEF ExecutionReturns, Runs
<1>2. /\ InOrder(jobs')
      /\ t \in TasksOf(jobs, "execute")
      /\ Suspended(jobs', TasksOf(jobs, "assigned"), TasksOf(jobs, "dequeue"),
                   TasksOf(jobs, "unavailable"), TasksOf(jobs, "refused"), rest, {})
  BY <1>0, <1>1, HeadOfExecution DEF JobsInv
<1>3. t \in executing
  BY <1>0, <1>2 DEF WorkInv
<1>4. PICK C \in SUBSET {t}, O \in SUBSET Tasks :
         Departure(C, O) /\ \A u \in C : promise'[u] # "waiting"
  BY <1>1, <1>3, SettleDeparts
<1>5. WaitersTold /\ executing' = executing \ {t}
  BY <1>1, <1>3, SettleDeparts
<1>6. rest \in SUBSET executing'
  BY <1>0, <1>5 DEF WorkInv
<1>7. JobsInv'
  BY <1>0, <1>1, <1>2 DEF JobsInv
<1>8. {} \in SUBSET DueOf(jobs) /\ executing' \subseteq executing
  BY <1>5
<1> HIDE DEF t, rest
<1>9. QED
  BY <1>1, <1>2, <1>4, <1>5, <1>6, <1>7, <1>8, DepartureInv

\* The timer of a waiter: it is told, and failTask files the task if it is still running.
LEMMA ResultTimeoutInv ==
    ASSUME IInv, TypeOK', NEW t \in Tasks, ResultTimeout(t)
    PROVE  IInv'
<1>0. TypeOK /\ AgentInv
  BY DEF IInv
<1>1. /\ Quiet /\ promise[t] = "waiting" /\ promise' = [promise EXCEPT ![t] = "rejected"]
      /\ FailTask(t) /\ UNCHANGED <<starts, executing, phase, jobs>>
  BY DEF ResultTimeout
<1>2. /\ Suspended(jobs', TasksOf(jobs, "assigned"), TasksOf(jobs, "dequeue"),
                   TasksOf(jobs, "unavailable"), TasksOf(jobs, "refused"), {}, {})
      /\ TasksOf(jobs, "unavailable") = {}
      /\ JobsInv'
  BY <1>1, QuietJobs DEF Suspended
<1>3. PICK C \in SUBSET ({t} \cap runningTasks), O \in SUBSET Tasks : Departure(C, O)
  BY <1>0, <1>1, <1>2, FailTaskDeparts
<1>4. WaitersTold /\ \A u \in C : promise'[u] # "waiting"
  BY <1>0, <1>1 DEF WaitersTold, TypeOK
<1>5. QED
  BY <1>1, <1>2, <1>3, <1>4, DepartureInv

\* A missed heartbeat: every task of the agent goes back to pending before the next turn.
LEMMA AgentMissesHeartbeatInv ==
    ASSUME IInv, TypeOK', NEW a \in Agents, AgentMissesHeartbeat(a)
    PROVE  IInv'
<1> DEFINE affected == {u \in runningTasks : assignedTo[u] = a}
<1>0. TypeOK /\ AgentInv
  BY DEF IInv
<1>1. /\ Quiet /\ UNCHANGED <<completedTasks, starts, executing, promise, phase, jobs>>
      /\ agentStatus' = [agentStatus EXCEPT ![a] = "offline"]
      /\ runningTasks' = runningTasks \ affected
      /\ slots' = Released(affected)
      /\ status' = [u \in Tasks |-> IF u \in affected THEN "pending" ELSE status[u]]
      /\ pendingTasks' = pendingTasks \cup affected
      /\ taskQueue' = taskQueue
      /\ assignedTo' = [u \in Tasks |-> IF u \in affected THEN None ELSE assignedTo[u]]
  BY DEF AgentMissesHeartbeat, Reassign, QueueAfterFailure
<1>2. /\ Suspended(jobs', TasksOf(jobs, "assigned"), TasksOf(jobs, "dequeue"),
                   TasksOf(jobs, "unavailable"), TasksOf(jobs, "refused"), {}, {})
      /\ TasksOf(jobs, "unavailable") = {}
      /\ JobsInv'
  BY <1>1, QuietJobs DEF Suspended
<1>3. Departure({}, affected)
  <2>1. ASSUME NEW u \in runningTasks'
        PROVE  /\ assignedTo'[u] = assignedTo[u]
               /\ Failed(assignedTo[u])' <=> Failed(assignedTo[u])
    <3>1. u \in runningTasks /\ u \in Tasks /\ assignedTo[u] # a
      BY <1>0, <1>1 DEF TypeOK
    <3>2. assignedTo[u] \in Agents /\ assignedTo'[u] = assignedTo[u]
      BY <1>0, <1>1, <3>1 DEF AgentInv
    <3>3. agentStatus'[assignedTo[u]] = agentStatus[assignedTo[u]]
      BY <1>0, <1>1, <3>1, <3>2 DEF TypeOK
    <3>4. QED
      BY <3>2, <3>3 DEF Failed
  <2>2. \A u \in Tasks : status'[u] = status[u] \/ (u \in {} \cup affected /\ status'[u] # "none")
    BY <1>1
  <2>3. {} \cup affected = affected /\ affected \subseteq runningTasks
    OBVIOUS
  <2> HIDE DEF affected
  <2>4. QED
    BY <1>1, <1>2, <2>1, <2>2, <2>3 DEF Departure
<1>4. WaitersTold
  BY <1>1 DEF WaitersTold
<1> HIDE DEF affected
<1>5. QED
  BY <1>1, <1>2, <1>3, <1>4, DepartureInv

\* The failure of an expired task, one of those collected before the loop.
LEMMA ExpireTaskInv ==
    ASSUME IInv, TypeOK', ExpireTask
    PROVE  IInv'
<1>0. TypeOK /\ AgentInv /\ JobsInv /\ WorkInv
  BY DEF IInv
<1>1. PICK t \in Head(jobs).overdue :
        /\ jobs' = <<Expire(Head(jobs).overdue \ {t})>> \o Tail(jobs)
        /\ promise' = Told(t, "rejected")
        /\ Fail(t)
  BY DEF ExpireTask
<1>2. /\ jobs # <<>> /\ Head(jobs).kind = "expire" /\ UNCHANGED <<starts, executing, phase>>
  BY DEF ExpireTask, Runs
<1> DEFINE due == Head(jobs).overdue \ {t}
           rest == TasksOf(jobs, "execute")
<1>3. /\ InOrder(Tail(jobs)) /\ OnlyExecutions(Tail(jobs)) /\ Tail(jobs) \in Seq(Job)
      /\ Head(jobs) \in Job
      /\ Suspended(jobs, {}, {}, {}, {}, rest, Head(jobs).overdue)
      /\ Suspended(Tail(jobs), {}, {}, {}, {}, rest, {})
  BY <1>0, <1>2, HeadOfProcessTasks DEF JobsInv
<1>4. t \in Tasks /\ due \in SUBSET Tasks
  BY <1>3, JobFields
<1>5. Expire(due) \in Job /\ Expire(due).kind = "expire" /\ Expire(due).overdue = due
  BY <1>4 DEF Expire, Job
<1>6. /\ InOrder(jobs')
      /\ Suspended(jobs', {}, {}, {}, {}, TasksOf(Tail(jobs), "execute"), due)
  BY <1>1, <1>3, <1>5, FrontJob DEF Timeless
<1>7. Departure({t}, Orphans(t))
  BY <1>0, <1>1, <1>3, <1>4, FailDeparts DEF Suspended
<1>8. promise'[t] # "waiting" /\ WaitersTold
  <2>1. Listening
    BY <1>0, <1>2 DEF JobsInv, Listening
  <2>2. QED
    BY <1>0, <1>1, <1>4, <2>1 DEF Told, WaitersTold, TypeOK
<1>9. due \in SUBSET DueOf(jobs) /\ rest \in SUBSET executing'
  BY <1>0, <1>2, <1>3 DEF Suspended, WorkInv
<1>10. Suspended(jobs', TasksOf(jobs, "assigned"), TasksOf(jobs, "dequeue"),
                 TasksOf(jobs, "unavailable"), TasksOf(jobs, "refused"), rest, due)
  BY <1>3, <1>6 DEF Suspended
<1>11. JobsInv'
  BY <1>0, <1>2, <1>6 DEF JobsInv
<1> HIDE DEF due, rest
<1>12. QED
  BY <1>2, <1>7, <1>8, <1>9, <1>10, <1>11, DepartureInv

-----------------------------------------------------------------------------
(* The steps that move no task.                                             *)

\* Steps that leave the scheduler's maps, the queue, the slots and the executions alone,
\* and of the statuses only change what IInv does not tell apart.
LEMMA NothingMoves ==
    ASSUME IInv, TypeOK', JobsInv',
           UNCHANGED <<pendingTasks, runningTasks, completedTasks, taskQueue, assignedTo,
                       slots, starts, executing>>,
           \A t \in Tasks : status'[t] = "none" <=> status[t] = "none",
           \A a \in Agents : Failed(a)' <=> Failed(a),
           WaitersTold,
           phase' = "down" => phase = "down" \/ \A t \in Tasks : promise'[t] # "waiting",
           NEW assigned, NEW dequeue, NEW refused,
           NEW due \in SUBSET (DueOf(jobs) \cup (runningTasks \ Queued)),
           Suspended(jobs', assigned, dequeue, TasksOf(jobs, "unavailable"), refused,
                     TasksOf(jobs, "execute"), due),
           assigned \cup dequeue \cup TasksOf(jobs, "unavailable") = Handled,
           \A t \in refused : taskQueue # <<>> /\ Head(taskQueue) = t
    PROVE  IInv'
<1>0. /\ TypeOK /\ JobsInv /\ QueueInv /\ QueueSorted /\ KnownInv /\ WorkInv /\ AgentInv
      /\ WaitInv /\ NoSlotLeak
  BY DEF IInv
<1>1. /\ TasksOf(jobs', "unavailable") = TasksOf(jobs, "unavailable")
      /\ TasksOf(jobs', "refused") = refused
      /\ TasksOf(jobs', "execute") = TasksOf(jobs, "execute") /\ DueOf(jobs') = due
      /\ Handled' = Handled
  BY DEF Suspended, Handled
<1>2. Queued' = Queued
  BY DEF Queued
<1>3. \A t \in Tasks : Untouched(t)' <=> Untouched(t)
  BY DEF Untouched
<1>4. Queued \subseteq Tasks
  BY <1>0 DEF Queued, TypeOK
<1>5. QueueInv'
  <2>1. due \cap Queued = {}
    BY <1>0 DEF QueueInv
  <2>2. \A t \in TasksOf(jobs, "unavailable") : Untouched(t)'
    BY <1>0 DEF QueueInv, Untouched
  <2>3. \A t \in Queued \ Handled : Untouched(t)'
    BY <1>0, <1>3, <1>4 DEF QueueInv
  <2>4. QED
    BY <1>0, <1>1, <1>2, <2>1, <2>2, <2>3 DEF QueueInv
<1>6. QueueSorted'
  BY <1>0 DEF QueueSorted
<1>7. KnownInv'
  <2> SUFFICES ASSUME NEW t \in Tasks
               PROVE  /\ (status[t] = "none" <=> promise[t] = "none")'
                      /\ status'[t] = "none" => /\ Untouched(t)'
                                               /\ t \notin pendingTasks' \cup runningTasks'
                                               /\ t \notin Queued' \cup DueOf(jobs')
    BY DEF KnownInv
  <2>1. promise'[t] = "none" <=> promise[t] = "none"
    BY DEF WaitersTold
  <2>2. QED
    BY <1>0, <1>1, <1>2, <1>3, <2>1 DEF KnownInv
<1>8. WorkInv'
  BY <1>0, <1>1 DEF WorkInv
<1>9. AgentInv'
  BY <1>0, <1>1 DEF AgentInv
<1>10. WaitInv'
  <2>1. completedTasks \subseteq Tasks /\ runningTasks \subseteq Tasks
    BY <1>0 DEF TypeOK
  <2>2. ASSUME NEW t \in Tasks, promise[t] # "waiting" PROVE promise'[t] # "waiting"
    BY <2>2 DEF WaitersTold
  <2>3. QED
    BY <1>0, <2>1, <2>2 DEF WaitInv, NoForgottenWaiter
<1>11. NoSlotLeak'
  BY <1>0 DEF NoSlotLeak, OfTenant
<1>12. QED
  BY <1>5, <1>6, <1>7, <1>8, <1>9, <1>10, <1>11 DEF IInv

\* The same, when the microtask queue is empty before and after.
LEMMA QuietNothingMoves ==
    ASSUME IInv, TypeOK', Quiet,
           UNCHANGED <<pendingTasks, runningTasks, completedTasks, taskQueue, assignedTo,
                       slots, starts, executing, jobs>>,
           \A t \in Tasks : status'[t] = "none" <=> status[t] = "none",
           \A a \in Agents : Failed(a)' <=> Failed(a),
           WaitersTold,
           phase' = "down" => phase = "down" \/ \A t \in Tasks : promise'[t] # "waiting"
    PROVE  IInv'
<1>1. /\ JobsInv' /\ Suspended(jobs, {}, {}, {}, {}, {}, {})
      /\ Suspended(jobs', TasksOf(jobs, "assigned"), TasksOf(jobs, "dequeue"),
                   TasksOf(jobs, "unavailable"), TasksOf(jobs, "refused"), {}, {})
  BY QuietJobs
<1>2. Suspended(jobs', {}, {}, TasksOf(jobs, "unavailable"), {}, TasksOf(jobs, "execute"), {})
  BY <1>1 DEF Suspended
<1>3. {} \cup {} \cup TasksOf(jobs, "unavailable") = Handled
  BY <1>1 DEF Handled, Suspended
<1>4. QED
  BY <1>1, <1>2, <1>3, NothingMoves

\* What deploys and retires agents, changes quotas, lets time pass and shuts down.
LEMMA EnvironmentInv ==
    ASSUME IInv, TypeOK',
           \/ \E t \in Tasks : DeadlinePasses(t)
           \/ \E a \in Agents : DeployAgent(a) \/ RetireAgent(a)
           \/ \E n \in Tenants, q \in Limits : RegisterTenantQuota(n, q)
           \/ SchedulerShutdown
           \/ SystemDown
    PROVE  IInv'
<1>0. TypeOK /\ KnownInv
  BY DEF IInv
<1>1. ASSUME NEW t \in Tasks, DeadlinePasses(t) PROVE IInv'
  <2>1. /\ Quiet
        /\ UNCHANGED <<pendingTasks, runningTasks, completedTasks, taskQueue, assignedTo, slots,
                       starts, executing, jobs>>
        /\ UNCHANGED <<status, agentStatus, promise, phase>>
    BY <1>1 DEF DeadlinePasses, schedVars
  <2>2. QED
    BY <2>1, QuietNothingMoves DEF Failed, WaitersTold
<1>2. ASSUME NEW a \in Agents, DeployAgent(a) \/ RetireAgent(a) PROVE IInv'
  <2>1. /\ Quiet
        /\ UNCHANGED <<pendingTasks, runningTasks, completedTasks, taskQueue, assignedTo, slots,
                       starts, executing, jobs>>
        /\ UNCHANGED <<status, promise, phase>>
    BY <1>2 DEF DeployAgent, RetireAgent, schedVars
  <2>2. \A b \in Agents : Failed(b)' <=> Failed(b)
    BY <1>0, <1>2 DEF DeployAgent, RetireAgent, Failed, TypeOK
  <2>3. QED
    BY <2>1, <2>2, QuietNothingMoves DEF WaitersTold
<1>3. ASSUME NEW n \in Tenants, NEW q \in Limits, RegisterTenantQuota(n, q) PROVE IInv'
  <2>1. /\ Quiet
        /\ UNCHANGED <<pendingTasks, runningTasks, completedTasks, taskQueue, assignedTo, slots,
                       starts, executing, jobs>>
        /\ UNCHANGED <<status, agentStatus, promise, phase>>
    BY <1>3 DEF RegisterTenantQuota, schedVars
  <2>2. QED
    BY <2>1, QuietNothingMoves DEF Failed, WaitersTold
<1>4. CASE SchedulerShutdown
  <2>1. /\ Quiet
        /\ UNCHANGED <<pendingTasks, runningTasks, completedTasks, taskQueue, assignedTo, slots,
                       starts, executing, jobs>>
        /\ UNCHANGED <<agentStatus, promise>>
        /\ phase' = "stopping"
        /\ status' = [t \in Tasks |-> IF t \in runningTasks THEN "cancelled" ELSE status[t]]
    BY <1>4 DEF SchedulerShutdown
  <2>2. \A t \in Tasks : status'[t] = "none" <=> status[t] = "none"
    BY <1>0, <2>1 DEF KnownInv
  <2>3. QED
    BY <2>1, <2>2, QuietNothingMoves DEF Failed, WaitersTold
<1>5. CASE SystemDown
  <2>1. /\ Quiet
        /\ UNCHANGED <<pendingTasks, runningTasks, completedTasks, taskQueue, assignedTo, slots,
                       starts, executing, jobs>>
        /\ UNCHANGED <<agentStatus, status>>
        /\ promise' = [t \in Tasks |-> IF promise[t] = "waiting" THEN "rejected" ELSE promise[t]]
    BY <1>5 DEF SystemDown, schedVars
  <2>2. WaitersTold /\ \A t \in Tasks : promise'[t] # "waiting"
    BY <2>1 DEF WaitersTold
  <2>3. QED
    BY <2>1, <2>2, QuietNothingMoves DEF Failed
<1>6. QED
  BY <1>1, <1>2, <1>3, <1>4, <1>5

\* Entering processTasks suspends only the tasks to be expired, none of which is queued.
LEMMA ProcessTasksInv ==
    ASSUME IInv, TypeOK', ProcessTasks
    PROVE  IInv'
<1> DEFINE due == runningTasks \cap pastDue
<1>0. TypeOK /\ QueueInv
  BY DEF IInv
<1>1. /\ Quiet /\ phase = "up" /\ jobs' = <<Expire(due)>>
      /\ UNCHANGED <<pendingTasks, runningTasks, completedTasks, taskQueue, assignedTo,
                     slots, starts, executing, status, agentStatus, promise, phase>>
  BY DEF ProcessTasks, schedVars
<1>2. Expire(due) \in Job /\ Expire(due).kind = "expire" /\ Expire(due).overdue = due
  BY <1>0 DEF Expire, Job, TypeOK
<1>3. jobs' = <<Expire(due)>> \o <<>> /\ <<>> \in Seq(Job)
  BY <1>1, <1>2
<1>4. InOrder(<<>>) /\ OnlyExecutions(<<>>) /\ TasksOf(<<>>, "execute") = {}
  BY DEF InOrder, OnlyExecutions, TasksOf
<1>5. InOrder(jobs') /\ Suspended(jobs', {}, {}, {}, {}, {}, due)
  BY <1>2, <1>3, <1>4, FrontJob DEF Timeless
<1>6. Suspended(jobs, {}, {}, {}, {}, {}, {})
  BY <1>1, NoJobs DEF Quiet
<1>7. Suspended(jobs', {}, {}, TasksOf(jobs, "unavailable"), {}, TasksOf(jobs, "execute"), due)
      /\ {} \cup {} \cup TasksOf(jobs, "unavailable") = Handled
  BY <1>5, <1>6 DEF Suspended, Handled
<1>8. due \in SUBSET (DueOf(jobs) \cup (runningTasks \ Queued))
  <2>1. Handled = {}
    BY <1>6 DEF Suspended, Handled
  <2>2. runningTasks \cap Queued = {}
    BY <1>0, <2>1 DEF QueueInv
  <2>3. QED
    BY <2>2
<1>9. JobsInv'
  BY <1>1, <1>5 DEF JobsInv
<1> HIDE DEF due
<1>10. QED
  BY <1>1, <1>7, <1>8, <1>9, NothingMoves DEF Failed, WaitersTold

\* With the expired tasks gone, processTasks goes on to its loop.
LEMMA EnterLoopInv ==
    ASSUME IInv, TypeOK', EnterLoop
    PROVE  IInv'
<1> DEFINE x == Loop({a \in Agents : Available(a)}, 0)
<1>0. TypeOK /\ JobsInv
  BY DEF IInv
<1>1. /\ jobs # <<>> /\ Head(jobs).kind = "expire" /\ jobs' = <<x>> \o Tail(jobs)
      /\ UNCHANGED <<pendingTasks, runningTasks, completedTasks, taskQueue, assignedTo,
                     slots, starts, executing, status, agentStatus, promise, phase>>
  BY DEF EnterLoop, Runs, schedVars
<1>2. /\ InOrder(Tail(jobs)) /\ OnlyExecutions(Tail(jobs)) /\ Tail(jobs) \in Seq(Job)
      /\ Suspended(jobs, {}, {}, {}, {}, TasksOf(jobs, "execute"), Head(jobs).overdue)
      /\ Suspended(Tail(jobs), {}, {}, {}, {}, TasksOf(jobs, "execute"), {})
  BY <1>0, <1>1, HeadOfProcessTasks DEF JobsInv
<1>3. x \in Job /\ x.kind = "loop"
  BY DEF Loop, Job
<1> HIDE DEF x
<1>4. InOrder(jobs') /\ Suspended(jobs', {}, {}, {}, {}, TasksOf(Tail(jobs), "execute"), {})
  BY <1>1, <1>2, <1>3, FrontJob DEF Timeless
<1>5. Suspended(jobs', {}, {}, TasksOf(jobs, "unavailable"), {}, TasksOf(jobs, "execute"), {})
      /\ {} \cup {} \cup TasksOf(jobs, "unavailable") = Handled
  BY <1>2, <1>4 DEF Suspended, Handled
<1>6. JobsInv'
  BY <1>0, <1>1, <1>4 DEF JobsInv
<1>7. QED
  BY <1>1, <1>5, <1>6, NothingMoves DEF Failed, WaitersTold

\* LeaveLoop and QuotaDeferred end the call of processTasks.
LEMMA CallEndsInv ==
    ASSUME IInv, TypeOK', LeaveLoop \/ QuotaDeferred
    PROVE  IInv'
<1>0. TypeOK /\ JobsInv
  BY DEF IInv
<1>1. /\ jobs # <<>> /\ Head(jobs).kind \in {"loop", "refused"} /\ jobs' = Tail(jobs)
      /\ UNCHANGED <<pendingTasks, runningTasks, completedTasks, taskQueue, assignedTo,
                     slots, starts, executing, status, agentStatus, promise, phase>>
  BY DEF LeaveLoop, QuotaDeferred, Runs, schedVars
<1>2. /\ InOrder(Tail(jobs))
      /\ TasksOf(jobs, "assigned") = {} /\ TasksOf(jobs, "dequeue") = {}
      /\ TasksOf(jobs, "unavailable") = {}
      /\ Suspended(Tail(jobs), {}, {}, {}, {}, TasksOf(jobs, "execute"), {})
  BY <1>0, <1>1, HeadOfProcessTasks DEF JobsInv, Suspended
<1>3. Suspended(jobs', {}, {}, TasksOf(jobs, "unavailable"), {}, TasksOf(jobs, "execute"), {})
      /\ {} \cup {} \cup TasksOf(jobs, "unavailable") = Handled
  BY <1>1, <1>2 DEF Handled
<1>4. JobsInv'
  BY <1>0, <1>1, <1>2 DEF JobsInv
<1>5. QED
  BY <1>1, <1>3, <1>4, NothingMoves DEF Failed, WaitersTold

\* A quota that refuses the head suspends the call; the task stays where it was.
LEMMA RefuseHeadInv ==
    ASSUME IInv, TypeOK', RefuseHead
    PROVE  IInv'
<1> DEFINE t == Head(taskQueue)
           x == Await("refused", t, Head(jobs).avail, Head(jobs).count)
<1>0. TypeOK /\ JobsInv
  BY DEF IInv
<1>1. /\ jobs # <<>> /\ Head(jobs).kind = "loop" /\ jobs' = Append(Tail(jobs), x)
      /\ taskQueue # <<>>
      /\ UNCHANGED <<pendingTasks, runningTasks, completedTasks, taskQueue, assignedTo,
                     slots, starts, executing, status, agentStatus, promise, phase>>
  BY DEF RefuseHead, Proceeds, Runs, schedVars
<1>2. /\ InOrder(Tail(jobs)) /\ OnlyExecutions(Tail(jobs)) /\ Tail(jobs) \in Seq(Job)
      /\ Head(jobs) \in Job
      /\ Suspended(jobs, {}, {}, {}, {}, TasksOf(jobs, "execute"), {})
      /\ Suspended(Tail(jobs), {}, {}, {}, {}, TasksOf(jobs, "execute"), {})
  BY <1>0, <1>1, HeadOfProcessTasks DEF JobsInv
<1>3. x \in Job /\ x.kind = "refused" /\ x.task = t
  <2>1. t \in Tasks /\ Head(jobs).avail \in SUBSET Agents /\ Head(jobs).count \in Nat
    BY <1>0, <1>1, <1>2, HeadOfQueue, JobFields
  <2>2. x \in Job
    BY <2>1, JobsMade DEF ControlKinds
  <2>3. QED
    BY <2>2 DEF Await
<1> HIDE DEF x, t
<1>5. /\ InOrder(jobs')
      /\ Suspended(jobs', {}, {}, {}, {t}, TasksOf(Tail(jobs), "execute"), {})
  BY <1>1, <1>2, <1>3, AppendContinuation
<1>7. Suspended(jobs', {}, {}, TasksOf(jobs, "unavailable"), {t}, TasksOf(jobs, "execute"), {})
      /\ {} \cup {} \cup TasksOf(jobs, "unavailable") = Handled
  BY <1>2, <1>5 DEF Suspended, Handled
<1>8. JobsInv'
  BY <1>0, <1>1, <1>5 DEF JobsInv
<1>9. \A u \in {t} : taskQueue # <<>> /\ Head(taskQueue) = u
  BY <1>1 DEF t
<1>10. QED
  BY <1>1, <1>7, <1>8, <1>9, NothingMoves DEF Failed, WaitersTold

\* An execution under way awaits once more.
LEMMA ExecuteTaskInv ==
    ASSUME IInv, TypeOK', ExecuteTask
    PROVE  IInv'
<1> DEFINE t == Head(jobs).task
           x == Execute(t, Head(jobs).count - 1)
<1>0. TypeOK /\ JobsInv /\ QueueInv
  BY DEF IInv
<1>1. /\ jobs # <<>> /\ Head(jobs).kind = "execute" /\ jobs' = Append(Tail(jobs), x)
      /\ Head(jobs).count > 0
      /\ UNCHANGED <<pendingTasks, runningTasks, completedTasks, taskQueue, assignedTo,
                     slots, starts, executing, status, agentStatus, promise, phase>>
  BY DEF ExecuteTask, Runs, schedVars
<1>2. /\ InOrder(Tail(jobs)) /\ Tail(jobs) \in Seq(Job)
      /\ Head(jobs) \in Job
      /\ \A i \in DOMAIN Tail(jobs) : Tail(jobs)[i].kind \notin Timeless
      /\ t \in TasksOf(jobs, "execute")
      /\ Suspended(Tail(jobs), TasksOf(jobs, "assigned"), TasksOf(jobs, "dequeue"),
                   TasksOf(jobs, "unavailable"), TasksOf(jobs, "refused"),
                   TasksOf(jobs, "execute") \ {t}, {})
  BY <1>0, <1>1, HeadOfExecution DEF JobsInv
<1>3. x \in Job /\ x.kind = "execute" /\ x.task = t
  <2>1. t \in Tasks /\ Head(jobs).count \in Nat
    BY <1>1, <1>2, JobFields
  <2>2. Head(jobs).count - 1 \in Nat
    BY <1>1, <2>1
  <2>3. QED
    BY <2>1, <2>2 DEF Execute, Job
<1> HIDE DEF x, t
<1>4. x.task \notin TasksOf(Tail(jobs), "execute")
  BY <1>2, <1>3 DEF Suspended
<1>5. /\ InOrder(jobs')
      /\ Suspended(jobs', TasksOf(Tail(jobs), "assigned"), TasksOf(Tail(jobs), "dequeue"),
                   TasksOf(Tail(jobs), "unavailable"), TasksOf(Tail(jobs), "refused"),
                   TasksOf(Tail(jobs), "execute") \cup {x.task}, {})
  BY <1>1, <1>2, <1>3, <1>4, AppendExecution
<1>7. Suspended(jobs', TasksOf(jobs, "assigned"), TasksOf(jobs, "dequeue"),
                TasksOf(jobs, "unavailable"), TasksOf(jobs, "refused"),
                TasksOf(jobs, "execute"), {})
  <2>1. (TasksOf(jobs, "execute") \ {t}) \cup {t} = TasksOf(jobs, "execute")
    BY <1>2
  <2>2. QED
    BY <1>2, <1>3, <1>5, <2>1 DEF Suspended
<1>8. JobsInv'
  BY <1>0, <1>1, <1>5 DEF JobsInv
<1>9. \A u \in TasksOf(jobs, "refused") : taskQueue # <<>> /\ Head(taskQueue) = u
  BY <1>0 DEF QueueInv
<1>10. TasksOf(jobs, "assigned") \cup TasksOf(jobs, "dequeue") \cup TasksOf(jobs, "unavailable") = Handled
  BY DEF Handled
<1>11. QED
  BY <1>1, <1>7, <1>8, <1>9, <1>10, NothingMoves DEF Failed, WaitersTold

\* assignTaskToAgent resumes: nothing but the task's status changes.
LEMMA TaskAssignedInv ==
    ASSUME IInv, TypeOK', TaskAssigned
    PROVE  IInv'
<1> DEFINE t == Head(jobs).task
           x == [Head(jobs) EXCEPT !.kind = "dequeue"]
<1>0. TypeOK /\ JobsInv /\ QueueInv /\ KnownInv
  BY DEF IInv
<1>1. /\ jobs # <<>> /\ Head(jobs).kind = "assigned" /\ jobs' = Append(Tail(jobs), x)
      /\ status' = [status EXCEPT ![t] = "running"]
      /\ UNCHANGED <<pendingTasks, runningTasks, completedTasks, taskQueue, assignedTo,
                     slots, starts, executing, agentStatus, promise, phase>>
  BY DEF TaskAssigned, Runs
<1>2. /\ InOrder(Tail(jobs)) /\ OnlyExecutions(Tail(jobs)) /\ Tail(jobs) \in Seq(Job)
      /\ Head(jobs) \in Job
      /\ Suspended(jobs, {t}, {}, {}, {}, TasksOf(jobs, "execute"), {})
      /\ Suspended(Tail(jobs), {}, {}, {}, {}, TasksOf(jobs, "execute"), {})
  BY <1>0, <1>1, HeadOfProcessTasks DEF JobsInv
<1>3. x \in Job /\ x.kind = "dequeue" /\ x.task = t
  BY <1>1, <1>2 DEF Job, ControlKinds
<1>5. t \in Queued /\ status[t] # "none"
  <2>1. taskQueue # <<>> /\ Head(taskQueue) = t
    BY <1>0, <1>2 DEF QueueInv, Handled, Suspended
  <2>2. t \in Queued /\ t \in Tasks
    BY <1>0, <2>1 DEF TypeOK, Queued
  <2>3. QED
    BY <1>0, <2>2 DEF KnownInv
<1> HIDE DEF x, t
<1>6. /\ InOrder(jobs')
      /\ Suspended(jobs', {}, {t}, {}, {}, TasksOf(Tail(jobs), "execute"), {})
  BY <1>1, <1>2, <1>3, AppendContinuation
<1>8. Suspended(jobs', {}, {t}, TasksOf(jobs, "unavailable"), {}, TasksOf(jobs, "execute"), {})
      /\ {} \cup {t} \cup TasksOf(jobs, "unavailable") = Handled
  BY <1>2, <1>6 DEF Suspended, Handled
<1>9. JobsInv'
  BY <1>0, <1>1, <1>6 DEF JobsInv
<1>10. \A u \in Tasks : status'[u] = "none" <=> status[u] = "none"
  BY <1>0, <1>1, <1>5 DEF TypeOK
<1>11. WaitersTold /\ \A a \in Agents : Failed(a)' <=> Failed(a)
  BY <1>1 DEF Failed, WaitersTold
<1>12. QED
  BY <1>1, <1>8, <1>9, <1>10, <1>11, NothingMoves

-----------------------------------------------------------------------------
(* The steps that move the head of the queue, and the one that adds to it.  *)

\* A submitted task enters the queue, untouched, and somebody waits for it.
LEMMA SubmitTaskInv ==
    ASSUME IInv, TypeOK', NEW t \in Tasks, SubmitTask(t)
    PROVE  IInv'
<1>0. /\ TypeOK /\ QueueInv /\ QueueSorted /\ KnownInv /\ WorkInv /\ AgentInv /\ WaitInv
      /\ NoSlotLeak
  BY DEF IInv
<1>1. /\ Quiet /\ status[t] = "none"
      /\ status' = [status EXCEPT ![t] = "pending"]
      /\ pendingTasks' = pendingTasks \cup {t}
      /\ taskQueue' = InsertByPriority(taskQueue, t)
      /\ promise' = [promise EXCEPT ![t] = "waiting"]
      /\ UNCHANGED <<runningTasks, completedTasks, assignedTo, agentStatus, slots, starts,
                     executing, phase, jobs>>
  BY DEF SubmitTask
<1>2. /\ JobsInv' /\ Suspended(jobs, {}, {}, {}, {}, {}, {}) /\ jobs' = jobs
      /\ Handled = {} /\ Handled' = {}
  BY <1>1, QuietJobs DEF Suspended, Handled
<1>3. Untouched(t) /\ t \notin runningTasks /\ t \notin Queued /\ promise[t] = "none"
  BY <1>0, <1>1 DEF KnownInv
<1>4. /\ QueueSorted'
      /\ Queued' = Queued \cup {t}
      /\ NoneTwice(taskQueue')
  <2>1. taskQueue \in Seq(Tasks) /\ Sorted(taskQueue) /\ NoneTwice(taskQueue)
        /\ Queued = EntriesOf(taskQueue) /\ Queued' = EntriesOf(taskQueue')
    BY <1>0 DEF TypeOK, QueueSorted, Sorted, QueueInv, Queued, EntriesOf
  <2>2. /\ Sorted(taskQueue')
        /\ EntriesOf(taskQueue') = EntriesOf(taskQueue) \cup {t}
        /\ NoneTwice(taskQueue')
    BY <1>1, <1>3, <2>1, InsertByPrioritySorted
  <2>3. QED
    BY <2>1, <2>2 DEF QueueSorted, Sorted
<1>5. QueueInv'
  <2>1. ASSUME NEW u \in Queued \cup {t}
        PROVE  Untouched(u)' /\ u \in pendingTasks' \ runningTasks'
    BY <1>0, <1>1, <1>2, <1>3 DEF QueueInv, Untouched
  <2>2. /\ TasksOf(jobs', "unavailable") = {} /\ TasksOf(jobs', "refused") = {}
        /\ DueOf(jobs') = {}
    BY <1>2 DEF Suspended
  <2>3. QED
    BY <1>2, <1>4, <2>1, <2>2 DEF QueueInv
<1>6. KnownInv'
  <2> SUFFICES ASSUME NEW u \in Tasks
               PROVE  /\ (status[u] = "none" <=> promise[u] = "none")'
                      /\ status'[u] = "none" => /\ Untouched(u)'
                                               /\ u \notin pendingTasks' \cup runningTasks'
                                               /\ u \notin Queued' \cup DueOf(jobs')
    BY DEF KnownInv
  <2>1. CASE u = t
    BY <1>0, <1>1, <2>1 DEF TypeOK
  <2>2. CASE u # t
    <3>1. status'[u] = status[u] /\ promise'[u] = promise[u]
      BY <1>0, <1>1, <2>2 DEF TypeOK
    <3>2. QED
      BY <1>0, <1>1, <1>2, <1>4, <2>2, <3>1 DEF KnownInv, Untouched
  <2>3. QED
    BY <2>1, <2>2
<1>7. WorkInv'
  BY <1>0, <1>1 DEF WorkInv
<1>8. AgentInv'
  BY <1>0, <1>1 DEF AgentInv, Failed
<1>9. WaitInv'
  <2>1. completedTasks \subseteq Tasks /\ runningTasks \subseteq Tasks
        /\ t \notin completedTasks \cup runningTasks
    BY <1>0, <1>3 DEF TypeOK, Untouched
  <2>2. \A u \in Tasks \ {t} : promise'[u] = promise[u]
    BY <1>0, <1>1 DEF TypeOK
  <2>3. QED
    BY <1>0, <1>1, <2>1, <2>2 DEF WaitInv, NoForgottenWaiter
<1>10. NoSlotLeak'
  BY <1>0, <1>1 DEF NoSlotLeak, OfTenant
<1>11. QED
  BY <1>2, <1>4, <1>5, <1>6, <1>7, <1>8, <1>9, <1>10 DEF IInv

\* A slot taken for a task that starts to run is covered by it.
LEMMA AcquiredCovers ==
    ASSUME TypeOK, NoSlotLeak, NEW t \in Tasks \ runningTasks, NEW n \in Tenants
    PROVE  Acquired(t)[n] <= Cardinality(OfTenant(runningTasks \cup {t}, n))
<1> DEFINE R == OfTenant(runningTasks, n)
<1>1. R \subseteq Tasks /\ t \notin R
  BY DEF OfTenant, TypeOK
<1>2. IsFiniteSet(R) /\ Cardinality(R) \in Nat
  BY <1>1, FS_Subset, FS_CardinalityType
<1>3. slots[n] \in Nat /\ slots[n] <= Cardinality(R)
  BY DEF TypeOK, NoSlotLeak
<1>4. Acquired(t)[n] \in {slots[n], slots[n] + 1}
      /\ (n # TenantOf[t] => Acquired(t)[n] = slots[n])
  BY DEF Acquired
<1>5. CASE n = TenantOf[t]
  <2>1. OfTenant(runningTasks \cup {t}, n) = R \cup {t}
    BY <1>5 DEF OfTenant
  <2> HIDE DEF R
  <2>2. Cardinality(R \cup {t}) = Cardinality(R) + 1
    BY <1>1, <1>2, FS_AddElement
  <2>3. QED
    BY <1>2, <1>3, <1>4, <2>1, <2>2
<1>6. CASE n # TenantOf[t]
  <2>1. OfTenant(runningTasks \cup {t}, n) = R
    BY <1>6 DEF OfTenant
  <2>2. QED
    BY <1>3, <1>4, <1>6, <2>1
<1>7. QED
  BY <1>5, <1>6

\* The head of the queue is given to an agent, or is about to be taken back from one that
\* has become unavailable.
LEMMA AssignHeadInv ==
    ASSUME IInv, TypeOK', AssignHead
    PROVE  IInv'
<1> DEFINE t == Head(taskQueue)
           resume(k) == Await(k, t, Head(jobs).avail, Head(jobs).count)
           going == TasksOf(jobs, "execute")
<1>0. /\ TypeOK /\ JobsInv /\ QueueInv /\ QueueSorted /\ KnownInv /\ WorkInv /\ AgentInv
      /\ WaitInv /\ NoSlotLeak
  BY DEF IInv
<1>1. /\ jobs # <<>> /\ Head(jobs).kind = "loop" /\ taskQueue # <<>>
      /\ slots' = Acquired(t)
      /\ status' = [status EXCEPT ![t] = "assigned"]
      /\ pendingTasks' = pendingTasks \ {t}
      /\ runningTasks' = runningTasks \cup {t}
      /\ UNCHANGED <<completedTasks, taskQueue, promise, phase>>
  BY DEF AssignHead, Runs, Proceeds
<1>2. PICK a \in Suitable(t) :
        /\ assignedTo' = [assignedTo EXCEPT ![t] = a]
        /\ \/ /\ Available(a)
              /\ agentStatus' = [agentStatus EXCEPT ![a] = "running"]
              /\ starts' = [starts EXCEPT ![t] = @ + 1]
              /\ executing' = executing \cup {t}
              /\ \/ jobs' = Append(Tail(jobs), resume("assigned"))
                 \/ \E h \in 0..MaxHops :
                    jobs' = Append(Append(Tail(jobs), Execute(t, h)), resume("assigned"))
           \/ /\ ~Available(a)
              /\ jobs' = Append(Tail(jobs), resume("unavailable"))
              /\ UNCHANGED <<agentStatus, starts, executing>>
  BY DEF AssignHead
<1>3. a \in Agents /\ agentStatus[a] \in AgentStatus \ {"absent", "retired"}
  BY <1>0, <1>2 DEF Suitable, Registered, TypeOK
<1>4. /\ InOrder(Tail(jobs)) /\ OnlyExecutions(Tail(jobs)) /\ Tail(jobs) \in Seq(Job)
      /\ Head(jobs) \in Job
      /\ Suspended(jobs, {}, {}, {}, {}, going, {})
      /\ Suspended(Tail(jobs), {}, {}, {}, {}, going, {})
  BY <1>0, <1>1, HeadOfProcessTasks DEF JobsInv
<1>5. t \in Tasks /\ t \in Queued
  BY <1>0, <1>1, HeadOfQueue DEF Queued, TypeOK
<1>6. Handled = {} /\ TasksOf(jobs, "unavailable") = {}
  BY <1>4 DEF Handled, Suspended
<1>7. Untouched(t) /\ t \notin runningTasks
  BY <1>0, <1>5, <1>6 DEF QueueInv
<1>8. \A k \in {"assigned", "unavailable"} :
        resume(k) \in Job /\ resume(k).kind = k /\ resume(k).task = t
  <2>1. Head(jobs).avail \in SUBSET Agents /\ Head(jobs).count \in Nat
    BY <1>4, JobFields
  <2>2. \A k \in {"assigned", "unavailable"} : resume(k) \in Job
    BY <1>5, <2>1, JobsMade DEF ControlKinds
  <2>3. QED
    BY <2>2 DEF Await
<1>9. phase' = "up"
  BY <1>0, <1>1 DEF JobsInv
<1>10. going \subseteq executing
  BY <1>0 DEF WorkInv
<1> HIDE DEF resume, going
<1>11. ASSUME /\ Available(a)
              /\ agentStatus' = [agentStatus EXCEPT ![a] = "running"]
              /\ starts' = [starts EXCEPT ![t] = @ + 1]
              /\ executing' = executing \cup {t}
              /\ \/ jobs' = Append(Tail(jobs), resume("assigned"))
                 \/ \E h \in 0..MaxHops :
                    jobs' = Append(Append(Tail(jobs), Execute(t, h)), resume("assigned"))
       PROVE /\ InOrder(jobs') /\ Handled' = {t} /\ TasksOf(jobs', "refused") = {}
             /\ DueOf(jobs') = {}
             /\ \A u \in Tasks \ {t} : Untouched(u) => Untouched(u)'
             /\ \A u \in TasksOf(jobs', "unavailable") : Untouched(u)' /\ u \in runningTasks'
             /\ WorkInv' /\ AgentInv'
  <2>1. /\ InOrder(jobs')
        /\ \E execute \in SUBSET executing' : Suspended(jobs', {t}, {}, {}, {}, execute, {})
    <3>1. CASE jobs' = Append(Tail(jobs), resume("assigned"))
      <4>1. /\ InOrder(jobs')
            /\ Suspended(jobs', {t}, {}, {}, {}, TasksOf(Tail(jobs), "execute"), {})
        BY <1>4, <1>8, <3>1, AppendContinuation
      <4>2. TasksOf(Tail(jobs), "execute") \in SUBSET executing'
        BY <1>4, <1>10, <1>11 DEF Suspended
      <4>3. QED
        BY <4>1, <4>2
    <3>2. CASE \E h \in 0..MaxHops :
                  jobs' = Append(Append(Tail(jobs), Execute(t, h)), resume("assigned"))
      <4>1. PICK h \in 0..MaxHops :
                  jobs' = Append(Append(Tail(jobs), Execute(t, h)), resume("assigned"))
        BY <3>2
      <4> DEFINE x == Execute(t, h)
                 js == Append(Tail(jobs), x)
      <4>2. x \in Job /\ x.kind = "execute" /\ x.task = t
        BY <1>5 DEF Execute, Job
      <4>3. x.task \notin TasksOf(Tail(jobs), "execute")
        BY <1>4, <1>7, <1>10, <4>2 DEF Suspended, Untouched
      <4>4. \A i \in DOMAIN Tail(jobs) : Tail(jobs)[i].kind \notin Timeless
        BY <1>4, OnlyExecutionsSuspended
      <4> HIDE DEF x
      <4>10. /\ InOrder(js) /\ js \in Seq(Job) /\ OnlyExecutions(js)
            /\ Suspended(js, TasksOf(Tail(jobs), "assigned"), TasksOf(Tail(jobs), "dequeue"),
                         TasksOf(Tail(jobs), "unavailable"), TasksOf(Tail(jobs), "refused"),
                         TasksOf(Tail(jobs), "execute") \cup {x.task}, {})
        BY <1>4, <4>2, <4>3, <4>4, AppendExecution
      <4>5. /\ InOrder(js) /\ js \in Seq(Job) /\ OnlyExecutions(js)
            /\ TasksOf(js, "execute") = TasksOf(Tail(jobs), "execute") \cup {t}
        BY <4>2, <4>10 DEF Suspended
      <4>6. jobs' = Append(js, resume("assigned"))
        BY <4>1 DEF x
      <4> HIDE DEF js
      <4>7. /\ InOrder(jobs')
            /\ Suspended(jobs', {t}, {}, {}, {}, TasksOf(js, "execute"), {})
        BY <1>8, <4>5, <4>6, AppendContinuation
      <4>8. TasksOf(js, "execute") \in SUBSET executing'
        BY <1>4, <1>10, <1>11, <4>5 DEF Suspended
      <4>9. QED
        BY <4>7, <4>8
    <3>3. QED
      BY <1>11, <3>1, <3>2
  <2>2. PICK execute \in SUBSET executing' : Suspended(jobs', {t}, {}, {}, {}, execute, {})
    BY <2>1
  <2>3. /\ Handled' = {t} /\ TasksOf(jobs', "refused") = {}
        /\ TasksOf(jobs', "unavailable") = {} /\ DueOf(jobs') = {}
        /\ TasksOf(jobs', "execute") = execute
    BY <2>2 DEF Suspended, Handled
  <2>4. \A u \in Tasks \ {t} : Untouched(u) => Untouched(u)'
    BY <1>0, <1>1, <1>11 DEF Untouched, TypeOK
  <2>5. WorkInv'
    <3>1. starts[t] = 0
      BY <1>7 DEF Untouched
    <3>2. starts'[t] = 1 /\ \A u \in Tasks \ {t} : starts'[u] = starts[u]
      BY <1>0, <1>5, <1>11, <3>1 DEF TypeOK
    <3>3. QED
      BY <1>0, <1>5, <1>11, <2>3, <3>2 DEF WorkInv, TypeOK
  <2>6. AgentInv'
    <3>1. ASSUME NEW u \in runningTasks'
          PROVE  assignedTo'[u] \in Agents /\ agentStatus'[assignedTo'[u]] \notin {"error", "offline"}
      <4>1. CASE u = t
        <5>1. assignedTo'[u] = a
          BY <1>0, <1>2, <1>5, <4>1 DEF TypeOK
        <5>2. agentStatus'[a] = "running"
          BY <1>0, <1>3, <1>11 DEF TypeOK
        <5>3. QED
          BY <1>3, <5>1, <5>2
      <4>2. CASE u # t
        <5>1. u \in runningTasks /\ u \in Tasks /\ assignedTo'[u] = assignedTo[u]
          BY <1>0, <1>1, <1>2, <4>2 DEF TypeOK
        <5>2. assignedTo[u] \in Agents /\ agentStatus[assignedTo[u]] \notin {"error", "offline"}
          BY <1>0, <1>6, <5>1 DEF AgentInv, Failed
        <5>3. agentStatus'[assignedTo[u]] \in {"running", agentStatus[assignedTo[u]]}
          BY <1>0, <1>3, <1>11, <5>2 DEF TypeOK
        <5>4. QED
          BY <5>1, <5>2, <5>3
      <4>3. QED
        BY <4>1, <4>2
    <3>2. QED
      BY <2>3, <3>1 DEF AgentInv, Failed
  <2>7. QED
    BY <2>1, <2>3, <2>4, <2>5, <2>6
<1>12. ASSUME /\ ~Available(a)
              /\ jobs' = Append(Tail(jobs), resume("unavailable"))
              /\ UNCHANGED <<agentStatus, starts, executing>>
       PROVE /\ InOrder(jobs') /\ Handled' = {t} /\ TasksOf(jobs', "refused") = {}
             /\ DueOf(jobs') = {}
             /\ \A u \in Tasks \ {t} : Untouched(u) => Untouched(u)'
             /\ \A u \in TasksOf(jobs', "unavailable") : Untouched(u)' /\ u \in runningTasks'
             /\ WorkInv' /\ AgentInv'
  <2>1. /\ InOrder(jobs')
        /\ Suspended(jobs', {}, {}, {t}, {}, TasksOf(Tail(jobs), "execute"), {})
    BY <1>4, <1>8, <1>12, AppendContinuation
  <2>2. /\ Handled' = {t} /\ TasksOf(jobs', "refused") = {}
        /\ TasksOf(jobs', "unavailable") = {t} /\ DueOf(jobs') = {}
        /\ TasksOf(jobs', "execute") = going
    BY <1>4, <2>1 DEF Suspended, Handled
  <2>3. \A u \in Tasks : Untouched(u) => Untouched(u)'
    BY <1>1, <1>12 DEF Untouched
  <2>4. WorkInv'
    BY <1>0, <1>10, <1>12, <2>2 DEF WorkInv
  <2>5. AgentInv'
    <3>1. ASSUME NEW u \in runningTasks'
          PROVE  /\ assignedTo'[u] \in Agents
                 /\ agentStatus'[assignedTo'[u]] \in {"error", "offline"} <=> u = t
      <4>1. CASE u = t
        <5>1. assignedTo'[u] = a
          BY <1>0, <1>2, <1>5, <4>1 DEF TypeOK
        <5>2. agentStatus'[a] \in {"error", "offline"}
          BY <1>3, <1>12 DEF Available, AgentStatus
        <5>3. QED
          BY <1>3, <4>1, <5>1, <5>2
      <4>2. CASE u # t
        <5>1. u \in runningTasks /\ u \in Tasks /\ assignedTo'[u] = assignedTo[u]
          BY <1>0, <1>1, <1>2, <4>2 DEF TypeOK
        <5>2. assignedTo[u] \in Agents /\ agentStatus[assignedTo[u]] \notin {"error", "offline"}
          BY <1>0, <1>6, <5>1 DEF AgentInv, Failed
        <5>3. QED
          BY <1>12, <4>2, <5>1, <5>2
      <4>3. QED
        BY <4>1, <4>2
    <3>2. QED
      BY <2>2, <3>1 DEF AgentInv, Failed
  <2>6. \A u \in Tasks : u = t => Untouched(u)' /\ u \in runningTasks'
    <3>1. \A u \in Tasks : u = t => Untouched(u)
      BY <1>7
    <3>2. QED
      BY <1>1, <2>3, <3>1
  <2>7. \A u \in TasksOf(jobs', "unavailable") : Untouched(u)' /\ u \in runningTasks'
    <3>1. \A u \in TasksOf(jobs', "unavailable") : u = t /\ u \in Tasks
      BY <1>5, <2>2
    <3>2. QED
      BY <2>6, <3>1
  <2>8. QED
    BY <2>1, <2>2, <2>3, <2>4, <2>5, <2>7
<1>13. /\ InOrder(jobs') /\ Handled' = {t} /\ TasksOf(jobs', "refused") = {}
       /\ DueOf(jobs') = {}
       /\ \A u \in Tasks \ {t} : Untouched(u) => Untouched(u)'
       /\ \A u \in TasksOf(jobs', "unavailable") : Untouched(u)' /\ u \in runningTasks'
       /\ WorkInv' /\ AgentInv'
  <2>1. CASE Available(a)
    <3>1. /\ agentStatus' = [agentStatus EXCEPT ![a] = "running"]
          /\ starts' = [starts EXCEPT ![t] = @ + 1]
          /\ executing' = executing \cup {t}
          /\ \/ jobs' = Append(Tail(jobs), resume("assigned"))
             \/ \E h \in 0..MaxHops :
                jobs' = Append(Append(Tail(jobs), Execute(t, h)), resume("assigned"))
      BY <1>2, <2>1
    <3>2. QED
      BY <1>11, <2>1, <3>1
  <2>2. CASE ~Available(a)
    <3>1. /\ jobs' = Append(Tail(jobs), resume("unavailable"))
          /\ UNCHANGED <<agentStatus, starts, executing>>
      BY <1>2, <2>2
    <3>2. QED
      BY <1>12, <2>2, <3>1
  <2>3. QED
    BY <2>1, <2>2
<1>14. JobsInv'
  BY <1>9, <1>13 DEF JobsInv
<1>15. Queued' = Queued /\ Queued \subseteq Tasks
  BY <1>0, <1>1 DEF Queued, TypeOK
<1>16. QueueInv'
  <2>1. ASSUME NEW u \in Queued \ {t}
        PROVE  Untouched(u)' /\ u \in pendingTasks' \ runningTasks'
    BY <1>0, <1>1, <1>6, <1>13, <1>15 DEF QueueInv
  <2>2. \A u \in Handled' \cup TasksOf(jobs', "refused") :
           taskQueue' # <<>> /\ Head(taskQueue') = u
    BY <1>1, <1>13
  <2>3. NoneTwice(taskQueue') /\ DueOf(jobs') \cap Queued' = {}
    BY <1>0, <1>1, <1>13 DEF QueueInv
  <2>4. \A u \in Queued' \ Handled' : Untouched(u)' /\ u \in pendingTasks' \ runningTasks'
    <3>1. Queued' \ Handled' = Queued \ {t}
      BY <1>13, <1>15
    <3>2. QED
      BY <2>1, <3>1
  <2>5. \A u \in TasksOf(jobs', "unavailable") : Untouched(u)' /\ u \in runningTasks'
    BY <1>13
  <2>6. QED
    BY <2>2, <2>3, <2>4, <2>5 DEF QueueInv
<1>17. QueueSorted'
  BY <1>0, <1>1 DEF QueueSorted
<1>18. KnownInv'
  <2>1. status[t] # "none" /\ promise[t] # "none"
    BY <1>0, <1>5 DEF KnownInv
  <2>2. ASSUME NEW u \in Tasks, u # t
        PROVE  /\ status'[u] = "none" <=> promise'[u] = "none"
               /\ status'[u] = "none" => /\ Untouched(u)'
                                        /\ u \notin pendingTasks' \cup runningTasks'
                                        /\ u \notin Queued' \cup DueOf(jobs')
    <3>1. status'[u] = status[u] /\ promise' = promise
      BY <1>0, <1>1, <2>2 DEF TypeOK
    <3>2. QED
      BY <1>0, <1>1, <1>13, <1>15, <2>2, <3>1 DEF KnownInv
  <2>3. status'[t] = "assigned" /\ promise'[t] # "none"
    BY <1>0, <1>1, <1>5, <2>1 DEF TypeOK
  <2>4. QED
    BY <2>2, <2>3 DEF KnownInv
<1>19. WaitInv'
  BY <1>0, <1>1, <1>9 DEF WaitInv, NoForgottenWaiter
<1>20. NoSlotLeak'
  BY <1>0, <1>1, <1>5, <1>7, AcquiredCovers DEF NoSlotLeak
<1>21. QED
  BY <1>13, <1>14, <1>16, <1>17, <1>18, <1>19, <1>20 DEF IInv

\* The assigned task leaves the queue, whose head it still is.
LEMMA DequeueInv ==
    ASSUME IInv, TypeOK', Dequeue
    PROVE  IInv'
<1> DEFINE t == Head(jobs).task
           x == Loop(Head(jobs).avail, Head(jobs).count + 1)
           going == TasksOf(jobs, "execute")
<1>0. /\ TypeOK /\ JobsInv /\ QueueInv /\ QueueSorted /\ KnownInv /\ WorkInv /\ AgentInv
      /\ WaitInv /\ NoSlotLeak
  BY DEF IInv
<1>1. /\ jobs # <<>> /\ Head(jobs).kind = "dequeue" /\ jobs' = <<x>> \o Tail(jobs)
      /\ taskQueue' = Shifted
      /\ UNCHANGED <<pendingTasks, runningTasks, completedTasks, status, assignedTo,
                     agentStatus, slots, starts, executing, promise, phase>>
  BY DEF Dequeue, Runs
<1>2. /\ InOrder(Tail(jobs)) /\ OnlyExecutions(Tail(jobs)) /\ Tail(jobs) \in Seq(Job)
      /\ Head(jobs) \in Job
      /\ Suspended(jobs, {}, {t}, {}, {}, going, {})
      /\ Suspended(Tail(jobs), {}, {}, {}, {}, going, {})
  BY <1>0, <1>1, HeadOfProcessTasks DEF JobsInv
<1>3. x \in Job /\ x.kind = "loop"
  BY <1>2, JobFields DEF Loop, Job
<1> HIDE DEF x, t, going
<1>4. InOrder(jobs') /\ Suspended(jobs', {}, {}, {}, {}, TasksOf(Tail(jobs), "execute"), {})
  BY <1>1, <1>2, <1>3, FrontJob DEF Timeless
<1>5. /\ Handled = {t} /\ Handled' = {} /\ TasksOf(jobs', "unavailable") = {}
      /\ TasksOf(jobs, "unavailable") = {}
      /\ TasksOf(jobs', "refused") = {} /\ TasksOf(jobs', "execute") = going /\ DueOf(jobs') = {}
  <2>1. /\ TasksOf(jobs', "assigned") = {} /\ TasksOf(jobs', "dequeue") = {}
        /\ TasksOf(jobs', "unavailable") = {} /\ TasksOf(jobs', "refused") = {}
        /\ TasksOf(jobs', "execute") = TasksOf(Tail(jobs), "execute") /\ DueOf(jobs') = {}
    BY <1>4 DEF Suspended
  <2>2. TasksOf(Tail(jobs), "execute") = going
    BY <1>2 DEF Suspended
  <2>3. Handled = {t} /\ TasksOf(jobs, "unavailable") = {}
    BY <1>2 DEF Suspended, Handled
  <2>4. QED
    BY <2>1, <2>2, <2>3 DEF Handled
<1>6. JobsInv'
  BY <1>0, <1>1, <1>4 DEF JobsInv
<1>7. taskQueue # <<>> /\ Head(taskQueue) = t
  BY <1>0, <1>5 DEF QueueInv
<1>8. QueueSorted' /\ NoneTwice(taskQueue') /\ Queued' = Queued \ {t}
  <2>1. taskQueue \in Seq(Tasks) /\ Sorted(taskQueue) /\ NoneTwice(taskQueue)
    BY <1>0 DEF TypeOK, QueueSorted, Sorted, QueueInv
  <2>2. taskQueue' = Tail(taskQueue)
    BY <1>1, <1>7 DEF Shifted
  <2>3. Sorted(taskQueue') /\ NoneTwice(taskQueue') /\ EntriesOf(taskQueue') = EntriesOf(taskQueue) \ {t}
    BY <1>7, <2>1, <2>2, ShiftedEntries
  <2>4. QED
    BY <2>3 DEF QueueSorted, Sorted, Queued, EntriesOf
<1>9. QueueInv'
  <2>1. \A u \in Queued' \ Handled' : Untouched(u)' /\ u \in pendingTasks' \ runningTasks'
    BY <1>0, <1>1, <1>5, <1>8 DEF QueueInv, Untouched
  <2>2. QED
    BY <1>5, <1>8, <2>1 DEF QueueInv
<1>10. KnownInv'
  BY <1>0, <1>1, <1>5, <1>8 DEF KnownInv, Untouched
<1>11. WorkInv' /\ AgentInv' /\ WaitInv' /\ NoSlotLeak'
  <2>1. WorkInv'
    BY <1>0, <1>1, <1>5 DEF WorkInv, going
  <2>2. AgentInv'
    BY <1>0, <1>1, <1>5 DEF AgentInv, Failed
  <2>3. WaitInv' /\ NoSlotLeak'
    BY <1>0, <1>1 DEF WaitInv, NoForgottenWaiter, NoSlotLeak, OfTenant
  <2>4. QED
    BY <2>1, <2>2, <2>3
<1>12. QED
  BY <1>6, <1>8, <1>9, <1>10, <1>11 DEF IInv

\* The assignment is undone: the task is pending again, and still the head of the queue.
LEMMA AgentUnavailableInv ==
    ASSUME IInv, TypeOK', AgentUnavailable
    PROVE  IInv'
<1> DEFINE t == Head(jobs).task
           going == TasksOf(jobs, "execute")
<1>0. /\ TypeOK /\ JobsInv /\ QueueInv /\ QueueSorted /\ KnownInv /\ WorkInv /\ AgentInv
      /\ WaitInv /\ NoSlotLeak
  BY DEF IInv
<1>1. /\ jobs # <<>> /\ Head(jobs).kind = "unavailable" /\ jobs' = Tail(jobs)
      /\ slots' = Released({t})
      /\ status' = [status EXCEPT ![t] = "pending"]
      /\ assignedTo' = [assignedTo EXCEPT ![t] = None]
      /\ runningTasks' = runningTasks \ {t}
      /\ pendingTasks' = pendingTasks \cup {t}
      /\ UNCHANGED <<completedTasks, taskQueue, agentStatus, starts, executing, promise, phase>>
  BY DEF AgentUnavailable, Runs
<1>2. /\ InOrder(jobs') /\ Head(jobs) \in Job
      /\ Suspended(jobs, {}, {}, {t}, {}, going, {})
      /\ Suspended(jobs', {}, {}, {}, {}, going, {})
  BY <1>0, <1>1, HeadOfProcessTasks DEF JobsInv
<1>3. t \in Tasks
  BY <1>1, <1>2, JobFields
<1> HIDE DEF t, going
<1>4. /\ Handled = {t} /\ Handled' = {} /\ TasksOf(jobs', "unavailable") = {}
      /\ TasksOf(jobs, "unavailable") = {t}
      /\ TasksOf(jobs', "refused") = {} /\ TasksOf(jobs', "execute") = going /\ DueOf(jobs') = {}
  BY <1>2 DEF Suspended, Handled
<1>5. JobsInv'
  BY <1>0, <1>1, <1>2 DEF JobsInv
<1>6. Untouched(t) /\ t \in runningTasks
  BY <1>0, <1>4 DEF QueueInv
<1>7. Queued' = Queued /\ Queued \subseteq Tasks /\ QueueSorted'
  BY <1>0, <1>1 DEF Queued, QueueSorted, TypeOK
<1>8. QueueInv'
  <2>1. \A u \in Queued' \ Handled' : Untouched(u)' /\ u \in pendingTasks' \ runningTasks'
    BY <1>0, <1>1, <1>4, <1>6, <1>7 DEF QueueInv, Untouched
  <2>2. QED
    BY <1>0, <1>1, <1>4, <2>1 DEF QueueInv
<1>9. KnownInv'
  <2>1. status[t] # "none" /\ status'[t] = "pending"
    BY <1>0, <1>1, <1>3, <1>6 DEF KnownInv, TypeOK
  <2>2. \A u \in Tasks \ {t} : status'[u] = status[u]
    BY <1>0, <1>1 DEF TypeOK
  <2>3. QED
    BY <1>0, <1>1, <1>4, <1>7, <2>1, <2>2 DEF KnownInv, Untouched
<1>10. WorkInv'
  BY <1>0, <1>1, <1>4 DEF WorkInv, going
<1>11. AgentInv'
  <2>1. \A u \in runningTasks' : u \in Tasks /\ u # t /\ assignedTo'[u] = assignedTo[u]
    BY <1>0, <1>1 DEF TypeOK
  <2>2. QED
    BY <1>0, <1>1, <1>4, <2>1 DEF AgentInv, Failed
<1>12. WaitInv'
  BY <1>0, <1>1 DEF WaitInv, NoForgottenWaiter
<1>13. NoSlotLeak'
  BY <1>0, <1>1, <1>3, ReleasedCovers DEF NoSlotLeak
<1>14. QED
  BY <1>5, <1>7, <1>8, <1>9, <1>10, <1>11, <1>12, <1>13 DEF IInv

\* The refused task is given up: it leaves the queue and its waiter is told.
LEMMA QuotaFailsInv ==
    ASSUME IInv, TypeOK', QuotaFails
    PROVE  IInv'
<1> DEFINE t == Head(jobs).task
           x == Loop(Head(jobs).avail, Head(jobs).count + 1)
           going == TasksOf(jobs, "execute")
<1>0. /\ TypeOK /\ JobsInv /\ QueueInv /\ QueueSorted /\ KnownInv /\ WorkInv /\ AgentInv
      /\ WaitInv /\ NoSlotLeak
  BY DEF IInv
<1>1. /\ jobs # <<>> /\ Head(jobs).kind = "refused" /\ jobs' = <<x>> \o Tail(jobs)
      /\ pendingTasks' = pendingTasks \ {t}
      /\ runningTasks' = runningTasks \ {t}
      /\ completedTasks' = completedTasks \cup {t}
      /\ taskQueue' = Shifted
      /\ status' = [status EXCEPT ![t] = "failed"]
      /\ promise' = Told(t, "rejected")
      /\ UNCHANGED <<assignedTo, agentStatus, slots, starts, executing, phase>>
  BY DEF QuotaFails, QueueWithout, Runs
<1>2. /\ InOrder(Tail(jobs)) /\ OnlyExecutions(Tail(jobs)) /\ Tail(jobs) \in Seq(Job)
      /\ Head(jobs) \in Job
      /\ Suspended(jobs, {}, {}, {}, {t}, going, {})
      /\ Suspended(Tail(jobs), {}, {}, {}, {}, going, {})
  BY <1>0, <1>1, HeadOfProcessTasks DEF JobsInv
<1>3. x \in Job /\ x.kind = "loop" /\ t \in Tasks
  BY <1>1, <1>2, JobFields DEF Loop, Job
<1> HIDE DEF x, t, going
<1>4. InOrder(jobs') /\ Suspended(jobs', {}, {}, {}, {}, TasksOf(Tail(jobs), "execute"), {})
  BY <1>1, <1>2, <1>3, FrontJob DEF Timeless
<1>5. /\ Handled = {} /\ Handled' = {} /\ TasksOf(jobs', "unavailable") = {}
      /\ TasksOf(jobs, "unavailable") = {} /\ TasksOf(jobs, "refused") = {t}
      /\ TasksOf(jobs', "refused") = {} /\ TasksOf(jobs', "execute") = going /\ DueOf(jobs') = {}
  <2>1. /\ TasksOf(jobs', "assigned") = {} /\ TasksOf(jobs', "dequeue") = {}
        /\ TasksOf(jobs', "unavailable") = {} /\ TasksOf(jobs', "refused") = {}
        /\ TasksOf(jobs', "execute") = TasksOf(Tail(jobs), "execute") /\ DueOf(jobs') = {}
    BY <1>4 DEF Suspended
  <2>2. TasksOf(Tail(jobs), "execute") = going
    BY <1>2 DEF Suspended
  <2>3. Handled = {} /\ TasksOf(jobs, "unavailable") = {} /\ TasksOf(jobs, "refused") = {t}
    BY <1>2 DEF Suspended, Handled
  <2>4. QED
    BY <2>1, <2>2, <2>3 DEF Handled
<1>6. JobsInv'
  BY <1>0, <1>1, <1>4 DEF JobsInv
<1>7. taskQueue # <<>> /\ Head(taskQueue) = t
  BY <1>0, <1>5 DEF QueueInv
<1>8. t \in Queued
  BY <1>0, <1>7 DEF Queued, TypeOK
<1>9. Untouched(t) /\ t \notin runningTasks /\ runningTasks' = runningTasks
  BY <1>0, <1>1, <1>5, <1>8 DEF QueueInv
<1>10. QueueSorted' /\ NoneTwice(taskQueue') /\ Queued' = Queued \ {t}
  <2>1. taskQueue \in Seq(Tasks) /\ Sorted(taskQueue) /\ NoneTwice(taskQueue)
    BY <1>0 DEF TypeOK, QueueSorted, Sorted, QueueInv
  <2>2. taskQueue' = Tail(taskQueue)
    BY <1>1, <1>7 DEF Shifted
  <2>3. Sorted(taskQueue') /\ NoneTwice(taskQueue') /\ EntriesOf(taskQueue') = EntriesOf(taskQueue) \ {t}
    BY <1>7, <2>1, <2>2, ShiftedEntries
  <2>4. QED
    BY <2>3 DEF QueueSorted, Sorted, Queued, EntriesOf
<1>11. QueueInv'
  <2>1. \A u \in Queued' \ Handled' : Untouched(u)' /\ u \in pendingTasks' \ runningTasks'
    BY <1>0, <1>1, <1>5, <1>9, <1>10 DEF QueueInv, Untouched
  <2>2. QED
    BY <1>5, <1>10, <2>1 DEF QueueInv
<1>12. promise'[t] # "waiting" /\ promise'[t] # "none"
       /\ \A u \in Tasks \ {t} : promise'[u] = promise[u]
  <2>1. Listening /\ promise[t] # "none"
    BY <1>0, <1>1, <1>3, <1>8 DEF JobsInv, Listening, KnownInv
  <2>2. QED
    BY <1>0, <1>1, <1>3, <2>1 DEF Told, TypeOK
<1>13. KnownInv'
  <2>1. status'[t] = "failed" /\ \A u \in Tasks \ {t} : status'[u] = status[u]
    BY <1>0, <1>1, <1>3 DEF TypeOK
  <2>2. ASSUME NEW u \in Tasks, u # t
        PROVE  /\ status'[u] = "none" <=> promise'[u] = "none"
               /\ status'[u] = "none" => /\ Untouched(u)'
                                        /\ u \notin pendingTasks' \cup runningTasks'
                                        /\ u \notin Queued' \cup DueOf(jobs')
    <3>1. status'[u] = status[u] /\ promise'[u] = promise[u]
      BY <1>12, <2>1, <2>2
    <3>2. Untouched(u) => Untouched(u)'
      BY <1>1, <2>2 DEF Untouched
    <3>3. QED
      BY <1>0, <1>1, <1>5, <1>9, <1>10, <3>1, <3>2 DEF KnownInv
  <2>3. QED
    BY <1>12, <2>1, <2>2 DEF KnownInv
<1>14. WorkInv'
  BY <1>0, <1>1, <1>5 DEF WorkInv, going
<1>15. AgentInv'
  BY <1>0, <1>1, <1>5, <1>9 DEF AgentInv, Failed
<1>16. WaitInv'
  <2>1. completedTasks \subseteq Tasks /\ runningTasks \subseteq Tasks /\ phase' # "down"
    BY <1>0, <1>1 DEF TypeOK, JobsInv
  <2>2. QED
    BY <1>0, <1>1, <1>12, <2>1 DEF WaitInv, NoForgottenWaiter
<1>17. NoSlotLeak'
  BY <1>0, <1>1, <1>9 DEF NoSlotLeak, OfTenant
<1>18. QED
  BY <1>6, <1>10, <1>11, <1>13, <1>14, <1>15, <1>16, <1>17 DEF IInv

-----------------------------------------------------------------------------
(* The theorems.                                                            *)

\* The initial states satisfy the invariant.
LEMMA InitInv == Init => IInv
<1> SUFFICES ASSUME Init PROVE IInv
  OBVIOUS
<1>1. TypeOK
  BY InitType
<1>2. InOrder(jobs) /\ Suspended(jobs, {}, {}, {}, {}, {}, {}) /\ JobsInv
  BY NoJobs DEF Init, JobsInv
<1>3. Queued = {} /\ NoneTwice(taskQueue) /\ QueueSorted
  BY DEF Init, Queued, NoneTwice, QueueSorted
<1>4. QueueInv
  <2>1. Handled = {} /\ TasksOf(jobs, "unavailable") = {} /\ TasksOf(jobs, "refused") = {}
        /\ DueOf(jobs) = {}
    BY <1>2 DEF Suspended, Handled
  <2>2. QED
    BY <1>3, <2>1 DEF QueueInv
<1>5. KnownInv /\ WorkInv /\ AgentInv /\ WaitInv
  BY <1>2, <1>3 DEF Init, KnownInv, Untouched, WorkInv, AgentInv, WaitInv, NoForgottenWaiter,
     Suspended
<1>6. NoSlotLeak
  <2>1. \A n : OfTenant({}, n) = {}
    BY DEF OfTenant
  <2>2. \A n \in Tenants : slots[n] = 0 /\ OfTenant(runningTasks, n) = {}
    BY <2>1 DEF Init
  <2>3. Cardinality({}) = 0
    BY ONLY FS_EmptySet, Zenon
  <2>4. \A n \in Tenants : slots[n] = 0 /\ Cardinality(OfTenant(runningTasks, n)) = 0
    BY <2>2, <2>3
  <2>5. QED
    BY <2>4 DEF NoSlotLeak
<1>7. QED
  BY <1>1, <1>2, <1>3, <1>4, <1>5, <1>6 DEF IInv

\* Every step keeps the invariant.
LEMMA StepInv == IInv /\ [Next]_vars => IInv'
<1> SUFFICES ASSUME IInv, [Next]_vars PROVE IInv'
  OBVIOUS
<1>1. TypeOK'
  BY StepType DEF IInv
<1>2. ASSUME NEW t \in Tasks,
             SubmitTask(t) \/ ExecutionSettles(t) \/ ResultTimeout(t) \/ DeadlinePasses(t)
      PROVE  IInv'
  BY <1>1, <1>2, SubmitTaskInv, ExecutionSettlesInv, ResultTimeoutInv, EnvironmentInv
<1>3. ASSUME NEW a \in Agents, DeployAgent(a) \/ RetireAgent(a) \/ AgentMissesHeartbeat(a)
      PROVE  IInv'
  BY <1>1, <1>3, AgentMissesHeartbeatInv, EnvironmentInv
<1>4. ASSUME NEW n \in Tenants, NEW q \in Limits, RegisterTenantQuota(n, q) PROVE IInv'
  BY <1>1, <1>4, EnvironmentInv
<1>5. CASE ProcessTasks \/ SchedulerShutdown \/ SystemDown
  BY <1>1, <1>5, ProcessTasksInv, EnvironmentInv
<1>6. CASE Microtask
  BY <1>1, <1>6, ExpireTaskInv, EnterLoopInv, CallEndsInv, RefuseHeadInv, AssignHeadInv,
     ExecuteTaskInv, ExecutionReturnsInv, TaskAssignedInv, DequeueInv, AgentUnavailableInv,
     QuotaFailsInv DEF Microtask
<1>7. CASE UNCHANGED vars
  <2>1. UNCHANGED <<pendingTasks, runningTasks, completedTasks, taskQueue, status, assignedTo,
                    agentStatus, slots, starts, executing, promise, phase, jobs>>
    BY <1>7 DEF vars
  <2>2. Queued' = Queued /\ Handled' = Handled
    BY <2>1 DEF Queued, Handled
  <2>3. JobsInv' /\ QueueInv' /\ QueueSorted'
    BY <2>1, <2>2 DEF IInv, JobsInv, QueueInv, Untouched, QueueSorted
  <2>4. KnownInv' /\ WorkInv'
    BY <2>1, <2>2 DEF IInv, KnownInv, Untouched, WorkInv
  <2>5. AgentInv' /\ WaitInv' /\ NoSlotLeak'
    BY <2>1 DEF IInv, AgentInv, Failed, WaitInv, NoForgottenWaiter, NoSlotLeak, OfTenant
  <2>6. QED
    BY <1>1, <2>3, <2>4, <2>5 DEF IInv
<1>8. QED
  BY <1>2, <1>3, <1>4, <1>5, <1>6, <1>7 DEF Next

\* In every reachable state, in the middle of processTasks too, the invariant holds.
LEMMA Invariance == Spec => []IInv
  BY InitInv, StepInv, PTL DEF Spec

\* Slots do not leak: no interleaving of executions, timeouts, expirations, missed heartbeats
\* and quota changes leaves a tenant with more slots taken than it has running tasks.
THEOREM SlotsDoNotLeak == Spec => []NoSlotLeak
<1>1. IInv => NoSlotLeak
  BY DEF IInv
<1>2. QED
  BY <1>1, Invariance, PTL

\* What the invariant says of the books between two turns of the event loop.
LEMMA SoundBooks == IInv => BooksAreSound
<1> SUFFICES ASSUME IInv PROVE BooksAreSound
  OBVIOUS
<1>1. TypeOK /\ QueueInv /\ QueueSorted /\ AgentInv /\ WaitInv
  BY DEF IInv
<1>2. ASSUME Quiet PROVE Handled = {} /\ TasksOf(jobs, "unavailable") = {}
  BY <1>2, NoJobs DEF Quiet, Suspended, Handled
<1>3. QueuedIsPending
  <2>1. Cardinality(Queued) = Len(taskQueue)
    BY <1>1, EntriesCount DEF QueueInv, TypeOK, Queued, EntriesOf
  <2>2. Quiet => Queued \subseteq pendingTasks \ (runningTasks \cup completedTasks)
    BY <1>1, <1>2 DEF QueueInv, Untouched
  <2>3. QED
    BY <2>1, <2>2 DEF QueuedIsPending
<1>4. FailedAgentHoldsNothing
  BY <1>1, <1>2 DEF FailedAgentHoldsNothing, AgentInv, Failed
<1>5. QED
  BY <1>1, <1>3, <1>4 DEF BooksAreSound, WaitInv

\* The books of the scheduler agree with one another and with the callers, whatever the order
\* in which assignments, failures, expirations and timeouts interleave: the queue is sorted and
\* holds each waiting task once, no running task has a failed agent, and nobody waits for a
\* task that has been filed.
THEOREM BooksStaySound == Spec => []BooksAreSound
  BY SoundBooks, Invariance, PTL

-----------------------------------------------------------------------------
(* The contract: every step of the scheduler, the agents and the system is  *)
(* a step of TaskContract or changes nothing it speaks of.                  *)

\* What the contract sees of the work on a task.
WorkOn(t) == IF starts[t] = 0 THEN "unstarted"
             ELSE IF starts[t] = 1 /\ t \in executing THEN "going on"
             ELSE IF starts[t] = 1 THEN "over" ELSE "repeated"
Work == [t \in Tasks |-> WorkOn(t)]

\* The contract's steps, said of the mapped variables.
LEMMA ContractSteps ==
    ASSUME \/ UNCHANGED <<Work, promise>>
           \/ \E t \in Tasks : /\ promise[t] = "none" /\ UNCHANGED Work
                               /\ promise' = [promise EXCEPT ![t] = "waiting"]
           \/ \E t \in Tasks : /\ Work[t] = "unstarted" /\ promise[t] # "none"
                               /\ Work' = [Work EXCEPT ![t] = "going on"]
                               /\ UNCHANGED promise
           \/ \E t \in Tasks :
                 /\ Work[t] = "going on"
                 /\ Work' = [Work EXCEPT ![t] = "over"]
                 /\ \/ UNCHANGED promise
                    \/ /\ promise[t] = "waiting"
                       /\ \E r \in {"resolved", "rejected"} :
                             promise' = [promise EXCEPT ![t] = r]
           \/ \E S \in SUBSET Tasks :
                 /\ \A t \in S : promise[t] = "waiting"
                 /\ promise' = [t \in Tasks |-> IF t \in S THEN "rejected" ELSE promise[t]]
                 /\ UNCHANGED Work
    PROVE  [Contract!Next]_(Contract!vars)
  BY DEF Work, WorkOn, Contract!Next, Contract!vars, Contract!Ask, Contract!Begin, Contract!End,
         Contract!TurnAway

\* Where no task is started and none settles, the work is what it was.
LEMMA WorkStands == ASSUME UNCHANGED <<starts, executing>> PROVE Work' = Work
  BY DEF Work, WorkOn

\* A step that leaves the work and the answers alone is a stutter.
LEMMA Stutters ==
    ASSUME UNCHANGED <<starts, executing, promise>>
    PROVE  [Contract!Next]_(Contract!vars)
  BY WorkStands, ContractSteps

\* A caller told of a failure is turned away, unless nobody was waiting.
LEMMA ToldIsTurnedAway ==
    ASSUME TypeOK, NEW t \in Tasks, promise' = Told(t, "rejected"),
           UNCHANGED <<starts, executing>>
    PROVE  [Contract!Next]_(Contract!vars)
<1>1. CASE Listening /\ promise[t] = "waiting"
  <2>1. promise' = [u \in Tasks |-> IF u \in {t} THEN "rejected" ELSE promise[u]]
    BY <1>1 DEF Told, TypeOK
  <2>2. {t} \in SUBSET Tasks /\ \A u \in {t} : promise[u] = "waiting"
    BY <1>1
  <2>3. QED
    BY <2>1, <2>2, WorkStands, ContractSteps
<1>2. CASE ~(Listening /\ promise[t] = "waiting")
  BY <1>2, Stutters DEF Told
<1>3. QED
  BY <1>1, <1>2

-----------------------------------------------------------------------------
(* The steps the contract speaks of.                                        *)

\* submitTask asks, for a task nobody has asked for.
LEMMA SubmitTaskAsks ==
    ASSUME IInv, NEW t \in Tasks, SubmitTask(t)
    PROVE  [Contract!Next]_(Contract!vars)
<1>1. /\ status[t] = "none" /\ promise' = [promise EXCEPT ![t] = "waiting"]
      /\ UNCHANGED <<starts, executing>>
  BY DEF SubmitTask
<1>2. promise[t] = "none"
  BY <1>1 DEF IInv, KnownInv
<1>3. QED
  BY <1>1, <1>2, WorkStands, ContractSteps

\* The end of an execution ends the work; its outcome goes to a caller that waits.
LEMMA SettleEnds ==
    ASSUME IInv, NEW t \in executing, Settle(t), UNCHANGED starts
    PROVE  [Contract!Next]_(Contract!vars)
<1>1. t \in Tasks /\ starts[t] = 1 /\ TypeOK
  BY DEF IInv, TypeOK, WorkInv
<1>2. Work[t] = "going on"
  BY <1>1 DEF Work, WorkOn
<1>3. executing' = executing \ {t}
  BY DEF Settle
<1>4. Work' = [Work EXCEPT ![t] = "over"]
  <2>1. WorkOn(t)' = "over"
    BY <1>1, <1>3 DEF WorkOn
  <2>2. \A u \in Tasks : u # t => WorkOn(u)' = WorkOn(u)
    BY <1>3 DEF WorkOn
  <2>3. QED
    BY <2>1, <2>2 DEF Work
<1>5. \/ UNCHANGED promise
      \/ /\ promise[t] = "waiting"
         /\ \E r \in {"resolved", "rejected"} : promise' = [promise EXCEPT ![t] = r]
  BY DEF Settle, Told
<1>6. QED
  BY <1>1, <1>2, <1>4, <1>5, ContractSteps

\* The timer of waitForTaskResult turns its caller away.
LEMMA ResultTimeoutTurnsAway ==
    ASSUME IInv, NEW t \in Tasks, ResultTimeout(t)
    PROVE  [Contract!Next]_(Contract!vars)
<1>1. /\ promise[t] = "waiting" /\ promise' = [promise EXCEPT ![t] = "rejected"]
      /\ UNCHANGED <<starts, executing>>
  BY DEF ResultTimeout
<1>2. promise' = [u \in Tasks |-> IF u \in {t} THEN "rejected" ELSE promise[u]]
  BY <1>1 DEF IInv, TypeOK
<1>3. {t} \in SUBSET Tasks /\ \A u \in {t} : promise[u] = "waiting"
  BY <1>1
<1>4. QED
  BY <1>1, <1>2, <1>3, WorkStands, ContractSteps

\* The end of the system's shutdown turns every waiting caller away.
LEMMA SystemDownTurnsAway ==
    ASSUME IInv, SystemDown
    PROVE  [Contract!Next]_(Contract!vars)
<1> DEFINE S == {t \in Tasks : promise[t] = "waiting"}
<1>1. promise' = [t \in Tasks |-> IF t \in S THEN "rejected" ELSE promise[t]]
  BY DEF SystemDown
<1>2. S \in SUBSET Tasks /\ \A t \in S : promise[t] = "waiting"
  OBVIOUS
<1>3. UNCHANGED <<starts, executing>>
  BY DEF SystemDown
<1> HIDE DEF S
<1>4. QED
  BY <1>1, <1>2, <1>3, WorkStands, ContractSteps

\* An expired task and one its quota keeps out fail: their callers are turned away.
LEMMA FailuresTurnAway ==
    ASSUME IInv, ExpireTask \/ QuotaFails
    PROVE  [Contract!Next]_(Contract!vars)
<1>1. TypeOK
  BY DEF IInv
<1>2. \E t \in Tasks : promise' = Told(t, "rejected")
  <2>1. CASE ExpireTask
    <3>1. jobs # <<>> /\ \E t \in Head(jobs).overdue : promise' = Told(t, "rejected")
      BY <2>1 DEF ExpireTask, Runs
    <3>2. Head(jobs) \in Job
      BY <1>1, <3>1 DEF TypeOK
    <3>3. QED
      BY <3>1, <3>2, JobFields
  <2>2. CASE QuotaFails
    <3>1. /\ jobs # <<>> /\ Head(jobs).kind = "refused"
          /\ promise' = Told(Head(jobs).task, "rejected")
      BY <2>2 DEF QuotaFails, Runs
    <3>2. Head(jobs) \in Job
      BY <1>1, <3>1 DEF TypeOK
    <3>3. QED
      BY <3>1, <3>2, JobFields
  <2>3. QED
    BY <2>1, <2>2
<1>3. UNCHANGED <<starts, executing>>
  BY DEF ExpireTask, QuotaFails
<1>4. QED
  BY <1>1, <1>2, <1>3, ToldIsTurnedAway

\* An agent begins the head of the queue, which nobody has begun and somebody asked for.
LEMMA AssignHeadBegins ==
    ASSUME IInv, AssignHead
    PROVE  [Contract!Next]_(Contract!vars)
<1> DEFINE t == Head(taskQueue)
<1>0. TypeOK /\ JobsInv /\ QueueInv /\ KnownInv
  BY DEF IInv
<1>1. jobs # <<>> /\ Head(jobs).kind = "loop" /\ taskQueue # <<>> /\ UNCHANGED promise
  BY DEF AssignHead, Runs, Proceeds
<1>2. \/ /\ starts' = [starts EXCEPT ![t] = @ + 1]
         /\ executing' = executing \cup {t}
      \/ UNCHANGED <<starts, executing>>
  BY DEF AssignHead
<1>3. t \in Tasks /\ t \in Queued
  BY <1>0, <1>1, HeadOfQueue DEF Queued, TypeOK
<1>4. Handled = {}
  <2>1. Suspended(jobs, {}, {}, {}, {}, TasksOf(jobs, "execute"), {})
    BY <1>0, <1>1, HeadOfProcessTasks DEF JobsInv
  <2>2. QED
    BY <2>1 DEF Handled, Suspended
<1>5. starts[t] = 0 /\ promise[t] # "none"
  BY <1>0, <1>3, <1>4 DEF QueueInv, Untouched, KnownInv
<1> HIDE DEF t
<1>6. CASE UNCHANGED <<starts, executing>>
  BY <1>1, <1>6, Stutters
<1>7. CASE /\ starts' = [starts EXCEPT ![t] = @ + 1]
           /\ executing' = executing \cup {t}
  <2>1. Work[t] = "unstarted"
    BY <1>3, <1>5 DEF Work, WorkOn
  <2>2. starts'[t] = 1 /\ \A u \in Tasks \ {t} : starts'[u] = starts[u]
    BY <1>0, <1>3, <1>5, <1>7 DEF TypeOK
  <2>3. \A u \in Tasks \ {t} : WorkOn(u)' = WorkOn(u)
    BY <1>7, <2>2 DEF WorkOn
  <2>4. \A u \in Tasks : u = t => WorkOn(u)' = "going on"
    BY <1>7, <2>2 DEF WorkOn
  <2>5. Work' = [Work EXCEPT ![t] = "going on"]
    BY <1>3, <2>3, <2>4 DEF Work
  <2>6. QED
    BY <1>1, <1>3, <1>5, <2>1, <2>5, ContractSteps
<1>8. QED
  BY <1>2, <1>6, <1>7

\* Every step of the scheduler is a step of the contract, or none.
LEMMA ContractStep == IInv /\ [Next]_vars => [Contract!Next]_(Contract!vars)
<1> SUFFICES ASSUME IInv, [Next]_vars PROVE [Contract!Next]_(Contract!vars)
  OBVIOUS
<1>1. ASSUME NEW t \in Tasks,
             SubmitTask(t) \/ ExecutionSettles(t) \/ ResultTimeout(t) \/ DeadlinePasses(t)
      PROVE  [Contract!Next]_(Contract!vars)
  <2>1. CASE SubmitTask(t)
    BY <2>1, SubmitTaskAsks
  <2>2. CASE ExecutionSettles(t)
    BY <2>2, SettleEnds DEF ExecutionSettles
  <2>3. CASE ResultTimeout(t)
    BY <2>3, ResultTimeoutTurnsAway
  <2>4. CASE DeadlinePasses(t)
    BY <2>4, Stutters DEF DeadlinePasses
  <2>5. QED
    BY <1>1, <2>1, <2>2, <2>3, <2>4
<1>2. ASSUME NEW a \in Agents, DeployAgent(a) \/ RetireAgent(a) \/ AgentMissesHeartbeat(a)
      PROVE  [Contract!Next]_(Contract!vars)
  BY <1>2, Stutters DEF DeployAgent, RetireAgent, AgentMissesHeartbeat
<1>3. ASSUME NEW n \in Tenants, NEW q \in Limits, RegisterTenantQuota(n, q)
      PROVE  [Contract!Next]_(Contract!vars)
  BY <1>3, Stutters DEF RegisterTenantQuota
<1>4. CASE ProcessTasks \/ SchedulerShutdown
  BY <1>4, Stutters DEF ProcessTasks, SchedulerShutdown
<1>5. CASE SystemDown
  BY <1>5, SystemDownTurnsAway
<1>6. CASE Microtask
  <2>1. CASE ExpireTask \/ QuotaFails
    BY <2>1, FailuresTurnAway
  <2>2. CASE AssignHead
    BY <2>2, AssignHeadBegins
  <2>3. CASE ExecutionReturns
    <3>1. Head(jobs).task \in executing
      <4>1. jobs # <<>> /\ Head(jobs).kind = "execute"
        BY <2>3 DEF ExecutionReturns, Runs
      <4>2. Head(jobs).task \in TasksOf(jobs, "execute")
        BY <4>1, HeadOfExecution DEF IInv, JobsInv
      <4>3. QED
        BY <4>2 DEF IInv, WorkInv
    <3>2. Settle(Head(jobs).task) /\ UNCHANGED starts
      BY <2>3 DEF ExecutionReturns
    <3>3. QED
      BY <3>1, <3>2, SettleEnds
  <2>4. CASE \/ EnterLoop \/ LeaveLoop \/ RefuseHead \/ ExecuteTask
    BY <2>4, Stutters DEF EnterLoop, LeaveLoop, RefuseHead, ExecuteTask
  <2>5. CASE TaskAssigned \/ Dequeue \/ AgentUnavailable \/ QuotaDeferred
    BY <2>5, Stutters DEF TaskAssigned, Dequeue, AgentUnavailable, QuotaDeferred
  <2>6. QED
    BY <1>6, <2>1, <2>2, <2>3, <2>4, <2>5 DEF Microtask
<1>7. CASE UNCHANGED vars
  BY <1>7, Stutters DEF vars
<1>8. QED
  BY <1>1, <1>2, <1>3, <1>4, <1>5, <1>6, <1>7 DEF Next

\* The scheduler, the agents and the system keep TaskContract: no interleaving of executions,
\* retried assignments, timeouts, expirations and a shutdown has an agent work on a task twice,
\* answers a caller twice, or resolves it by anything but the end of its own task's work.
THEOREM SchedulerKeepsContract == Spec => KeepsContract
<1>1. Init => Contract!Init
  BY DEF Init, Contract!Init
<1>2. QED
  BY <1>1, ContractStep, Invariance, PTL DEF Spec, KeepsContract, Contract!Spec

-----------------------------------------------------------------------------
(* Quotas.                                                                  *)

\* The jobs that have nothing to expire.
Timely == {j \in Job : j.overdue = {}}

\* The count of a tenant is that of its running tasks, and within the quota.
Exact == \A n \in Tenants :
            slots[n] = IF limit[n] = None THEN 0 ELSE Cardinality(OfTenant(runningTasks, n))
WithinQuota == \A n \in Tenants : limit[n] # None => slots[n] <= limit[n]

QInv == IInv /\ pastDue = {} /\ jobs \in Seq(Timely) /\ Exact /\ WithinQuota

\* Slots given back for running tasks are counted exactly.
LEMMA ReleasedExactly ==
    ASSUME TypeOK, Exact, NEW T \in SUBSET runningTasks, NEW n \in Tenants
    PROVE  /\ Released(T)[n] = IF limit[n] = None THEN 0
                               ELSE Cardinality(OfTenant(runningTasks \ T, n))
           /\ Released(T)[n] <= slots[n]
<1> DEFINE R == OfTenant(runningTasks, n)
           S == OfTenant(T, n)
<1>1. S \subseteq R /\ R \subseteq Tasks
  BY DEF OfTenant, TypeOK
<1>2. OfTenant(runningTasks \ T, n) = R \ S
  BY DEF OfTenant
<1>3. slots[n] \in Nat /\ slots[n] = IF limit[n] = None THEN 0 ELSE Cardinality(R)
  BY DEF TypeOK, Exact
<1>4. Released(T)[n] = IF Cardinality(S) >= slots[n] THEN 0 ELSE slots[n] - Cardinality(S)
  BY DEF Released
<1> HIDE DEF R, S
<1>5. IsFiniteSet(R)
  BY <1>1, FS_Subset
<1>6. IsFiniteSet(S) /\ R \cap S = S
  BY <1>1, <1>5, FS_Subset
<1>7. Cardinality(R \ S) = Cardinality(R) - Cardinality(S)
  BY <1>5, <1>6, FS_Difference
<1>8. Cardinality(S) <= Cardinality(R)
  BY <1>1, <1>5, FS_Subset
<1>9. Cardinality(R) \in Nat /\ Cardinality(S) \in Nat
  BY <1>5, <1>6, FS_CardinalityType
<1> DEFINE all == Cardinality(R)
           back == Cardinality(S)
<1>10. /\ all \in Nat /\ back \in Nat /\ back <= all
       /\ Cardinality(OfTenant(runningTasks \ T, n)) = all - back
       /\ slots[n] \in Nat /\ slots[n] = IF limit[n] = None THEN 0 ELSE all
       /\ Released(T)[n] = IF back >= slots[n] THEN 0 ELSE slots[n] - back
  BY <1>2, <1>3, <1>4, <1>7, <1>8, <1>9
<1> HIDE DEF all, back
<1>11. QED
  BY <1>10

\* A step in which running tasks leave and give back their slots.
LEMMA LeavingKeepsQuota ==
    ASSUME TypeOK, TypeOK', Exact, WithinQuota, NEW T \in SUBSET runningTasks,
           runningTasks' = runningTasks \ T, slots' = Released(T), limit' = limit
    PROVE  Exact' /\ WithinQuota'
<1>1. \A n \in Tenants :
        /\ slots'[n] = IF limit[n] = None THEN 0
                       ELSE Cardinality(OfTenant(runningTasks \ T, n))
        /\ slots'[n] <= slots[n]
  BY ReleasedExactly
<1>2. Exact'
  BY <1>1 DEF Exact
<1>3. ASSUME NEW n \in Tenants, limit'[n] # None PROVE slots'[n] <= limit'[n]
  <2>1. slots'[n] \in Nat /\ slots[n] \in Nat /\ limit[n] \in Nat
    BY <1>3 DEF TypeOK
  <2>2. slots'[n] <= slots[n] /\ slots[n] <= limit[n]
    BY <1>1, <1>3 DEF WithinQuota
  <2>3. QED
    BY <2>1, <2>2
<1>4. QED
  BY <1>2, <1>3 DEF WithinQuota

\* A step in which nobody's running tasks or counts change.
LEMMA StandingKeepsQuota ==
    ASSUME Exact, WithinQuota, UNCHANGED <<runningTasks, slots, limit>>
    PROVE  Exact' /\ WithinQuota'
  BY DEF Exact, WithinQuota

\* An assignment takes a slot only where the quota leaves one.
LEMMA AssigningKeepsQuota ==
    ASSUME TypeOK, Exact, WithinQuota, NEW t \in Tasks \ runningTasks, ~QuotaReached(t),
           runningTasks' = runningTasks \cup {t}, slots' = Acquired(t), limit' = limit
    PROVE  Exact' /\ WithinQuota'
<1>1. ASSUME NEW n \in Tenants
      PROVE  /\ slots'[n] = IF limit'[n] = None THEN 0
                            ELSE Cardinality(OfTenant(runningTasks', n))
             /\ limit'[n] # None => slots'[n] <= limit'[n]
  <2> DEFINE R == OfTenant(runningTasks, n)
  <2>1. R \subseteq Tasks /\ t \notin R
    BY DEF OfTenant, TypeOK
  <2>2. IsFiniteSet(R) /\ Cardinality(R) \in Nat
    BY <2>1, FS_Subset, FS_CardinalityType
  <2>3. slots[n] \in Nat /\ slots[n] = IF limit[n] = None THEN 0 ELSE Cardinality(R)
    BY DEF TypeOK, Exact
  <2>4. slots'[n] = IF n = TenantOf[t] /\ limit[n] # None THEN slots[n] + 1 ELSE slots[n]
    BY DEF Acquired
  <2>5. CASE n = TenantOf[t]
    <3>1. OfTenant(runningTasks', n) = R \cup {t}
      BY <2>5 DEF OfTenant
    <3>2. limit[n] # None => ~(slots[n] >= limit[n]) /\ limit[n] \in Nat
      BY <2>5 DEF QuotaReached, TypeOK
    <3> HIDE DEF R
    <3>3. Cardinality(R \cup {t}) = Cardinality(R) + 1
      BY <2>1, <2>2, FS_AddElement
    <3>4. CASE limit[n] = None
      BY <2>3, <2>4, <3>4
    <3>5. CASE limit[n] # None
      <4>1. slots'[n] = slots[n] + 1 /\ slots[n] = Cardinality(R)
        BY <2>3, <2>4, <2>5, <3>5
      <4>2. slots'[n] = Cardinality(OfTenant(runningTasks', n))
        BY <3>1, <3>3, <4>1
      <4>3. slots'[n] <= limit[n]
        BY <2>3, <3>2, <3>5, <4>1
      <4>4. QED
        BY <3>5, <4>2, <4>3
    <3>6. QED
      BY <3>4, <3>5
  <2>6. CASE n # TenantOf[t]
    <3>1. OfTenant(runningTasks', n) = R
      BY <2>6 DEF OfTenant
    <3>2. QED
      BY <2>3, <2>4, <2>6, <3>1 DEF WithinQuota
  <2>7. QED
    BY <2>5, <2>6
<1>2. QED
  BY <1>1 DEF Exact, WithinQuota

\* What a queue of jobs with nothing to expire stays.
LEMMA TimelyQueues ==
    ASSUME NEW js \in Seq(Timely), NEW x \in Timely
    PROVE  <<x>> \o js \in Seq(Timely) /\ Append(js, x) \in Seq(Timely)
  OBVIOUS

\* Where no deadline passes, no job has anything to expire.
LEMMA JobsStayTimely ==
    ASSUME TypeOK, pastDue = {}, jobs \in Seq(Timely), Next
    PROVE  jobs' \in Seq(Timely)
<1>1. jobs # <<>> =>
         /\ Head(jobs) \in Timely /\ Head(jobs) \in Job /\ Tail(jobs) \in Seq(Timely)
         /\ Head(jobs).overdue = {}
         /\ Head(jobs).avail \in SUBSET Agents /\ Head(jobs).count \in Nat
         /\ Head(jobs).kind \notin {"expire", "loop"} => Head(jobs).task \in Tasks
  <2>1. jobs # <<>> => Head(jobs) \in Timely /\ Tail(jobs) \in Seq(Timely)
    OBVIOUS
  <2>2. jobs # <<>> => Head(jobs) \in Job /\ Head(jobs).overdue = {}
    BY <2>1 DEF Timely
  <2>3. QED
    BY <2>1, <2>2, JobFields
<1>2. \A av \in SUBSET Agents, n \in Nat : Loop(av, n) \in Timely
  BY DEF Timely, Loop, Job
<1>3. \A t \in Tasks, n \in Nat : Execute(t, n) \in Timely
  BY DEF Timely, Execute, Job
<1>4. \A k \in ControlKinds \ {"expire", "loop"}, t \in Tasks, av \in SUBSET Agents, n \in Nat :
         Await(k, t, av, n) \in Timely
  BY DEF Timely, Await, Job
<1>5. taskQueue # <<>> => Head(taskQueue) \in Tasks
  BY HeadOfQueue
<1>6. CASE Microtask
  <2>1. jobs # <<>>
    BY <1>6 DEF Microtask, ExpireTask, EnterLoop, LeaveLoop, RefuseHead, AssignHead, ExecuteTask,
       ExecutionReturns, TaskAssigned, Dequeue, AgentUnavailable, QuotaDeferred, QuotaFails, Runs
  <2>2. ~ExpireTask
    BY <1>1, <2>1 DEF ExpireTask
  <2>3. CASE EnterLoop \/ Dequeue \/ QuotaFails
    <3>1. PICK av \in SUBSET Agents, n \in Nat : jobs' = <<Loop(av, n)>> \o Tail(jobs)
      <4>1. Head(jobs).count + 1 \in Nat /\ Head(jobs).avail \in SUBSET Agents
        BY <1>1, <2>1
      <4>2. {a \in Agents : Available(a)} \in SUBSET Agents /\ 0 \in Nat
        OBVIOUS
      <4>3. QED
        BY <2>3, <4>1, <4>2 DEF EnterLoop, Dequeue, QuotaFails
    <3>2. QED
      BY <1>1, <1>2, <2>1, <3>1, TimelyQueues
  <2>4. CASE LeaveLoop \/ ExecutionReturns \/ AgentUnavailable \/ QuotaDeferred
    BY <1>1, <2>1, <2>4 DEF LeaveLoop, ExecutionReturns, AgentUnavailable, QuotaDeferred
  <2>5. CASE RefuseHead
    <3>1. Await("refused", Head(taskQueue), Head(jobs).avail, Head(jobs).count) \in Timely
      BY <1>1, <1>4, <1>5, <2>1, <2>5 DEF RefuseHead, Proceeds, ControlKinds
    <3>2. QED
      BY <1>1, <2>1, <2>5, <3>1, TimelyQueues DEF RefuseHead
  <2>6. CASE AssignHead
    <3> DEFINE t == Head(taskQueue)
               resume(k) == Await(k, t, Head(jobs).avail, Head(jobs).count)
    <3>1. t \in Tasks
      BY <1>5, <2>6 DEF AssignHead, Proceeds
    <3>2. resume("assigned") \in Timely /\ resume("unavailable") \in Timely
      BY <1>1, <1>4, <2>1, <3>1 DEF ControlKinds
    <3>3. \A h \in 0..MaxHops : Execute(t, h) \in Timely
      BY <1>3, <3>1
    <3>4. \/ jobs' = Append(Tail(jobs), resume("assigned"))
          \/ \E h \in 0..MaxHops :
               jobs' = Append(Append(Tail(jobs), Execute(t, h)), resume("assigned"))
          \/ jobs' = Append(Tail(jobs), resume("unavailable"))
      BY <2>6 DEF AssignHead
    <3> HIDE DEF t, resume
    <3>5. /\ Append(Tail(jobs), resume("assigned")) \in Seq(Timely)
          /\ Append(Tail(jobs), resume("unavailable")) \in Seq(Timely)
      BY <1>1, <2>1, <3>2, TimelyQueues
    <3>6. ASSUME NEW h \in 0..MaxHops
          PROVE  Append(Append(Tail(jobs), Execute(t, h)), resume("assigned")) \in Seq(Timely)
      <4>1. Append(Tail(jobs), Execute(t, h)) \in Seq(Timely)
        BY <1>1, <2>1, <3>3, TimelyQueues
      <4>2. QED
        BY <3>2, <4>1, TimelyQueues
    <3>7. QED
      BY <3>4, <3>5, <3>6
  <2>7. CASE ExecuteTask
    <3>1. Head(jobs).task \in Tasks /\ Head(jobs).count - 1 \in Nat
      BY <1>1, <2>1, <2>7 DEF ExecuteTask, Runs
    <3>2. QED
      BY <1>1, <1>3, <2>1, <2>7, <3>1, TimelyQueues DEF ExecuteTask
  <2>8. CASE TaskAssigned
    <3>1. [Head(jobs) EXCEPT !.kind = "dequeue"] \in Timely
      BY <1>1, <2>1, <2>8 DEF TaskAssigned, Runs, Timely, Job, ControlKinds
    <3>2. QED
      BY <1>1, <2>1, <2>8, <3>1, TimelyQueues DEF TaskAssigned
  <2>9. QED
    BY <1>6, <2>2, <2>3, <2>4, <2>5, <2>6, <2>7, <2>8 DEF Microtask
<1>7. CASE ProcessTasks
  <2>1. jobs' = <<Expire({})>>
    BY <1>7 DEF ProcessTasks
  <2>2. Expire({}) \in Timely
    BY DEF Expire, Timely, Job
  <2>3. QED
    BY <2>1, <2>2
<1>8. CASE UNCHANGED jobs
  BY <1>8
<1>9. Microtask \/ ProcessTasks \/ UNCHANGED jobs
  BY DEF Next, SubmitTask, ExecutionSettles, ResultTimeout, DeadlinePasses, DeployAgent,
     RetireAgent, AgentMissesHeartbeat, RegisterTenantQuota, SchedulerShutdown, SystemDown
<1>10. QED
  BY <1>6, <1>7, <1>8, <1>9

\* Where no deadline passes and no quota changes, a step takes and gives back slots exactly.
LEMMA QuotaStep ==
    ASSUME QInv, IInv', [Next]_vars, UNCHANGED <<limit, pastDue>>
    PROVE  Exact' /\ WithinQuota'
<1>0. /\ TypeOK /\ QueueInv /\ AgentInv /\ WorkInv /\ JobsInv /\ Exact /\ WithinQuota
      /\ jobs \in Seq(Timely) /\ pastDue = {} /\ TypeOK' /\ IInv
  BY DEF QInv, IInv
<1>2. DueOf(jobs) = {}
  <2>1. \A i \in DOMAIN jobs : jobs[i].overdue = {}
    BY <1>0 DEF Timely
  <2>2. QED
    BY <2>1 DEF DueOf
<1>3. ASSUME NEW C, NEW O, Departure(C, O) PROVE Exact' /\ WithinQuota'
  <2>1. C \cup O \in SUBSET runningTasks
    BY <1>2, <1>3 DEF Departure
  <2>2. runningTasks' = runningTasks \ (C \cup O) /\ slots' = Released(C \cup O)
    BY <1>3 DEF Departure
  <2>3. QED
    BY <1>0, <2>1, <2>2, LeavingKeepsQuota
<1>4. ASSUME NEW t \in Tasks,
             SubmitTask(t) \/ ExecutionSettles(t) \/ ResultTimeout(t) \/ DeadlinePasses(t)
      PROVE  Exact' /\ WithinQuota'
  <2>1. CASE SubmitTask(t) \/ DeadlinePasses(t)
    BY <1>0, <2>1, StandingKeepsQuota DEF SubmitTask, DeadlinePasses, schedVars
  <2>2. CASE ExecutionSettles(t)
    BY <1>0, <1>3, <2>2, SettleDeparts DEF ExecutionSettles
  <2>3. CASE ResultTimeout(t)
    <3>1. TasksOf(jobs, "unavailable") = {} /\ FailTask(t)
      BY <2>3, NoJobs DEF ResultTimeout, Quiet, Suspended
    <3>2. QED
      BY <1>0, <1>3, <3>1, FailTaskDeparts
  <2>4. QED
    BY <1>4, <2>1, <2>2, <2>3
<1>5. ASSUME NEW a \in Agents, DeployAgent(a) \/ RetireAgent(a) \/ AgentMissesHeartbeat(a)
      PROVE  Exact' /\ WithinQuota'
  <2>1. CASE DeployAgent(a) \/ RetireAgent(a)
    BY <1>0, <2>1, StandingKeepsQuota DEF DeployAgent, RetireAgent, schedVars
  <2>2. CASE AgentMissesHeartbeat(a)
    <3> DEFINE affected == {u \in runningTasks : assignedTo[u] = a}
    <3>1. affected \in SUBSET runningTasks
      OBVIOUS
    <3>2. runningTasks' = runningTasks \ affected /\ slots' = Released(affected)
      BY <2>2 DEF AgentMissesHeartbeat
    <3> HIDE DEF affected
    <3>3. QED
      BY <1>0, <3>1, <3>2, LeavingKeepsQuota
  <2>3. QED
    BY <1>5, <2>1, <2>2
<1>6. ASSUME NEW n \in Tenants, NEW q \in Limits, RegisterTenantQuota(n, q)
      PROVE  Exact' /\ WithinQuota'
  BY <1>0, <1>6, StandingKeepsQuota DEF RegisterTenantQuota, schedVars
<1>7. CASE ProcessTasks \/ SchedulerShutdown \/ SystemDown
  BY <1>0, <1>7, StandingKeepsQuota DEF ProcessTasks, SchedulerShutdown, SystemDown, schedVars
<1>8. CASE Microtask
  <2>1. ~ExpireTask
    <3>1. jobs # <<>> => Head(jobs) \in Timely
      BY <1>0
    <3>2. QED
      BY <3>1 DEF ExpireTask, Runs, Timely
  <2>2. CASE \/ EnterLoop \/ LeaveLoop \/ RefuseHead \/ ExecuteTask \/ TaskAssigned
             \/ Dequeue \/ QuotaDeferred
    BY <1>0, <2>2, StandingKeepsQuota DEF EnterLoop, LeaveLoop, RefuseHead, ExecuteTask,
       TaskAssigned, Dequeue, QuotaDeferred, schedVars
  <2>3. CASE AssignHead
    <3> DEFINE t == Head(taskQueue)
    <3>1. /\ jobs # <<>> /\ Head(jobs).kind = "loop" /\ taskQueue # <<>> /\ ~QuotaReached(t)
          /\ slots' = Acquired(t) /\ runningTasks' = runningTasks \cup {t}
      BY <2>3 DEF AssignHead, Runs, Proceeds
    <3>2. Handled = {}
      <4>1. Suspended(jobs, {}, {}, {}, {}, TasksOf(jobs, "execute"), {})
        BY <1>0, <3>1, HeadOfProcessTasks DEF JobsInv
      <4>2. QED
        BY <4>1 DEF Handled, Suspended
    <3>3. t \in Tasks \ runningTasks
      <4>1. t \in Tasks
        BY <1>0, <3>1, HeadOfQueue
      <4>2. t \in Queued
        BY <1>0, <3>1 DEF Queued, TypeOK
      <4>3. QED
        BY <1>0, <3>2, <4>1, <4>2 DEF QueueInv
    <3> HIDE DEF t
    <3>4. QED
      BY <1>0, <3>1, <3>3, AssigningKeepsQuota
  <2>4. CASE ExecutionReturns
    <3>1. Head(jobs).task \in executing /\ Settle(Head(jobs).task)
      <4>1. jobs # <<>> /\ Head(jobs).kind = "execute" /\ Settle(Head(jobs).task)
        BY <2>4 DEF ExecutionReturns, Runs
      <4>2. Head(jobs).task \in TasksOf(jobs, "execute")
        BY <1>0, <4>1, HeadOfExecution DEF JobsInv
      <4>3. QED
        BY <1>0, <4>1, <4>2 DEF WorkInv
    <3>2. QED
      BY <1>0, <1>3, <3>1, SettleDeparts
  <2>5. CASE AgentUnavailable
    <3> DEFINE t == Head(jobs).task
    <3>1. /\ jobs # <<>> /\ Head(jobs).kind = "unavailable"
          /\ slots' = Released({t}) /\ runningTasks' = runningTasks \ {t}
      BY <2>5 DEF AgentUnavailable, Runs
    <3>2. t \in TasksOf(jobs, "unavailable")
      <4>1. Suspended(jobs, {}, {}, {t}, {}, TasksOf(jobs, "execute"), {})
        BY <1>0, <3>1, HeadOfProcessTasks DEF JobsInv
      <4>2. QED
        BY <4>1 DEF Suspended
    <3>3. {t} \in SUBSET runningTasks
      BY <1>0, <3>2 DEF QueueInv
    <3> HIDE DEF t
    <3>4. QED
      BY <1>0, <3>1, <3>3, LeavingKeepsQuota
  <2>6. CASE QuotaFails
    <3> DEFINE t == Head(jobs).task
    <3>1. /\ jobs # <<>> /\ Head(jobs).kind = "refused"
          /\ slots' = slots /\ runningTasks' = runningTasks \ {t}
      BY <2>6 DEF QuotaFails, Runs
    <3>2. Handled = {} /\ t \in TasksOf(jobs, "refused")
      <4>1. Suspended(jobs, {}, {}, {}, {t}, TasksOf(jobs, "execute"), {})
        BY <1>0, <3>1, HeadOfProcessTasks DEF JobsInv
      <4>2. QED
        BY <4>1 DEF Handled, Suspended
    <3>3. t \notin runningTasks
      <4>1. taskQueue # <<>> /\ Head(taskQueue) = t
        BY <1>0, <3>2 DEF QueueInv
      <4>2. t \in Queued
        BY <1>0, <4>1 DEF Queued, TypeOK
      <4>3. QED
        BY <1>0, <3>2, <4>2 DEF QueueInv
    <3> HIDE DEF t
    <3>4. runningTasks' = runningTasks
      BY <3>1, <3>3
    <3>5. QED
      BY <1>0, <3>1, <3>4, StandingKeepsQuota
  <2>7. QED
    BY <1>8, <2>1, <2>2, <2>3, <2>4, <2>5, <2>6 DEF Microtask
<1>9. CASE UNCHANGED vars
  BY <1>0, <1>9, StandingKeepsQuota DEF vars
<1>10. QED
  BY <1>4, <1>5, <1>6, <1>7, <1>8, <1>9 DEF Next

\* Exact counts within the quota are what QuotaIsKept says.
LEMMA ExactKeepsQuota == QInv => QuotaIsKept
  BY DEF QInv, Exact, WithinQuota, QuotaIsKept, SlotsMatchRunning, QuotaHolds

\* While no operator changes a quota and no deadline passes, the slots of a tenant are those of
\* its running tasks and never more than its quota, whatever order assignments, refusals,
\* failures, timeouts and missed heartbeats come in.
THEOREM FixedQuotaIsKept == Spec /\ [][UNCHANGED <<limit, pastDue>>]_vars => []QuotaIsKept
<1>1. Init => QInv
  <2> SUFFICES ASSUME Init PROVE QInv
    OBVIOUS
  <2>1. IInv
    BY InitInv
  <2>2. pastDue = {} /\ jobs \in Seq(Timely)
    BY DEF Init
  <2>3. \A n \in Tenants : slots[n] = 0 /\ OfTenant(runningTasks, n) = {}
    BY DEF Init, OfTenant
  <2>4. Cardinality({}) = 0
    BY ONLY FS_EmptySet, Zenon
  <2>5. \A n \in Tenants : slots[n] = 0 /\ Cardinality(OfTenant(runningTasks, n)) = 0
    BY <2>3, <2>4
  <2>6. \A n \in Tenants : limit[n] # None => limit[n] \in Nat
    BY <2>1 DEF IInv, TypeOK
  <2>7. QED
    BY <2>1, <2>2, <2>5, <2>6 DEF QInv, Exact, WithinQuota
<1>2. QInv /\ IInv' /\ [Next]_vars /\ [UNCHANGED <<limit, pastDue>>]_vars => QInv'
  <2> SUFFICES ASSUME QInv, IInv', [Next]_vars, [UNCHANGED <<limit, pastDue>>]_vars PROVE QInv'
    OBVIOUS
  <2>1. UNCHANGED <<limit, pastDue>>
    BY DEF vars
  <2>2. jobs' \in Seq(Timely)
    <3>1. TypeOK /\ pastDue = {} /\ jobs \in Seq(Timely)
      BY DEF QInv, IInv
    <3>2. CASE Next
      BY <3>1, <3>2, JobsStayTimely
    <3>3. CASE UNCHANGED vars
      BY <3>1, <3>3 DEF vars
    <3>4. QED
      BY <3>2, <3>3
  <2>3. Exact' /\ WithinQuota'
    BY <2>1, QuotaStep
  <2>4. QED
    BY <2>1, <2>2, <2>3 DEF QInv
<1>3. QED
  BY <1>1, <1>2, ExactKeepsQuota, Invariance, PTL DEF Spec
=============================================================================
