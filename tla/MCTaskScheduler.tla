--------------------------- MODULE MCTaskScheduler ---------------------------
(* Instances of TaskScheduler for TLC.                                      *)
EXTENDS TaskScheduler, TLC

CONSTANTS t1, t2, t3, tenant

MCAgents == {1, 2}
MCFirstAgent == {1}

\* Two tasks of one tenant and one of nobody, which is the most urgent one.
MCTenantOf == [t \in Tasks |-> IF t = t3 THEN None ELSE tenant]
MCPriority == [t \in Tasks |-> IF t = t3 THEN 7 ELSE 5]
MCCapable  == [t \in Tasks |-> IF t = t3 THEN {1} ELSE MCAgents]

\* t1 and t2 differ in nothing.
MCSymmetry == Permutations({t1, t2})

\* All tasks belong to the tenant.
MCAllTenant == [t \in Tasks |-> tenant]
MCAnyAgent  == [t \in Tasks |-> MCAgents]
MCOneAgent  == [t \in Tasks |-> {1}]
MCFirstUrgent == [t \in Tasks |-> IF t = t1 THEN 7 ELSE 5]
=============================================================================
