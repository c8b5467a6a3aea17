------------------------------ MODULE Metrics ------------------------------
(***************************************************************************)
(* The telemetry of the system: who writes it (tool optimizer, reasoning    *)
(* planner and the handlers of system.ts) and the exporter that reads seven  *)
(* namespaces one after the other and counts                                 *)
(* (src/observability/metric-exporter.ts).  Averages and the wording of the  *)
(* report are left out: an average is over the same rows as its count.        *)
(***************************************************************************)
EXTENDS Naturals, FiniteSets, Sequences, FiniteSetsExt, SequencesExt, Functions

CONSTANTS
    Writers,        \* callers that record one thing after the other
    Journals,       \* what they record: functions from writers to sequences of [space, tenant, data]
    Tenants,
    NoTenant,       \* no tenant given: NULL in the table
    Limit,          \* --limit
    Scopes,         \* tenants an export may be for, or NoTenant for all
    TenancyModes    \* whether the exporter's memory is opened with tenancy

ASSUME MetricsAssumption == Limit \in Nat \ {0} /\ Scopes \subseteq Tenants \cup {NoTenant} /\ NoTenant \notin Tenants

Recorded == UNION {Range(j[w]) : j \in Journals, w \in Writers}
IsPlan(record) == record.space = "reasoning_runs"
PlansOf(j, w) == {r.data.key : r \in {q \in Range(j[w]) : IsPlan(q)}}
\* Plans recorded by more than one caller (a gated workflow's, see ValidationGate).
SharedPlans ==
    UNION {PlansOf(c[1], c[2]) \cap PlansOf(c[1], c[3]) : c \in {d \in Journals \X Writers \X Writers : d[2] # d[3]}}
\* A caller records a plan under a tenant that sees what it recorded of the plan before (persistRun).
ASSUME JournalsAssumption ==
    \A j \in Journals :
        /\ j \in [Writers -> Seq(Recorded)]
        /\ \A w \in Writers : \A i, k \in DOMAIN j[w] :
              i < k /\ IsPlan(j[w][i]) /\ IsPlan(j[w][k]) /\ j[w][i].data.key = j[w][k].data.key
              => j[w][k].tenant = NoTenant \/ j[w][i].tenant \in {j[w][k].tenant, NoTenant}

System == "system"    \* DEFAULT_TENANT_KEY
\* In the order they are read; the tenant filter is not passed for the first two.
Spaces == <<"autoscaler_events", "mesh_events", "tot_runs", "tot_followups", "consensus_events",
            "tool_usage", "reasoning_runs">>

VARIABLES
    journal,      \* [Writers -> what it has still to record]
    torn,         \* writers between the delete and the insert of logReasoningRun
    undeleted,    \* plans of which a delete failed
    entries,      \* memory_entries: the rows by id, which order them
    scope, withTenancy,    \* --tenant; how the exporter opened the memory
    lists         \* the lists read so far, each by id

metricsVars == <<journal, torn, undeleted, entries, scope, withTenancy, lists>>

MetricsStart(j, s, mode) ==
    /\ journal = j
    /\ torn = {} /\ undeleted = {} /\ entries = <<>> /\ lists = <<>>
    /\ scope = s /\ withTenancy = mode

-----------------------------------------------------------------------------
Same(a, b) == a.space = b.space /\ a.data.key = b.data.key

Replaces_OwnTenantOnly(record, e) == Same(e, record) /\ e.tenant = record.tenant

\* A run is logged under its id: the earlier rows of the plan that the tenant can see are deleted
\* first; an error of the delete is ignored.
Replaces(record, e) == Same(e, record) /\ (record.tenant = NoTenant \/ e.tenant \in {record.tenant, NoTenant})
Deletes(w) ==
    /\ journal[w] # <<>> /\ w \notin torn
    /\ LET record == Head(journal[w])
       IN  /\ IsPlan(record)
           /\ \/ /\ entries' = Restrict(entries, {id \in DOMAIN entries : ~Replaces(record, entries[id])})
                 /\ UNCHANGED undeleted
              \/ /\ undeleted' = undeleted \cup {record.data.key}
                 /\ UNCHANGED entries
    /\ torn' = torn \cup {w}
    /\ UNCHANGED <<journal, scope, withTenancy, lists>>

\* One INSERT, under an id above all others; everything but a reasoning run is recorded by nothing else.
NextId == Max(DOMAIN entries \cup {0}) + 1
Records(w) ==
    /\ journal[w] # <<>>
    /\ w \in torn <=> IsPlan(Head(journal[w]))
    /\ entries' = [id \in DOMAIN entries \cup {NextId} |-> IF id = NextId THEN Head(journal[w]) ELSE entries[id]]
    /\ journal' = [journal EXCEPT ![w] = Tail(@)]
    /\ torn' = torn \ {w}
    /\ UNCHANGED <<undeleted, scope, withTenancy, lists>>

\* A filter has an effect only where the memory was opened with tenancy, and lets NULL through.
Visible(e, t) == withTenancy /\ t # NoTenant => e.tenant \in {t, NoTenant}
Newest(space, t) ==
    LET rows == {id \in DOMAIN entries : entries[id].space = space /\ Visible(entries[id], t)}
    IN  Restrict(entries, {id \in rows : Cardinality({later \in rows : later > id}) < Limit})

Exports ==
    /\ Len(lists) < Len(Spaces)
    /\ lists' = Append(lists, Newest(Spaces[Len(lists) + 1], IF Len(lists) < 2 THEN NoTenant ELSE scope))
    /\ UNCHANGED <<journal, torn, undeleted, entries, scope, withTenancy>>

-----------------------------------------------------------------------------
(* The snapshot, once every list has been read. *)
Exported == Len(lists) = Len(Spaces)
Rows(i) == {<<i, k>> : k \in DOMAIN lists[i]}
At(row) == lists[row[1]][row[2]]
Count(i, P(_)) == Cardinality({row \in Rows(i) : P(At(row).data)})

\* record.tenantId is the tenant the row was written for, in every namespace that is broken down.
ResolveTenant(e) == IF e.tenant = NoTenant THEN System ELSE e.tenant
TenantsIn(i) == {ResolveTenant(At(row)) : row \in Rows(i)}
CountFor(i, t, P(_)) == Cardinality({row \in Rows(i) : ResolveTenant(At(row)) = t /\ P(At(row).data)})

Totals ==
    [scaleUp |-> Count(1, LAMBDA d : d.change > 0),
     scaleDown |-> Count(1, LAMBDA d : d.change < 0),
     healing |-> Cardinality(Rows(2)), totRuns |-> Cardinality(Rows(3)), followups |-> Cardinality(Rows(4)),
     branches |-> [label \in {At(row).data.label : row \in Rows(3)} |-> Count(3, LAMBDA d : d.label = label)],
     accepted |-> Count(5, LAMBDA d : d.accepted), rejected |-> Count(5, LAMBDA d : ~d.accepted),
     tools |-> Cardinality(Rows(6)), successes |-> Count(6, LAMBDA d : d.success),
     failures |-> Count(6, LAMBDA d : ~d.success),
     runs |-> Cardinality(Rows(7)), completed |-> Count(7, LAMBDA d : d.status = "completed"),
     failed |-> Count(7, LAMBDA d : d.status = "failed")]

ToolBreakdown ==
    [tool \in {At(row).data.tool : row \in Rows(6)} |->
        [total |-> Count(6, LAMBDA d : d.tool = tool),
         success |-> Count(6, LAMBDA d : d.tool = tool /\ d.success),
         perAgent |-> [agent \in {At(row).data.agent : row \in {x \in Rows(6) : At(x).data.tool = tool}} |->
                          Count(6, LAMBDA d : d.tool = tool /\ d.agent = agent)]]]

\* reasoningPlanStatus, per plan type and status.
PlanStatus ==
    [x \in {<<At(row).data.type, At(row).data.status>> : row \in Rows(7)} |->
        Count(7, LAMBDA d : <<d.type, d.status>> = x)]

PerTenant ==
    [t \in TenantsIn(5) \cup TenantsIn(6) \cup TenantsIn(7) |->
        [tools |-> CountFor(6, t, LAMBDA d : TRUE),
         successes |-> CountFor(6, t, LAMBDA d : d.success),
         failures |-> CountFor(6, t, LAMBDA d : ~d.success),
         accepted |-> CountFor(5, t, LAMBDA d : d.accepted),
         rejected |-> CountFor(5, t, LAMBDA d : ~d.accepted),
         runs |-> CountFor(7, t, LAMBDA d : TRUE),
         completed |-> CountFor(7, t, LAMBDA d : d.status = "completed"),
         failed |-> CountFor(7, t, LAMBDA d : d.status = "failed")]]

MetricsStep == Exports \/ \E w \in Writers : Deletes(w) \/ Records(w)
MetricsAtRest == Exported /\ \A w \in Writers : journal[w] = <<>>

-----------------------------------------------------------------------------
\* The samples per tenant, tool and plan type add up to the totals of the same report, and no plan is
\* counted twice unless a delete failed or two callers record it, although a plan is stored by deleting and inserting, first
\* without a tenant and then for one, while the exporter reads (collectMetrics, logReasoningRun).
Sums(f, field) == SumFunction([x \in DOMAIN f |-> f[x][field]])
ReportAddsUp ==
    Exported =>
        /\ \A field \in {"tools", "successes", "failures", "accepted", "rejected", "runs", "completed", "failed"} :
               Sums(PerTenant, field) = Totals[field]
        /\ Sums(ToolBreakdown, "total") = Totals.tools /\ Sums(ToolBreakdown, "success") = Totals.successes
        /\ SumFunction(PlanStatus) = Totals.runs
        /\ \A plan \in {At(row).data.key : row \in Rows(7)} \ (undeleted \cup SharedPlans) : Count(7, LAMBDA d : d.key = plan) = 1

\* An export for one tenant says nothing of another tenant's tools, plans and votes
\* (collectMetrics with tenantId, docs/observability/README.md:36).
ScopeHolds == Exported /\ scope # NoTenant => DOMAIN PerTenant \subseteq {scope, System}
\* The same, of an exporter that opened the memory with tenancy.
ScopeHoldsWithTenancy == withTenancy => ScopeHolds
=============================================================================
