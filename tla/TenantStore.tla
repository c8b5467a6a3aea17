---------------------------- MODULE TenantStore ----------------------------
(***************************************************************************)
(* TenantManager (src/tenancy/tenant-manager.ts) over the memory_entries   *)
(* table of CodexMemorySystem (src/memory/memory-system.ts), and the       *)
(* limits that ResourceManager.registerTenantQuota keeps for the           *)
(* scheduler.  The table outlives a process and is shared by all of them;  *)
(* default quotas and limits belong to one process.                        *)
(* A statement of the database and what the code does with its result, up  *)
(* to its next await, are one step.                                        *)
(***************************************************************************)
EXTENDS Naturals, FiniteSets, FiniteSetsExt

CONSTANTS
    Servers,      \* processes that hold a system: the daemon, a CLI
    Tenants,      \* tenant ids
    Limits,       \* values of maxConcurrentTasks
    Unlimited,    \* a quota object without maxConcurrentTasks
    NoQuota,      \* null or undefined
    Keep,         \* an update that does not mention the quota
    Defaults      \* what tenancy.defaultQuota may be

Quotas == Limits \cup {Unlimited, NoQuota}

ASSUME StoreAssumption ==
    /\ Defaults \subseteq Quotas
    /\ Cardinality({Unlimited, NoQuota, Keep} \cup Limits) = 3 + Cardinality(Limits)

VARIABLES
    rows,       \* memory_entries of the namespaces tenants and tenant_policies
    defaults,   \* TenantManager.defaultQuota of a process
    limits,     \* ResourceManager.tenantTaskLimits of a process
    life,       \* where the start of a process has got to
    unread,     \* tenants whose policy configureDefaultQuota has yet to read
    degraded    \* processes whose configureDefaultQuota met an error

storeVars == <<rows, defaults, limits, life, unread, degraded>>

StoreTypeOK ==
    /\ rows \subseteq [id : Nat \ {0}, namespace : {"tenants", "tenant_policies"},
                       key : Tenants, quota : Quotas]
    /\ defaults \in [Servers -> Quotas]
    /\ limits \in [Servers -> [Tenants -> Limits \cup {NoQuota}]]
    /\ life \in [Servers -> {"off", "listing", "reading", "serving"}]
    /\ unread \in [Servers -> SUBSET Tenants]
    /\ degraded \subseteq Servers

StoreInit ==
    /\ rows = {}
    /\ defaults = [s \in Servers |-> NoQuota]
    /\ limits = [s \in Servers |-> [t \in Tenants |-> NoQuota]]
    /\ life = [s \in Servers |-> "off"]
    /\ unread = [s \in Servers |-> {}]
    /\ degraded = {}

-----------------------------------------------------------------------------
Entries_AnyNamespace(namespace, t) == {e \in rows : e.key = t}
Entries(namespace, t) == {e \in rows : e.namespace = namespace /\ e.key = t}

Known(t) == Entries("tenants", t) # {}

\* getByKey reads ORDER BY id DESC LIMIT 1.
NewestRow(namespace, t) ==
    CHOOSE e \in Entries(namespace, t) : \A o \in Entries(namespace, t) : o.id <= e.id

PolicyQuota(t) == IF Entries("tenant_policies", t) = {} THEN NoQuota
                  ELSE NewestRow("tenant_policies", t).quota

\* getQuota, and the choice persistPolicy and configureDefaultQuota make.
Effective(quota, default) == IF quota # NoQuota THEN quota ELSE default

\* registerTenantQuota: a quota that says nothing of tasks sets no limit.
TaskLimit(quota) == IF quota \in Limits THEN quota ELSE NoQuota

Registered(s, t, quota) == [limits EXCEPT ![s][t] = TaskLimit(quota)]

\* upsertPolicy: what an update does not mention stays as it was read.
Merged(update, existing) == IF update = Keep THEN existing ELSE update

\* An INTEGER PRIMARY KEY takes the largest id in the table plus one.
NextId == 1 + Max({e.id : e \in rows} \cup {0})

Delete(namespace, t) ==
    /\ rows' = rows \ Entries(namespace, t)
    /\ UNCHANGED <<defaults, limits, life, unread, degraded>>

Insert(namespace, t, quota) ==
    rows' = rows \cup {[id |-> NextId, namespace |-> namespace, key |-> t, quota |-> quota]}

InsertPolicy_NoDefault(s, t, quota) ==
    /\ Insert("tenant_policies", t, quota)
    /\ limits' = Registered(s, t, quota)
    /\ UNCHANGED <<defaults, life, unread, degraded>>

\* The second half of persistPolicy.
InsertPolicy(s, t, quota) ==
    /\ Insert("tenant_policies", t, quota)
    /\ limits' = Registered(s, t, Effective(quota, defaults[s]))
    /\ UNCHANGED <<defaults, life, unread, degraded>>

InsertTenant(t) ==
    /\ Insert("tenants", t, NoQuota)
    /\ UNCHANGED <<defaults, limits, life, unread, degraded>>

\* The end of persistTenant: getQuota, and what it found is registered.
RegisterTenant(s, t) ==
    /\ limits' = Registered(s, t, Effective(PolicyQuota(t), defaults[s]))
    /\ UNCHANGED <<rows, defaults, life, unread, degraded>>

-----------------------------------------------------------------------------
\* applyConfiguredTenancyDefaults during initialize: without a default quota
\* configureDefaultQuota is not called.
Boot(s) ==
    /\ life[s] = "off"
    /\ \E d \in Defaults :
         /\ defaults' = [defaults EXCEPT ![s] = d]
         /\ life' = [life EXCEPT ![s] = IF d = NoQuota THEN "serving" ELSE "listing"]
    /\ UNCHANGED <<rows, limits, unread, degraded>>

\* listTenants, and the policies of all of them are read at once.
ListForDefaults(s) ==
    /\ life[s] = "listing"
    /\ unread' = [unread EXCEPT ![s] = {t \in Tenants : Known(t)}]
    /\ life' = [life EXCEPT ![s] = IF unread'[s] = {} THEN "serving" ELSE "reading"]
    /\ UNCHANGED <<rows, defaults, limits, degraded>>

\* A read that comes after another one failed finds the process serving.
ReadForDefaults(s, t) ==
    /\ t \in unread[s]
    /\ limits' = Registered(s, t, Effective(PolicyQuota(t), defaults[s]))
    /\ unread' = [unread EXCEPT ![s] = @ \ {t}]
    /\ life' = [life EXCEPT ![s] = IF unread'[s] = {} THEN "serving" ELSE @]
    /\ UNCHANGED <<rows, defaults, degraded>>

\* Either statement may fail; the error is logged and the boot goes on.
ConfigureFails(s) ==
    /\ \/ life[s] = "listing" /\ unread' = unread
       \/ \E t \in unread[s] : unread' = [unread EXCEPT ![s] = @ \ {t}]
    /\ life' = [life EXCEPT ![s] = "serving"]
    /\ degraded' = degraded \cup {s}
    /\ UNCHANGED <<rows, defaults, limits>>

\* The process dies: the table is all that is left of it.
StoreCrash(s) ==
    /\ life[s] # "off"
    /\ life' = [life EXCEPT ![s] = "off"]
    /\ defaults' = [defaults EXCEPT ![s] = NoQuota]
    /\ limits' = [limits EXCEPT ![s] = [t \in Tenants |-> NoQuota]]
    /\ unread' = [unread EXCEPT ![s] = {}]
    /\ degraded' = degraded \ {s}
    /\ UNCHANGED rows
=============================================================================
