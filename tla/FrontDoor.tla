----------------------------- MODULE FrontDoor -----------------------------
(***************************************************************************)
(* The ways into tenancy: the routes of ApiServer (src/core/api-server.ts) *)
(* and the tenant commands of the CLI (src/cli/index.ts), with the tokens  *)
(* of AuthenticationManager (src/core/auth.ts) that both ask for.  Each    *)
(* request is a process; the others run while it waits for the database.   *)
(***************************************************************************)
EXTENDS TenantStore

CONSTANTS
    Slots,          \* requests at a time
    MaxAsked,       \* requests of a behaviour
    Requests,       \* what they may ask
    NoRequest,      \* what a slot holds before its request comes in
    NoTenant,       \* no x-codex-tenant header, or no id in a body
    Tokens,         \* tokens that are minted, each once
    NoToken,        \* no authorization header
    MaxFaults,      \* statements of the database that fail
    MaxCrashes      \* processes that die

ASSUME DoorAssumption ==
    /\ MaxAsked \in Nat \ {0}
    /\ NoRequest \notin Requests
    /\ NoTenant \notin Tenants
    /\ NoToken \notin Tokens
    /\ MaxFaults \in Nat /\ MaxCrashes \in Nat

VARIABLES
    enabled,    \* tenancy is switched on
    admins,     \* tokens of users whose permissions include admin.all
    asked,      \* the request of a slot
    at,         \* the statement it waits for
    merged,     \* quota of the policy it read, or is about to store
    issued,     \* requests so far
    token,      \* AuthenticationManager.tokens of a process
    acked,      \* tenants some creation was acknowledged for
    torn,       \* what a request that failed half way left undone
    faults, crashes

provisions == <<enabled, admins>>
requestVars == <<asked, at, merged, issued>>
ownVars == <<provisions, asked, at, merged, issued, token, acked, torn, faults, crashes>>
doorVars == <<storeVars, ownVars>>

\* "createFresh" leaves the id to randomUUID.
Ops == {"health", "list", "create", "createFresh", "getQuota", "setQuota", "other"}
RequestType ==
    [server : Servers, via : {"api", "cli"}, op : Ops, tenant : Tenants \cup {NoTenant},
     header : Tenants \cup {NoTenant}, token : Tokens \cup {NoToken},
     valid : BOOLEAN, parses : BOOLEAN, quota : Quotas \cup {Keep}]

\* A creation has an id: that of its body, or of randomUUID.
ASSUME RequestAssumption ==
    /\ Requests \subseteq RequestType
    /\ \A q \in Requests : q.op \in {"create", "createFresh"} => q.tenant \in Tenants

Statements == {"context", "contextPolicy", "list", "exists", "dropTenant", "insertTenant",
               "tenantQuota", "lookup", "readPolicy", "known", "existing", "dropPolicy",
               "insertPolicy", "effective"}

DoorTypeOK ==
    /\ StoreTypeOK
    /\ enabled \in BOOLEAN
    /\ admins \in SUBSET Tokens
    /\ asked \in [Slots -> RequestType \cup {NoRequest}]
    /\ at \in [Slots -> Statements \cup {"idle", "body"}]
    /\ merged \in [Slots -> Quotas]
    /\ issued \in 0..MaxAsked
    /\ token \in [Servers -> [Tokens -> {"unborn", "live", "expired", "gone"}]]
    /\ acked \subseteq Tenants
    /\ torn \subseteq [what : {"tenants", "tenant_policies", "limits"}, key : Tenants]
    /\ faults \in 0..MaxFaults
    /\ crashes \in 0..MaxCrashes

DoorStart(on, users) ==
    /\ StoreInit
    /\ enabled = on
    /\ admins = users
    /\ asked = [r \in Slots |-> NoRequest]
    /\ at = [r \in Slots |-> "idle"]
    /\ merged = [r \in Slots |-> NoQuota]
    /\ issued = 0
    /\ token = [s \in Servers |-> [k \in Tokens |-> "unborn"]]
    /\ acked = {}
    /\ torn = {}
    /\ faults = 0
    /\ crashes = 0

Begun(r) == asked[r] # NoRequest
Server(r) == asked[r].server
Tenant(r) == asked[r].tenant

-----------------------------------------------------------------------------
\* Where a request goes, and how it ends.
Await(r, statement) ==
    /\ at' = [at EXCEPT ![r] = statement]
    /\ UNCHANGED asked

Answer(r) ==
    /\ at' = [at EXCEPT ![r] = "idle"]
    /\ asked' = [asked EXCEPT ![r] = NoRequest]

\* A request without a valid token is answered 401, one whose user lacks
\* tenant.read or tenant.write 403.  No role but admin has these.
Authorized(r) == LET k == asked[r].token
                 IN k \in admins /\ token[Server(r)][k] = "live"

\* validateToken forgets a token it finds expired.
TokensAfter(r) == LET k == asked[r].token
                  IN IF k \in Tokens /\ token[Server(r)][k] = "expired"
                     THEN [token EXCEPT ![Server(r)][k] = "gone"]
                     ELSE token

NeedsToken(r) == asked[r].op \in {"list", "create", "createFresh", "getQuota", "setQuota"}

\* handleCreateTenant; a fresh UUID needs no look-up.
StartCreate(r) ==
    IF asked[r].valid
    THEN IF enabled
         THEN Await(r, IF asked[r].op = "create" THEN "exists" ELSE "dropTenant")
         ELSE Answer(r)
    ELSE Answer(r)

StartOperation(r) ==
    CASE asked[r].op = "health" -> Answer(r)
      [] asked[r].op = "list" -> IF enabled THEN Await(r, "list") ELSE Answer(r)
      [] asked[r].op \in {"create", "createFresh"} -> StartCreate(r)
      [] asked[r].op \in {"getQuota", "setQuota"} ->
           IF enabled THEN Await(r, "lookup") ELSE Answer(r)
      [] asked[r].op = "other" -> Answer(r)

\* handleRequest from the end of the body to its next await.  A tenant command
\* says that tenancy is off before it looks at the token.
Dispatch(r) ==
    /\ IF ~asked[r].parses THEN Answer(r) /\ UNCHANGED token
       ELSE IF asked[r].via = "cli" /\ ~enabled THEN Answer(r) /\ UNCHANGED token
       ELSE IF ~NeedsToken(r) THEN StartOperation(r) /\ UNCHANGED token
       ELSE /\ token' = TokensAfter(r)
            /\ IF Authorized(r) THEN StartOperation(r) ELSE Answer(r)
    /\ UNCHANGED <<storeVars, provisions, issued, merged, acked, torn, faults, crashes>>

Fresh(t) == ~Known(t) /\ \A r \in Slots : Begun(r) => Tenant(r) # t

\* A request comes in: resolveTenantContext looks the header up; a tenant it
\* does not find, or a failed look-up, leaves the request without a tenant.
\* A tenant command has no header and no body: it is dispatched at once.
Arrive(r) ==
    /\ ~Begun(r) /\ \A o \in Slots : o < r => Begun(o)
    /\ issued < MaxAsked
    /\ issued' = issued + 1
    /\ \E q \in Requests :
         /\ life[q.server] = "serving"
         /\ q.op = "createFresh" => Fresh(q.tenant)
         /\ asked' = [asked EXCEPT ![r] = q]
         /\ at' = [at EXCEPT ![r] = IF q.via = "api" /\ enabled /\ q.header # NoTenant
                                   THEN "context" ELSE "body"]
    /\ UNCHANGED <<storeVars, provisions, merged, token, acked, torn, faults, crashes>>

ResolveTenant(r) ==
    /\ at[r] = "context"
    /\ Await(r, IF Known(asked[r].header) THEN "contextPolicy" ELSE "body")
    /\ UNCHANGED <<storeVars, provisions, issued, merged, token, acked, torn, faults, crashes>>

ResolvePolicy(r) ==
    /\ at[r] = "contextPolicy"
    /\ Await(r, "body")
    /\ UNCHANGED <<storeVars, provisions, issued, merged, token, acked, torn, faults, crashes>>

BodyEnds(r) == at[r] = "body" /\ Dispatch(r)

-----------------------------------------------------------------------------
ListTenants(r) ==
    /\ at[r] = "list"
    /\ Answer(r)
    /\ UNCHANGED <<storeVars, provisions, issued, merged, token, acked, torn, faults, crashes>>

\* createTenant.
CheckAbsent(r) ==
    /\ at[r] = "exists"
    /\ IF Known(Tenant(r)) THEN Answer(r) ELSE Await(r, "dropTenant")
    /\ UNCHANGED <<storeVars, provisions, issued, merged, token, acked, torn, faults, crashes>>

DropTenant(r) ==
    /\ at[r] = "dropTenant"
    /\ Delete("tenants", Tenant(r))
    /\ Await(r, "insertTenant")
    /\ UNCHANGED <<provisions, issued, merged, token, acked, torn, faults, crashes>>

StoreTenant(r) ==
    /\ at[r] = "insertTenant"
    /\ InsertTenant(Tenant(r))
    /\ torn' = torn \ {[what |-> "tenants", key |-> Tenant(r)]}
    /\ Await(r, "tenantQuota")
    /\ UNCHANGED <<provisions, issued, merged, token, acked, faults, crashes>>

FinishCreate(r) ==
    /\ at[r] = "tenantQuota"
    /\ RegisterTenant(Server(r), Tenant(r))
    /\ acked' = acked \cup {Tenant(r)}
    /\ torn' = torn \ {[what |-> "limits", key |-> Tenant(r)]}
    /\ Answer(r)
    /\ UNCHANGED <<provisions, issued, merged, token, faults, crashes>>

-----------------------------------------------------------------------------

\* handleTenantQuotaRoute and upsertPolicy.
LookUpTenant(r) ==
    /\ at[r] = "lookup"
    /\ CASE ~Known(Tenant(r)) -> Answer(r)
         [] Known(Tenant(r)) /\ asked[r].op = "getQuota" -> Await(r, "readPolicy")
         [] Known(Tenant(r)) /\ asked[r].op = "setQuota" ->
              IF asked[r].valid THEN Await(r, "known") ELSE Answer(r)
    /\ UNCHANGED <<storeVars, provisions, issued, merged, token, acked, torn, faults, crashes>>

\* getTenantPolicy for the policyQuota of the answer.
ReadPolicy(r) ==
    /\ at[r] = "readPolicy"
    /\ Await(r, "effective")
    /\ UNCHANGED <<storeVars, provisions, issued, merged, token, acked, torn, faults, crashes>>

StillKnown(r) ==
    /\ at[r] = "known"
    /\ IF Known(Tenant(r)) THEN Await(r, "existing") ELSE Answer(r)
    /\ UNCHANGED <<storeVars, provisions, issued, merged, token, acked, torn, faults, crashes>>

MergePolicy(r) ==
    /\ at[r] = "existing"
    /\ merged' = [merged EXCEPT ![r] = Merged(asked[r].quota, PolicyQuota(Tenant(r)))]
    /\ Await(r, "dropPolicy")
    /\ UNCHANGED <<storeVars, provisions, issued, token, acked, torn, faults, crashes>>

DropPolicy(r) ==
    /\ at[r] = "dropPolicy"
    /\ Delete("tenant_policies", Tenant(r))
    /\ Await(r, "insertPolicy")
    /\ UNCHANGED <<provisions, issued, merged, token, acked, torn, faults, crashes>>

StorePolicy(r) ==
    /\ at[r] = "insertPolicy"
    /\ InsertPolicy(Server(r), Tenant(r), merged[r])
    /\ torn' = torn \ {[what |-> w, key |-> Tenant(r)] : w \in {"tenant_policies", "limits"}}
    /\ merged' = [merged EXCEPT ![r] = NoQuota]
    /\ Await(r, "effective")
    /\ UNCHANGED <<provisions, issued, token, acked, faults, crashes>>

\* getTenantQuota, whose result goes into the answer.
Reported(r) == Effective(PolicyQuota(Tenant(r)), defaults[Server(r)])

ReportQuota(r) ==
    /\ at[r] = "effective"
    /\ Answer(r)
    /\ UNCHANGED <<storeVars, provisions, issued, merged, token, acked, torn, faults, crashes>>

-----------------------------------------------------------------------------
\* What a request has begun and not finished: a row it has deleted and not yet
\* inserted again, a tenant it has stored whose limit is not registered yet.
Halfway(r) ==
    CASE at[r] = "insertTenant" -> {[what |-> "tenants", key |-> Tenant(r)]}
      [] at[r] = "insertPolicy" -> {[what |-> "tenant_policies", key |-> Tenant(r)]}
      [] at[r] = "tenantQuota" -> {[what |-> "limits", key |-> Tenant(r)]}
      [] OTHER -> {}

\* A statement fails: the handler's catch answers 500, resolveTenantContext's
\* goes on without a tenant.
StatementFails(r) ==
    /\ at[r] \in Statements
    /\ faults < MaxFaults
    /\ faults' = faults + 1
    /\ IF at[r] \in {"context", "contextPolicy"} THEN Await(r, "body") ELSE Answer(r)
    /\ torn' = torn \cup Halfway(r)
    /\ merged' = [merged EXCEPT ![r] = NoQuota]
    /\ UNCHANGED <<storeVars, provisions, issued, token, acked, crashes>>

BootFaults(s) ==
    /\ faults < MaxFaults
    /\ faults' = faults + 1
    /\ ConfigureFails(s)
    /\ UNCHANGED <<provisions, requestVars, token, acked, torn, crashes>>

ServerStarts(s) ==
    \/ (Boot(s) \/ ListForDefaults(s)) /\ UNCHANGED ownVars
    \/ \E t \in Tenants :
         /\ ReadForDefaults(s, t)
         /\ torn' = torn \ {[what |-> "limits", key |-> t]}
         /\ UNCHANGED <<provisions, requestVars, token, acked, faults, crashes>>

InFlight(s) == {r \in Slots : Begun(r) /\ Server(r) = s}

ServerCrash(s) ==
    /\ crashes < MaxCrashes
    /\ crashes' = crashes + 1
    /\ StoreCrash(s)
    /\ token' = [token EXCEPT ![s] = [k \in Tokens |-> IF @[k] = "unborn" THEN @[k] ELSE "gone"]]
    /\ at' = [r \in Slots |-> IF r \in InFlight(s) THEN "idle" ELSE at[r]]
    /\ asked' = [r \in Slots |-> IF r \in InFlight(s) THEN NoRequest ELSE asked[r]]
    /\ merged' = [r \in Slots |-> IF r \in InFlight(s) THEN NoQuota ELSE merged[r]]
    /\ torn' = torn \cup UNION {Halfway(r) : r \in InFlight(s)}
    /\ UNCHANGED <<provisions, issued, acked, faults>>

\* authenticate, behind "codex-synaptic auth token": the token is known to the
\* process that minted it.
Mint(s, k) ==
    /\ life[s] = "serving"
    /\ \A o \in Servers : token[o][k] = "unborn"
    /\ token' = [token EXCEPT ![s][k] = "live"]
    /\ UNCHANGED <<storeVars, provisions, requestVars, acked, torn, faults, crashes>>

\* 24 hours later.
Expire(s, k) ==
    /\ token[s][k] = "live"
    /\ token' = [token EXCEPT ![s][k] = "expired"]
    /\ UNCHANGED <<storeVars, provisions, requestVars, acked, torn, faults, crashes>>

\* The hourly cleanupExpiredTokens.
Cleanup(s) ==
    /\ \E k \in Tokens : token[s][k] = "expired"
    /\ token' = [token EXCEPT ![s] = [k \in Tokens |-> IF @[k] = "expired" THEN "gone" ELSE @[k]]]
    /\ UNCHANGED <<storeVars, provisions, requestVars, acked, torn, faults, crashes>>

-----------------------------------------------------------------------------
Proceed(r) ==
    \/ ResolveTenant(r) \/ ResolvePolicy(r) \/ BodyEnds(r)
    \/ ListTenants(r) \/ CheckAbsent(r) \/ DropTenant(r) \/ StoreTenant(r) \/ FinishCreate(r)
    \/ LookUpTenant(r) \/ ReadPolicy(r) \/ StillKnown(r) \/ MergePolicy(r)
    \/ DropPolicy(r) \/ StorePolicy(r) \/ ReportQuota(r)

DoorNext ==
    \/ \E r \in Slots : Arrive(r) \/ Proceed(r) \/ StatementFails(r)
    \/ \E s \in Servers : ServerStarts(s) \/ BootFaults(s) \/ ServerCrash(s) \/ Cleanup(s)
    \/ \E s \in Servers, k \in Tokens : Mint(s, k) \/ Expire(s, k)

-----------------------------------------------------------------------------
Unfinished(what, t) ==
    [what |-> what, key |-> t] \in torn \cup UNION {Halfway(r) : r \in Slots}

\* The task limit a process enforces for a tenant is that of the newest policy
\* in the table, or of the default quota: however creations, updates and the
\* reads of a boot interleave, and after a crash, unless an update of that
\* policy is between its DELETE and its INSERT, or died there.  It is about one
\* process with a default quota: without one a boot does not read the policies
\* (applyConfiguredTenancyDefaults), and what another process stores is not seen.
EnforcedIsStored ==
    \A s \in Servers, t \in Tenants :
        /\ life[s] = "serving" /\ s \notin degraded /\ Known(t)
        /\ ~Unfinished("tenant_policies", t) /\ ~Unfinished("limits", t)
        => limits[s][t] = TaskLimit(Effective(PolicyQuota(t), defaults[s]))

\* A tenant whose creation was acknowledged is found by every later look-up,
\* also after a crash, unless another creation of it is between its DELETE and
\* its INSERT, or died there.
AcknowledgedStays == \A t \in acked : Known(t) \/ Unfinished("tenants", t)

\* Every request is answered, whatever the others do to the rows it reads,
\* unless its process dies.
EveryRequestAnswered == \A r \in Slots : []<>~Begun(r)

\* The quota a GET reports as effective is the one that process enforces,
\* unless somebody is changing the policy.
ReportedIsEnforced ==
    [][\A r \in Slots :
         /\ ReportQuota(r) /\ asked[r].op = "getQuota"
         /\ \A o \in Slots \ {r} : ~Begun(o)
         => TaskLimit(Reported(r)) = limits[Server(r)][Tenant(r)]]_doorVars
=============================================================================
