---------------------------- MODULE ModelBackend ----------------------------
(***************************************************************************)
(* The hosted models: the client that talks to the API and switches itself *)
(* off when its key is refused (src/openai/client.ts), the router that      *)
(* picks a model from a cached list of what is offered                      *)
(* (src/openai/model-router.ts), the usage monitor, and the synthesis stage *)
(* that CodexSynapticSystem appends to a workflow.  What the API offers     *)
(* follows a timeline, one entry per tick of the clock.                     *)
(***************************************************************************)
EXTENDS Naturals, Integers, Sequences, FiniteSets, FiniteSetsExt, SequencesExt

CONSTANTS
    Calls,       \* workflows with a prompt
    PromptOf,    \* [Calls -> [topics, complex]]
    Routings,    \* openai.modelRouting: [stage, keywords, heavy, default, baseline, dynamic]
    Catalog,     \* id -> fallback ids, in order
    Defaults,    \* fallbackDefaults
    Alike,       \* pairs <<a, b>> of names, one a suffix of the other
    Timelines,   \* what the API offers at each tick
    Ttl,         \* cacheTtlMs
    MaxEvents,   \* maxEvents of the usage monitor
    Window       \* windowMs

MaxTime == Max(DOMAIN CHOOSE t \in Timelines : TRUE)    \* bound on the clock

ASSUME ModelBackendAssumption ==
    /\ Ttl \in Nat /\ MaxEvents \in Nat \ {0} /\ Window \in Nat \ {0}
    /\ \A t \in Timelines : DOMAIN t = 0..MaxTime
    /\ Defaults \in Seq(STRING) /\ \A id \in DOMAIN Catalog : Catalog[id] \in Seq(STRING)

VARIABLES
    now, routing, offered,   \* clock, configuration, timeline
    key,         \* "none", "good", "bad": of the environment
    client,      \* "none", "ready", "rejected": openaiResponsesClient
    inventory,   \* availableModels, {} for null
    lastRefresh,
    call,        \* [Calls -> "idle", "begun", "listing", "listed", "asked", "queued", "answered", "failed"]
    since,       \* [Calls -> now captured by ensureModelInventory]
    heard,       \* [Calls -> [list, refused]: answer on its way back, the list {} after an error]
    model,       \* [Calls -> model asked for; <<>> before]
    asked,       \* [Calls -> when it was asked]
    events, requests,    \* of the usage monitor: creation times
    log          \* history: creation times of all answered calls

backendVars == <<now, routing, offered, key, client, inventory, lastRefresh, call, since, heard,
                 model, asked, events, requests, log>>

-----------------------------------------------------------------------------
(* Selection.                                                               *)
FirstOr(s, otherwise) == IF s = <<>> THEN otherwise ELSE Head(s)
TopicModels(r, prompt) ==
    [k \in DOMAIN SelectSeq(r.keywords, LAMBDA e : e.topic \in prompt.topics) |->
        SelectSeq(r.keywords, LAMBDA e : e.topic \in prompt.topics)[k].model]
\* selectModel tries the stage, the keywords, the complexity and the default, in this order.
Preferred(r, prompt) ==
    FirstOr(r.stage \o TopicModels(r, prompt) \o (IF prompt.complex THEN <<r.heavy>> ELSE <<>>), r.default)
CandidateChain(r, id) ==
    <<id>> \o (IF id \in DOMAIN Catalog THEN Catalog[id] ELSE <<>>) \o <<r.default>> \o Defaults
ModelAvailable(r, stock, id) ==
    \/ stock = {}
    \/ id \in stock
    \/ r.dynamic /\ \E a \in stock : <<a, id>> \in Alike \/ <<id, a>> \in Alike
Selection(r, stock, prompt) ==
    LET chain == CandidateChain(r, Preferred(r, prompt))
        fits == {i \in DOMAIN chain : ModelAvailable(r, stock, chain[i])}
    IN  IF fits = {} THEN r.baseline ELSE chain[Min(fits)]

\* getSummary walks back from the newest event and stops at the first one before the window.
WindowRequests ==
    LET old == {i \in DOMAIN events : events[i] < now - Window}
    IN Len(events) - (IF old = {} THEN 0 ELSE Max(old))

-----------------------------------------------------------------------------
NoList(byKey) == [list |-> {}, refused |-> byKey]
BackendStart(k, r, t) ==
    /\ key = k /\ routing = r /\ offered = t
    /\ now = 0 /\ client = "none" /\ inventory = {} /\ lastRefresh = 0
    /\ call = [c \in Calls |-> "idle"]
    /\ since = [c \in Calls |-> 0] /\ heard = [c \in Calls |-> NoList(FALSE)]
    /\ model = [c \in Calls |-> <<>>] /\ asked = [c \in Calls |-> 0]
    /\ events = <<>> /\ requests = 0 /\ log = <<>>

BackendInit == \E k \in {"none", "good", "bad"}, r \in Routings, t \in Timelines : BackendStart(k, r, t)

\* initializeOpenAIIntegration: a list at the start finds out about the key.
Boots ==
    /\ client = "none" /\ key # "none"
    /\ client' \in {"ready"} \cup (IF key = "bad" THEN {"rejected"} ELSE {})
    /\ UNCHANGED <<now, routing, offered, key, inventory, lastRefresh, call, since, heard, model, asked,
                   events, requests, log>>

KeyRevoked ==
    /\ key = "good" /\ key' = "bad"
    /\ UNCHANGED <<now, routing, offered, client, inventory, lastRefresh, call, since, heard, model,
                   asked, events, requests, log>>

Ticks ==
    /\ now < MaxTime /\ now' = now + 1
    /\ UNCHANGED <<routing, offered, key, client, inventory, lastRefresh, call, since, heard, model,
                   asked, events, requests, log>>

\* buildWorkflow appends the synthesis stage when the client is ready.
Begins(c) ==
    /\ call[c] = "idle" /\ client = "ready"
    /\ call' = [call EXCEPT ![c] = "begun"]
    /\ UNCHANGED <<now, routing, offered, key, client, inventory, lastRefresh, since, heard, model,
                   asked, events, requests, log>>

\* selectModel from what is installed, and createResponse up to the request: a client switched off
\* in the meantime throws.
Asks(c, stock, state) ==
    /\ call' = [call EXCEPT ![c] = IF state = "ready" THEN "asked" ELSE "failed"]
    /\ model' = [model EXCEPT ![c] = IF state = "ready" THEN <<Selection(routing, stock, PromptOf[c])>> ELSE <<>>]
    /\ asked' = [asked EXCEPT ![c] = now]
    /\ UNCHANGED <<now, routing, offered, key, events, requests, log>>

Cached == inventory # {} /\ now - lastRefresh < Ttl

\* The earlier stages are done; a client that was switched off leaves the stage to the scheduler.
Reaches(c) ==
    /\ call[c] = "begun"
    /\ \/ /\ client # "ready"
          /\ call' = [call EXCEPT ![c] = "queued"]
          /\ UNCHANGED <<now, routing, offered, key, client, inventory, lastRefresh, since, heard,
                         model, asked, events, requests, log>>
       \/ /\ client = "ready" /\ Cached
          /\ Asks(c, inventory, client)
          /\ UNCHANGED <<client, inventory, lastRefresh, since, heard>>
       \/ /\ client = "ready" /\ ~Cached
          /\ call' = [call EXCEPT ![c] = "listing"]
          /\ since' = [since EXCEPT ![c] = now]
          /\ UNCHANGED <<now, routing, offered, key, client, inventory, lastRefresh, heard, model,
                         asked, events, requests, log>>

\* The API takes its list; the answer is on its way, or an error is.
Lists(c) ==
    /\ call[c] = "listing"
    /\ call' = [call EXCEPT ![c] = "listed"]
    /\ \E answer \in {NoList(FALSE), IF key = "good" THEN [list |-> offered[now], refused |-> FALSE]
                                     ELSE NoList(TRUE)} : heard' = [heard EXCEPT ![c] = answer]
    /\ UNCHANGED <<now, routing, offered, key, client, inventory, lastRefresh, since, model, asked,
                   events, requests, log>>

\* ensureModelInventory: a list is installed under the time it was asked for; a refused key
\* switches the client off, any other error keeps what was installed.
Installed(c) == IF heard[c].list # {} THEN heard[c].list ELSE inventory
RefreshTime_OfAnswer(c) == now
RefreshTime(c) == since[c]
Hears(c) ==
    /\ call[c] = "listed"
    /\ client' = IF heard[c].refused THEN "rejected" ELSE client
    /\ inventory' = Installed(c)
    /\ lastRefresh' = IF heard[c].list # {} THEN RefreshTime(c) ELSE lastRefresh
    /\ Asks(c, inventory', client')
    /\ UNCHANGED <<since, heard>>

\* recordUsage.
Trimmed(s) == SubSeq(s, Max({1, Len(s) - MaxEvents + 1}), Len(s))
Answers(c) ==
    /\ call[c] = "asked"
    /\ \/ /\ key = "good"
          /\ call' = [call EXCEPT ![c] = "answered"]
          /\ \E created \in asked[c]..now :
                 /\ events' = Trimmed(Append(events, created))
                 /\ log' = Append(log, created)
          /\ requests' = requests + 1
       \/ /\ call' = [call EXCEPT ![c] = "failed"]    \* an error, the time-out's included
          /\ UNCHANGED <<events, log, requests>>
    /\ UNCHANGED <<now, routing, offered, key, client, inventory, lastRefresh, since, heard, model, asked>>

\* TaskScheduler and an agent answer for the stage; any agent will do, it asks for no capability.
Schedules(c) ==
    /\ call[c] = "queued"
    /\ \E end \in {"answered", "failed"} : call' = [call EXCEPT ![c] = end]
    /\ UNCHANGED <<now, routing, offered, key, client, inventory, lastRefresh, since, heard, model,
                   asked, events, requests, log>>

CallStep(c) == Reaches(c) \/ Lists(c) \/ Hears(c) \/ Answers(c) \/ Schedules(c)
BackendStep == Boots \/ KeyRevoked \/ Ticks \/ \E c \in Calls : Begins(c) \/ CallStep(c)

CallsAtRest == \A c \in Calls : call[c] \in {"idle", "answered", "failed"}

-----------------------------------------------------------------------------
(* Properties.                                                              *)

\* A model is asked for that the API offered no earlier than the installed list says, as long as
\* it offered any model of the chain: lists that overtake one another never pass an old list off as
\* a fresh one (ensureModelInventory, resolveSelection).
AskedForOffered ==
    [][\A c \in Calls :
         (inventory' # {} /\ call'[c] = "asked" /\ call[c] # "asked") =>
            \E t \in lastRefresh'..now :
                \/ ModelAvailable(routing, offered[t], model'[c][1])
                \/ \A id \in Range(CandidateChain(routing, Preferred(routing, PromptOf[c]))) :
                       ~ModelAvailable(routing, offered[t], id)]_backendVars

\* The monitor counts every answered call once and keeps the newest; answers that arrive out of
\* order can hide events from the window, but never put one in that is older (recordUsage,
\* getSummary).
InWindow(s) == Cardinality({i \in DOMAIN s : s[i] >= now - Window})
InOrder(s) == \A i, j \in DOMAIN s : i < j => s[i] <= s[j]
UsageIsCounted ==
    /\ requests = Len(log)
    /\ IsSuffix(events, log) /\ Len(events) = Min({Len(log), MaxEvents})
    /\ WindowRequests <= InWindow(events)
    /\ InOrder(events) => WindowRequests = InWindow(events)
=============================================================================
