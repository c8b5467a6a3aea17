----------------------------- MODULE GuiClient -----------------------------
(***************************************************************************)
(* The GUI's client of the REST API (src/gui/api-client.ts).  All requests  *)
(* of a client share one AbortController field, which every attempt          *)
(* replaces: a timer aborts whatever attempt is the newest when it fires.     *)
(***************************************************************************)
EXTENDS Naturals, FiniteSets

CONSTANTS
    Requests,        \* calls of the GUI; any of the client's methods
    RetryAttempts,        \* retryAttempts
    MaxClients       \* objects getApiClient makes, one after a reset of the other

ASSUME GuiClientAssumption == RetryAttempts \in Nat \ {0} /\ MaxClients \in Nat \ {0}

Clients == 1..MaxClients

VARIABLES
    apiClient,     \* apiClientInstance
    owner,         \* [Requests -> client it was made with]
    request,       \* [Requests -> "idle", "fetching", "reading", "pausing", "answered", "failed", "timedOut"]
    try,           \* [Requests -> attempt it is at]
    newest,        \* [Clients -> attempt the abortController belongs to; <<>> for null]
    timers,        \* attempts whose timer is set
    served         \* [Requests -> attempts the server carried out]

guiVars == <<apiClient, owner, request, try, newest, timers, served>>

GuiStart ==
    /\ apiClient = 1
    /\ owner = [r \in Requests |-> 1] /\ request = [r \in Requests |-> "idle"]
    /\ try = [r \in Requests |-> 0] /\ served = [r \in Requests |-> 0]
    /\ newest = [c \in Clients |-> <<>>]
    /\ timers = {}

Pending(r) == request[r] \in {"fetching", "reading"}

-----------------------------------------------------------------------------
\* One attempt of the loop of request: a controller, a timer, a fetch.
Attempt(r, c) ==
    /\ try' = [try EXCEPT ![r] = @ + 1]
    /\ newest' = [newest EXCEPT ![c] = <<r, try[r] + 1>>]
    /\ timers' = timers \cup {<<r, try[r] + 1>>}
    /\ request' = [request EXCEPT ![r] = "fetching"]

\* The GUI calls a method of the client.
Asked(r) ==
    /\ request[r] = "idle"
    /\ owner' = [owner EXCEPT ![r] = apiClient]
    /\ Attempt(r, apiClient)
    /\ UNCHANGED <<apiClient, served>>

\* The server carries the request out, whatever becomes of its answer.
Serves(r) ==
    /\ request[r] = "fetching" /\ served[r] < try[r]
    /\ served' = [served EXCEPT ![r] = @ + 1]
    /\ UNCHANGED <<apiClient, owner, request, try, newest, timers>>

\* The catch clause of anything but an AbortError.
RetriesOrFails(r) ==
    request' = [request EXCEPT ![r] = IF try[r] < RetryAttempts THEN "pausing" ELSE "failed"]

HeadReceived_AllTimers(r) ==
    /\ request[r] = "fetching"
    /\ timers' = {}
    /\ \/ served[r] > 0 /\ request' = [request EXCEPT ![r] = "reading"]
       \/ RetriesOrFails(r)
    /\ UNCHANGED <<apiClient, owner, try, newest, served>>

\* The head of an answer clears the timer; an HTTP error is thrown into the catch clause.
HeadReceived(r) ==
    /\ request[r] = "fetching"
    /\ timers' = timers \ {<<r, try[r]>>}
    /\ \/ served[r] > 0 /\ request' = [request EXCEPT ![r] = "reading"]
       \/ RetriesOrFails(r)
    /\ UNCHANGED <<apiClient, owner, try, newest, served>>

\* fetch itself rejects: nothing clears the timer.
FetchRejects(r) ==
    /\ request[r] = "fetching"
    /\ RetriesOrFails(r)
    /\ UNCHANGED <<apiClient, owner, try, newest, timers, served>>

BodyReceived(r) ==
    /\ request[r] = "reading"
    /\ \/ request' = [request EXCEPT ![r] = "answered"]
       \/ RetriesOrFails(r)
    /\ UNCHANGED <<apiClient, owner, try, newest, timers, served>>

PauseEnds(r) ==
    /\ request[r] = "pausing"
    /\ Attempt(r, owner[r])
    /\ UNCHANGED <<apiClient, owner, served>>

\* abort() of a client's controller: the attempt it belongs to throws an AbortError, if it still runs.
Abort(c) ==
    request' = [r \in Requests |->
        IF Pending(r) /\ newest[c] = <<r, try[r]>> THEN "timedOut" ELSE request[r]]

TimerExpires(r) ==
    /\ \E t \in timers : t[1] = r /\ timers' = timers \ {t}
    /\ Abort(owner[r])
    /\ UNCHANGED <<apiClient, owner, try, newest, served>>

Cancels ==
    /\ Abort(apiClient)
    /\ UNCHANGED <<apiClient, owner, try, newest, timers, served>>

Resets ==
    /\ apiClient + 1 \in Clients
    /\ Abort(apiClient)
    /\ apiClient' = apiClient + 1
    /\ UNCHANGED <<owner, try, newest, timers, served>>

\* What the client does by itself or a timer makes it do.
RequestStep(r) == PauseEnds(r) \/ TimerExpires(r)
GuiStep ==
    \/ \E r \in Requests : Asked(r) \/ Serves(r) \/ HeadReceived(r) \/ FetchRejects(r) \/ BodyReceived(r)
    \/ \E r \in Requests : RequestStep(r)
    \/ Cancels \/ Resets

\* A request is over or it waits for the server without a timer.
RequestsAtRest == timers = {} /\ \A r \in Requests : request[r] # "pausing"

-----------------------------------------------------------------------------
\* The newest attempt of a client never waits for an answer without a timer of its own, so that it is
\* timed out in the end, although its controller is shared and any timer may abort it (request).
\* (An attempt that is no longer the newest has no such guarantee.)
NewestIsTimed ==
    \A r \in Requests :
        request[r] = "fetching" /\ newest[owner[r]] = <<r, try[r]>> => <<r, try[r]>> \in timers
=============================================================================
