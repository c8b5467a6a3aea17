----------------------------- MODULE McpBridge ------------------------------
(***************************************************************************)
(* Messages to other systems (src/bridging/mcp-bridge.ts): a message is     *)
(* posted until an answer is accepted, refused for good, or the attempts    *)
(* are used up.  The time-out covers the answer's head only: it is cancelled *)
(* before the body is read.  What the other system receives is part of the   *)
(* state, so that reports can be compared with it.                            *)
(***************************************************************************)
EXTENDS Naturals, Integers, FiniteSets, FiniteSetsExt

CONSTANTS
    Messages,
    Retries       \* CODEX_MCP_BRIDGE_RETRY_ATTEMPTS

ASSUME McpBridgeAssumption == Retries \in Nat

Attempts == Max({1, Retries + 1})
Heads == {"ok", "busy", "refused"}    \* 2xx; 5xx, 408 and 429; any other status

VARIABLES
    resolvable,   \* the endpoint is a URL or set in the environment
    connected,    \* connectEndpoint was called for it
    mcp,          \* [Messages -> "idle", "posting", "reading", "backoff", "replied", "thrown"]
    attempt,      \* [Messages -> attempt it is at]
    head,         \* [Messages -> status of the answer being read]
    report,       \* [Messages -> ok, code and attempts of the response; <<>> before]
    posts,        \* [Messages -> times it was posted]
    handled       \* [Messages -> how the other system handled the posts that reached it, by number]

bridgeVars == <<resolvable, connected, mcp, attempt, head, report, posts, handled>>

BridgeStart(known) ==
    /\ resolvable = known
    /\ connected = FALSE
    /\ mcp = [m \in Messages |-> "idle"]
    /\ attempt = [m \in Messages |-> 0] /\ head = [m \in Messages |-> "none"]
    /\ report = [m \in Messages |-> <<>>] /\ posts = [m \in Messages |-> 0]
    /\ handled = [m \in Messages |-> {}]

-----------------------------------------------------------------------------
Post(m) ==
    /\ mcp' = [mcp EXCEPT ![m] = "posting"]
    /\ posts' = [posts EXCEPT ![m] = @ + 1]
    /\ attempt' = [attempt EXCEPT ![m] = @ + 1]

\* sendMessage: a name that is neither connected, nor a URL, nor set in the environment throws.
Sends(m) ==
    /\ mcp[m] = "idle"
    /\ \/ (resolvable \/ connected) /\ Post(m) /\ UNCHANGED report
       \/ /\ ~(resolvable \/ connected)
          /\ mcp' = [mcp EXCEPT ![m] = "thrown"]
          /\ UNCHANGED <<posts, attempt, report>>
    /\ UNCHANGED <<resolvable, connected, head, handled>>

Responds(m, code) ==
    /\ mcp' = [mcp EXCEPT ![m] = "replied"]
    /\ report' = [report EXCEPT ![m] = <<[ok |-> code = "delivered", code |-> code, attempts |-> attempt[m]]>>]

\* Another attempt after a pause, or the error.
RetriesOr(m, code) ==
    IF attempt[m] < Attempts
    THEN mcp' = [mcp EXCEPT ![m] = "backoff"] /\ UNCHANGED report
    ELSE Responds(m, code)

\* The other system takes the post and sends the head of its answer.
Receives(m, status) ==
    /\ mcp[m] = "posting" /\ attempt[m] \notin {h.attempt : h \in handled[m]}
    /\ handled' = [handled EXCEPT ![m] = @ \cup {[attempt |-> attempt[m], status |-> status]}]
    /\ UNCHANGED <<resolvable, connected, mcp, attempt, head, report, posts>>

HeadArrives(m) ==
    /\ mcp[m] = "posting"
    /\ \E h \in handled[m] : h.attempt = attempt[m] /\ head' = [head EXCEPT ![m] = h.status]
    /\ mcp' = [mcp EXCEPT ![m] = "reading"]
    /\ UNCHANGED <<resolvable, connected, attempt, report, posts, handled>>

\* The time-out, or a lost connection: whether the post was taken is not known.
TransportFails(m) ==
    /\ mcp[m] = "posting"
    /\ RetriesOr(m, "transport_error")
    /\ UNCHANGED <<resolvable, connected, attempt, head, posts, handled>>

Retryable_None(status) == FALSE
Retryable(status) == status = "busy"
BodyRead(m) ==
    /\ mcp[m] = "reading"
    /\ IF head[m] = "ok" THEN Responds(m, "delivered")
       ELSE IF Retryable(head[m]) THEN RetriesOr(m, "upstream_error")
       ELSE Responds(m, "upstream_error")
    /\ UNCHANGED <<resolvable, connected, attempt, head, posts, handled>>

\* The connection is lost while the body is read: tried again, even after a 2xx.
BodyFails(m) ==
    /\ mcp[m] = "reading"
    /\ RetriesOr(m, "transport_error")
    /\ UNCHANGED <<resolvable, connected, attempt, head, posts, handled>>

\* Mutated form: the endpoint is looked up again, among those that are connected.
BackoffEnds_Connected(m) ==
    /\ mcp[m] = "backoff" /\ connected /\ Post(m)
    /\ UNCHANGED <<resolvable, connected, head, report, handled>>
BackoffEnds(m) ==
    /\ mcp[m] = "backoff" /\ Post(m)
    /\ UNCHANGED <<resolvable, connected, head, report, handled>>

\* A post that was given up is taken late.
TakenLate(m) ==
    /\ posts[m] > 0 /\ mcp[m] # "idle"
    /\ \E n \in 1..posts[m] :
          /\ n < attempt[m] \/ mcp[m] # "posting"
          /\ n \notin {h.attempt : h \in handled[m]}
          /\ \E status \in Heads : handled' = [handled EXCEPT ![m] = @ \cup {[attempt |-> n, status |-> status]}]
    /\ UNCHANGED <<resolvable, connected, mcp, attempt, head, report, posts>>

\* connectEndpoint resolves first: only what can be resolved anyway can be connected.
Connects ==
    /\ ~connected /\ resolvable /\ connected' = TRUE
    /\ UNCHANGED <<resolvable, mcp, attempt, head, report, posts, handled>>

\* shutdown forgets the endpoints; messages under way go on with the URL they resolved.
BridgeShutsDown ==
    /\ connected /\ connected' = FALSE
    /\ UNCHANGED <<resolvable, mcp, attempt, head, report, posts, handled>>

MessageStep(m) ==
    HeadArrives(m) \/ TransportFails(m) \/ BodyRead(m) \/ BodyFails(m) \/ BackoffEnds(m)
BridgeStep ==
    \/ Connects \/ BridgeShutsDown
    \/ \E m \in Messages : Sends(m) \/ MessageStep(m) \/ TakenLate(m) \/ \E s \in Heads : Receives(m, s)

MessagesAtRest == \A m \in Messages : mcp[m] \in {"idle", "replied", "thrown"}

-----------------------------------------------------------------------------
(* Properties.                                                              *)

\* What sendMessage reports is what happened at the other end: a delivery was handled, a message
\* given up for good was refused, and one given up early was not merely busy; the count is the
\* number of posts.
ReportIsTrue ==
    \A m \in Messages : report[m] # <<>> =>
        LET r == report[m][1]
            last == {h.status : h \in {k \in handled[m] : k.attempt = r.attempts}}
        IN /\ r.attempts = posts[m] /\ r.attempts <= Attempts
           /\ r.ok => "ok" \in last
           /\ (~r.ok /\ r.attempts < Attempts) => "refused" \in last
           /\ r.code = "upstream_error" => last # {} /\ "ok" \notin last
=============================================================================
