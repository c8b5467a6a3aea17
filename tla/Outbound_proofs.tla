--------------------------- MODULE Outbound_proofs ---------------------------
(*****************************************************************************)
(* Proofs about the parts at the edge of the system: what the bridge reports *)
(* of a message is what happened at the other end, the newest attempt of a   *)
(* client of the GUI is timed, a model that is asked for was offered, what a *)
(* process decides by was validated, instructions name what is there, what   *)
(* a workflow or a hive-mind command says at its end is what happened, and   *)
(* what the metrics and the usage monitor count is what was recorded.        *)
(* For any messages, requests, calls, processes, terminals, prompts, spawns  *)
(* and bounds.  The parts do not use each other's state, so that each has an *)
(* invariant of its own.                                                     *)
(*****************************************************************************)
EXTENDS Outbound, FiniteSetTheorems, WellFoundedInduction, TLAPS

-----------------------------------------------------------------------------
(* Bridged messages: the inductive invariant.                               *)

Codes == {"delivered", "upstream_error", "transport_error"}
Handling == [attempt : Nat, status : Heads]
Reporting(code, n) == <<[ok |-> code = "delivered", code |-> code, attempts |-> n]>>
Reports == {<<>>} \cup {Reporting(code, n) : code \in Codes, n \in Nat}

BridgeTypeOK ==
    /\ mcp \in [Messages -> {"idle", "posting", "reading", "backoff", "replied", "thrown"}]
    /\ attempt \in [Messages -> Nat] /\ posts \in [Messages -> Nat]
    /\ head \in [Messages -> Heads \cup {"none"}]
    /\ report \in [Messages -> Reports]
    /\ handled \in [Messages -> SUBSET Handling]

\* Every attempt is one post, and there is another attempt only where one is left.
CountedAt(m) ==
    /\ posts[m] = attempt[m] /\ attempt[m] <= Attempts
    /\ mcp[m] = "idle" => attempt[m] = 0
    /\ mcp[m] = "backoff" => attempt[m] < Attempts

\* The other system takes a post once; the head being read is its answer to the current one.
HandledAt(m) ==
    /\ \A h, k \in handled[m] : h.attempt = k.attempt => h = k
    /\ mcp[m] = "reading" =>
          head[m] \in Heads /\ [attempt |-> attempt[m], status |-> head[m]] \in handled[m]

\* What is known of the last post when it is reported with code.
Backed(m, code) ==
    /\ code = "delivered" => [attempt |-> attempt[m], status |-> "ok"] \in handled[m]
    /\ code = "upstream_error" =>
          \/ [attempt |-> attempt[m], status |-> "refused"] \in handled[m]
          \/ [attempt |-> attempt[m], status |-> "busy"] \in handled[m] /\ attempt[m] = Attempts
    /\ code = "transport_error" => attempt[m] = Attempts

\* A report ends the message, counts its attempts and is backed by what was handled.
ReportedAt(m) ==
    report[m] # <<>> =>
        /\ mcp[m] = "replied"
        /\ \E code \in Codes : report[m] = Reporting(code, attempt[m]) /\ Backed(m, code)

BridgeInv ==
    /\ BridgeTypeOK
    /\ \A m \in Messages : CountedAt(m) /\ HandledAt(m) /\ ReportedAt(m)

\* sendMessage posts a message Retries + 1 times at most, and once at least.
LEMMA AttemptsIsRetriesPlusOne == Attempts = Retries + 1 /\ Attempts \in Nat /\ Attempts >= 1
<1>1. Retries \in Nat
  BY McpBridgeAssumption
<1>2. Retries + 1 \in {1, Retries + 1} /\ \A y \in {1, Retries + 1} : Retries + 1 >= y
  BY <1>1
<1>3. PICK x \in {1, Retries + 1} : x = Attempts /\ \A y \in {1, Retries + 1} : x >= y
  BY <1>2 DEF Attempts, Max
<1> QED BY <1>1, <1>3

\* Before any message is sent the invariant holds, whether the endpoint is known or not.
LEMMA BridgeStarts == ASSUME NEW known \in BOOLEAN, BridgeStart(known) PROVE BridgeInv
<1>1. BridgeTypeOK
  BY DEF BridgeStart, BridgeTypeOK, Reports
<1>2. ASSUME NEW m \in Messages PROVE CountedAt(m) /\ HandledAt(m) /\ ReportedAt(m)
  <2>1. mcp[m] = "idle" /\ attempt[m] = 0 /\ posts[m] = 0 /\ handled[m] = {} /\ report[m] = <<>>
    BY DEF BridgeStart
  <2> QED BY <2>1, AttemptsIsRetriesPlusOne DEF CountedAt, HandledAt, ReportedAt
<1> QED BY <1>1, <1>2 DEF BridgeInv

\* The facts about a message that its invariant depends on; what leaves them alone keeps it.
SameMessage(m) ==
    /\ mcp'[m] = mcp[m] /\ attempt'[m] = attempt[m] /\ posts'[m] = posts[m]
    /\ head'[m] = head[m] /\ report'[m] = report[m] /\ handled'[m] = handled[m]
AtMessage(m) == CountedAt(m) /\ HandledAt(m) /\ ReportedAt(m)

\* A message no step touches keeps its part of the invariant.
LEMMA OthersKept == ASSUME NEW m \in Messages, SameMessage(m), AtMessage(m) PROVE AtMessage(m)'
BY DEF SameMessage, AtMessage, CountedAt, HandledAt, ReportedAt, Backed

\* A post: the attempt and its count go up together, and one was left.
LEMMA PostKeeps ==
    ASSUME BridgeInv, NEW m \in Messages, Post(m), mcp[m] \in {"idle", "backoff"},
           UNCHANGED <<head, report, handled>>
    PROVE  BridgeInv'
<1> USE DEF BridgeInv
<1>1. BridgeTypeOK'
  BY DEF BridgeTypeOK, Post
<1>2. ASSUME NEW k \in Messages PROVE AtMessage(k)'
  <2>1. CASE k # m
    <3>1. SameMessage(k)
      BY <2>1 DEF Post, SameMessage, BridgeTypeOK
    <3> QED BY <3>1, OthersKept DEF AtMessage
  <2>2. CASE k = m
    <3>1. /\ mcp'[m] = "posting" /\ attempt'[m] = attempt[m] + 1 /\ posts'[m] = posts[m] + 1
          /\ handled'[m] = handled[m] /\ report'[m] = report[m]
      BY DEF Post, BridgeTypeOK
    <3>2. attempt[m] \in Nat /\ posts[m] \in Nat
      BY DEF BridgeTypeOK
    <3>3. CountedAt(m)'
      BY <3>1, <3>2, AttemptsIsRetriesPlusOne DEF CountedAt
    <3>4. HandledAt(m)'
      BY <3>1 DEF HandledAt
    <3>5. ReportedAt(m)'
      BY <3>1 DEF ReportedAt
    <3> QED BY <2>2, <3>3, <3>4, <3>5 DEF AtMessage
  <2> QED BY <2>1, <2>2
<1> QED BY <1>1, <1>2 DEF AtMessage

\* A message that ends with a code that is backed, after a post whose answer it waited for.
LEMMA RespondsKeeps ==
    ASSUME BridgeInv, NEW m \in Messages, NEW code \in Codes, Responds(m, code), Backed(m, code),
           UNCHANGED <<attempt, head, posts, handled>>
    PROVE  BridgeInv'
<1> USE DEF BridgeInv
<1>1. /\ mcp'[m] = "replied" /\ attempt'[m] = attempt[m] /\ posts'[m] = posts[m]
      /\ handled'[m] = handled[m] /\ report'[m] = Reporting(code, attempt[m])
  BY DEF Responds, BridgeTypeOK, Reporting
<1>2. attempt[m] \in Nat
  BY DEF BridgeTypeOK
<1>3. Reporting(code, attempt[m]) \in Reports
  BY <1>2 DEF Reports
<1>4. report' = [report EXCEPT ![m] = Reporting(code, attempt[m])]
  BY DEF Responds, Reporting
<1>5. BridgeTypeOK'
  BY <1>3, <1>4 DEF BridgeTypeOK, Responds
<1>6. ASSUME NEW k \in Messages PROVE AtMessage(k)'
  <2>1. CASE k # m
    <3>1. SameMessage(k)
      BY <2>1, <1>4 DEF Responds, SameMessage, BridgeTypeOK
    <3> QED BY <3>1, OthersKept DEF AtMessage
  <2>2. CASE k = m
    <3>1. CountedAt(m)'
      BY <1>1 DEF CountedAt
    <3>2. HandledAt(m)'
      BY <1>1 DEF HandledAt
    <3>3. Backed(m, code)'
      BY <1>1 DEF Backed
    <3>4. ReportedAt(m)'
      BY <1>1, <3>3 DEF ReportedAt
    <3> QED BY <2>2, <3>1, <3>2, <3>4 DEF AtMessage
  <2> QED BY <2>1, <2>2
<1> QED BY <1>5, <1>6 DEF AtMessage

\* Another attempt is left, or the message ends with a code that is backed once none is.
LEMMA RetriesOrKeeps ==
    ASSUME BridgeInv, NEW m \in Messages, mcp[m] \in {"posting", "reading"},
           NEW code \in Codes, RetriesOr(m, code), attempt[m] = Attempts => Backed(m, code),
           UNCHANGED <<attempt, head, posts, handled>>
    PROVE  BridgeInv'
<1> USE DEF BridgeInv
<1>1. attempt[m] \in Nat /\ attempt[m] <= Attempts /\ Attempts \in Nat
  BY AttemptsIsRetriesPlusOne DEF BridgeTypeOK, CountedAt
<1>2. CASE attempt[m] < Attempts
  <2>1. mcp' = [mcp EXCEPT ![m] = "backoff"] /\ report' = report
    BY <1>2 DEF RetriesOr
  <2>2. BridgeTypeOK'
    BY <2>1 DEF BridgeTypeOK
  <2>3. ASSUME NEW k \in Messages PROVE AtMessage(k)'
    <3>1. CASE k # m
      <4>1. SameMessage(k)
        BY <2>1, <3>1 DEF SameMessage, BridgeTypeOK
      <4> QED BY <4>1, OthersKept DEF AtMessage
    <3>2. CASE k = m
      <4>1. mcp'[m] = "backoff"
        BY <2>1 DEF BridgeTypeOK
      <4>2. CountedAt(m)'
        BY <4>1, <1>2 DEF CountedAt
      <4>3. HandledAt(m)'
        BY <4>1 DEF HandledAt
      <4>4. ReportedAt(m)'
        BY <2>1 DEF ReportedAt
      <4> QED BY <3>2, <4>2, <4>3, <4>4 DEF AtMessage
    <3> QED BY <3>1, <3>2
  <2> QED BY <2>2, <2>3 DEF AtMessage
<1>3. CASE attempt[m] = Attempts
  BY <1>1, <1>3, RespondsKeeps DEF RetriesOr
<1> QED BY <1>1, <1>2, <1>3

\* The other system handles a post it has not handled yet, after a report or before one.
LEMMA HandlingKeeps ==
    ASSUME BridgeInv, NEW m \in Messages, NEW n \in Nat, NEW status \in Heads,
           n \notin {h.attempt : h \in handled[m]},
           handled' = [handled EXCEPT ![m] = @ \cup {[attempt |-> n, status |-> status]}],
           UNCHANGED <<mcp, attempt, head, report, posts>>
    PROVE  BridgeInv'
<1> USE DEF BridgeInv
<1> DEFINE new == [attempt |-> n, status |-> status]
<1>1. new \in Handling
  BY DEF Handling
<1>2. BridgeTypeOK'
  BY <1>1 DEF BridgeTypeOK
<1>3. ASSUME NEW k \in Messages PROVE AtMessage(k)'
  <2>1. CASE k # m
    <3>1. SameMessage(k)
      BY <2>1 DEF SameMessage, BridgeTypeOK
    <3> QED BY <3>1, OthersKept DEF AtMessage
  <2>2. CASE k = m
    <3>1. handled'[m] = handled[m] \cup {new}
      BY DEF BridgeTypeOK
    <3>2. new.attempt = n /\ \A h \in handled[m] : h.attempt # n
      OBVIOUS
    <3>3. CountedAt(m)'
      BY DEF CountedAt
    <3>4. HandledAt(m)'
      <4> HIDE DEF new
      <4>1. \A h, k2 \in handled[m] \cup {new} : h.attempt = k2.attempt => h = k2
        BY <3>2 DEF HandledAt
      <4>2. mcp'[m] = "reading" =>
               head'[m] \in Heads /\ [attempt |-> attempt'[m], status |-> head'[m]] \in handled'[m]
        BY <3>1 DEF HandledAt
      <4> QED BY <3>1, <4>1, <4>2 DEF HandledAt
    <3>5. ReportedAt(m)'
      <4> HIDE DEF new
      <4>1. \A code \in Codes : Backed(m, code) => Backed(m, code)'
        BY <3>1 DEF Backed
      <4> QED BY <4>1 DEF ReportedAt
    <3> QED BY <2>2, <3>3, <3>4, <3>5 DEF AtMessage
  <2> QED BY <2>1, <2>2
<1> QED BY <1>2, <1>3 DEF AtMessage

\* Every step of the bridge and of the other systems keeps the invariant.
LEMMA BridgeStepKeeps == BridgeInv /\ BridgeStep => BridgeInv'
<1> SUFFICES ASSUME BridgeInv, BridgeStep PROVE BridgeInv'
  OBVIOUS
<1> USE DEF BridgeInv
<1>a. ASSUME UNCHANGED <<mcp, attempt, head, report, posts, handled>> PROVE BridgeInv'
  BY <1>a DEF BridgeTypeOK, CountedAt, HandledAt, ReportedAt, Backed
<1>1. CASE Connects
  BY <1>1, <1>a DEF Connects
<1>2. CASE BridgeShutsDown
  BY <1>2, <1>a DEF BridgeShutsDown
<1>3. ASSUME NEW m \in Messages, Sends(m) PROVE BridgeInv'
  <2>1. CASE Post(m) /\ UNCHANGED report
    BY <1>3, <2>1, PostKeeps DEF Sends
  <2>2. CASE mcp' = [mcp EXCEPT ![m] = "thrown"] /\ UNCHANGED <<posts, attempt, report>>
    <3>1. mcp[m] = "idle" /\ UNCHANGED <<head, handled>>
      BY <1>3 DEF Sends
    <3>2. BridgeTypeOK'
      BY <2>2, <3>1 DEF BridgeTypeOK
    <3>3. ASSUME NEW k \in Messages PROVE AtMessage(k)'
      <4>1. CASE k # m
        <5>1. SameMessage(k)
          BY <2>2, <3>1, <4>1 DEF SameMessage, BridgeTypeOK
        <5> QED BY <5>1, OthersKept DEF AtMessage
      <4>2. CASE k = m
        <5>1. mcp'[m] = "thrown"
          BY <2>2 DEF BridgeTypeOK
        <5> QED BY <2>2, <3>1, <4>2, <5>1 DEF AtMessage, CountedAt, HandledAt, ReportedAt
      <4> QED BY <4>1, <4>2
    <3> QED BY <3>2, <3>3 DEF AtMessage
  <2> QED BY <1>3, <2>1, <2>2 DEF Sends
<1>4. ASSUME NEW m \in Messages, HeadArrives(m) PROVE BridgeInv'
  <2>1. PICK h \in handled[m] : h.attempt = attempt[m] /\ head' = [head EXCEPT ![m] = h.status]
    BY <1>4 DEF HeadArrives
  <2>2. h \in Handling /\ handled[m] \subseteq Handling
    BY DEF BridgeTypeOK
  <2>3. h.status \in Heads /\ h = [attempt |-> attempt[m], status |-> h.status]
    BY <2>1, <2>2 DEF Handling
  <2>4. mcp' = [mcp EXCEPT ![m] = "reading"] /\ UNCHANGED <<attempt, report, posts, handled>> /\ mcp[m] = "posting"
    BY <1>4 DEF HeadArrives
  <2>5. BridgeTypeOK'
    BY <2>1, <2>3, <2>4 DEF BridgeTypeOK
  <2>6. ASSUME NEW k \in Messages PROVE AtMessage(k)'
    <3>1. CASE k # m
      <4>1. SameMessage(k)
        BY <2>1, <2>4, <3>1 DEF SameMessage, BridgeTypeOK
      <4> QED BY <4>1, OthersKept DEF AtMessage
    <3>2. CASE k = m
      <4>1. mcp'[m] = "reading" /\ head'[m] = h.status
        BY <2>1, <2>4 DEF BridgeTypeOK
      <4>2. CountedAt(m)'
        BY <2>4, <4>1 DEF CountedAt
      <4>3. HandledAt(m)'
        BY <2>3, <2>4, <4>1 DEF HandledAt
      <4>4. ReportedAt(m)'
        BY <2>4 DEF ReportedAt
      <4> QED BY <3>2, <4>2, <4>3, <4>4 DEF AtMessage
    <3> QED BY <3>1, <3>2
  <2> QED BY <2>5, <2>6 DEF AtMessage
<1>5. ASSUME NEW m \in Messages, TransportFails(m) \/ BodyFails(m) PROVE BridgeInv'
  <2>1. attempt[m] = Attempts => Backed(m, "transport_error")
    BY DEF Backed
  <2> QED BY <1>5, <2>1, RetriesOrKeeps DEF TransportFails, BodyFails, Codes
<1>6. ASSUME NEW m \in Messages, BodyRead(m) PROVE BridgeInv'
  <2>1. /\ mcp[m] = "reading" /\ UNCHANGED <<attempt, head, posts, handled>>
        /\ head[m] \in {"ok", "busy", "refused"}
        /\ [attempt |-> attempt[m], status |-> head[m]] \in handled[m]
    BY <1>6 DEF BodyRead, HandledAt, Heads
  <2>2. CASE head[m] = "ok"
    <3>1. Responds(m, "delivered") /\ Backed(m, "delivered")
      BY <1>6, <2>1, <2>2 DEF BodyRead, Backed
    <3> QED BY <2>1, <3>1, RespondsKeeps DEF Codes
  <2>3. CASE head[m] = "busy"
    <3>1. RetriesOr(m, "upstream_error")
      BY <1>6, <2>3 DEF BodyRead, Retryable
    <3>2. attempt[m] = Attempts => Backed(m, "upstream_error")
      BY <2>1, <2>3 DEF Backed
    <3> QED BY <2>1, <3>1, <3>2, RetriesOrKeeps DEF Codes
  <2>4. CASE head[m] = "refused"
    <3>1. Responds(m, "upstream_error") /\ Backed(m, "upstream_error")
      BY <1>6, <2>1, <2>4 DEF BodyRead, Backed, Retryable
    <3> QED BY <2>1, <3>1, RespondsKeeps DEF Codes
  <2> QED BY <2>1, <2>2, <2>3, <2>4
<1>7. ASSUME NEW m \in Messages, BackoffEnds(m) PROVE BridgeInv'
  BY <1>7, PostKeeps DEF BackoffEnds
<1>8. ASSUME NEW m \in Messages, TakenLate(m) PROVE BridgeInv'
  <2>1. PICK n \in 1..posts[m] : n \notin {h.attempt : h \in handled[m]} /\ \E status \in Heads :
           handled' = [handled EXCEPT ![m] = @ \cup {[attempt |-> n, status |-> status]}]
    BY <1>8 DEF TakenLate
  <2>2. posts[m] \in Nat
    BY DEF BridgeTypeOK
  <2>3. n \in Nat
    BY <2>2
  <2>4. UNCHANGED <<mcp, attempt, head, report, posts>>
    BY <1>8 DEF TakenLate
  <2> QED BY <2>1, <2>3, <2>4, HandlingKeeps
<1>9. ASSUME NEW m \in Messages, NEW s \in Heads, Receives(m, s) PROVE BridgeInv'
  <2>1. attempt[m] \in Nat
    BY DEF BridgeTypeOK
  <2> QED BY <1>9, <2>1, HandlingKeeps DEF Receives
<1> QED BY <1>1, <1>2, <1>3, <1>4, <1>5, <1>6, <1>7, <1>8, <1>9 DEF BridgeStep, MessageStep

\* The invariant gives the property: what a report says, the last post bears out.
LEMMA BridgeInvImplies == BridgeInv => ReportIsTrue
<1> SUFFICES ASSUME BridgeInv, NEW m \in Messages, report[m] # <<>>
    PROVE LET r == report[m][1]
              last == {h.status : h \in {k \in handled[m] : k.attempt = r.attempts}}
          IN /\ r.attempts = posts[m] /\ r.attempts <= Attempts
             /\ r.ok => "ok" \in last
             /\ (~r.ok /\ r.attempts < Attempts) => "refused" \in last
             /\ r.code = "upstream_error" => last # {} /\ "ok" \notin last
  BY DEF ReportIsTrue
<1> DEFINE r == report[m][1]
           last == {h.status : h \in {k \in handled[m] : k.attempt = r.attempts}}
<1>1. PICK code \in Codes : report[m] = Reporting(code, attempt[m]) /\ Backed(m, code)
  BY DEF BridgeInv, ReportedAt
<1>2. r.ok = (code = "delivered") /\ r.code = code /\ r.attempts = attempt[m]
  BY <1>1 DEF Reporting
<1>3. CountedAt(m) /\ HandledAt(m) /\ attempt[m] \in Nat /\ Attempts \in Nat
  BY AttemptsIsRetriesPlusOne DEF BridgeInv, BridgeTypeOK
<1>4. ASSUME NEW s, [attempt |-> attempt[m], status |-> s] \in handled[m]
      PROVE  s \in last /\ \A t \in last : t = s
  <2> DEFINE h == [attempt |-> attempt[m], status |-> s]
  <2>1. h.attempt = attempt[m] /\ h.status = s
    OBVIOUS
  <2>2. \A k \in handled[m] : k.attempt = attempt[m] => k = h
    BY <1>3, <1>4, <2>1 DEF HandledAt
  <2>3. h \in handled[m]
    BY <1>4
  <2> HIDE DEF h
  <2> QED BY <1>2, <2>1, <2>2, <2>3 DEF last
<1> HIDE DEF r, last
<1>5. r.attempts = posts[m] /\ r.attempts <= Attempts
  BY <1>2, <1>3 DEF CountedAt
<1>6. r.ok => "ok" \in last
  BY <1>1, <1>2, <1>4 DEF Backed
<1>7. (~r.ok /\ r.attempts < Attempts) => "refused" \in last
  <2>1. ~r.ok => code # "delivered"
    BY <1>2
  <2>2. r.attempts < Attempts => attempt[m] # Attempts
    BY <1>2, <1>3
  <2>3. code # "delivered" /\ attempt[m] # Attempts => "refused" \in last
    BY <1>1, <1>4 DEF Backed, Codes
  <2> QED BY <2>1, <2>2, <2>3
<1>8. r.code = "upstream_error" => last # {} /\ "ok" \notin last
  <2> SUFFICES ASSUME code = "upstream_error" PROVE last # {} /\ "ok" \notin last
    BY <1>2
  <2>1. PICK s \in {"refused", "busy"} : [attempt |-> attempt[m], status |-> s] \in handled[m]
    BY <1>1 DEF Backed
  <2>2. s \in last /\ \A t \in last : t = s
    BY <1>4, <2>1
  <2> QED BY <2>2
<1> QED BY <1>5, <1>6, <1>7, <1>8 DEF r, last

-----------------------------------------------------------------------------
(* The GUI's client: NewestIsTimed is inductive once the types are known.   *)

GuiTypeOK ==
    /\ apiClient \in Clients /\ owner \in [Requests -> Clients]
    /\ request \in [Requests -> {"idle", "fetching", "reading", "pausing", "answered", "failed", "timedOut"}]
    /\ try \in [Requests -> Nat] /\ served \in [Requests -> Nat]
    /\ newest \in [Clients -> {<<>>} \cup (Requests \X Nat)]
    /\ timers \subseteq Requests \X Nat
GuiInv == GuiTypeOK /\ NewestIsTimed

\* A client that was just made has no request under way.
LEMMA GuiStarts == GuiStart => GuiInv
<1>1. 1 \in Clients
  BY GuiClientAssumption DEF Clients
<1> QED BY <1>1 DEF GuiStart, GuiInv, GuiTypeOK, NewestIsTimed

\* An attempt sets the timer of the controller it replaces.
LEMMA AttemptKeeps ==
    ASSUME GuiInv, NEW r \in Requests, NEW c \in Clients, Attempt(r, c),
           owner' = [owner EXCEPT ![r] = c], UNCHANGED <<apiClient, served>>
    PROVE  GuiInv'
<1> USE DEF GuiInv
<1>1. try[r] + 1 \in Nat /\ <<r, try[r] + 1>> \in Requests \X Nat
  BY DEF GuiTypeOK
<1>2. GuiTypeOK'
  BY <1>1 DEF GuiTypeOK, Attempt
<1>3. ASSUME NEW k \in Requests, request'[k] = "fetching", newest'[owner'[k]] = <<k, try'[k]>>
      PROVE  <<k, try'[k]>> \in timers'
  <2>1. CASE k = r
    <3>1. try'[r] = try[r] + 1
      BY DEF Attempt, GuiTypeOK
    <3> QED BY <2>1, <3>1 DEF Attempt
  <2>2. CASE k # r
    <3>1. request'[k] = request[k] /\ try'[k] = try[k] /\ owner'[k] = owner[k] /\ owner[k] \in Clients
      BY <2>2 DEF Attempt, GuiTypeOK
    <3>2. CASE owner[k] = c
      <4>1. newest'[owner'[k]] = <<r, try[r] + 1>>
        BY <3>1, <3>2 DEF Attempt, GuiTypeOK
      <4> QED BY <1>3, <2>2, <3>1, <4>1
    <3>3. CASE owner[k] # c
      <4>1. newest'[owner'[k]] = newest[owner[k]]
        BY <3>1, <3>3 DEF Attempt, GuiTypeOK
      <4> QED BY <1>3, <3>1, <4>1 DEF NewestIsTimed, Attempt
    <3> QED BY <3>2, <3>3
  <2> QED BY <2>1, <2>2
<1> QED BY <1>2, <1>3 DEF NewestIsTimed

\* Whatever the client, the server, the timers and the GUI do keeps the invariant.
LEMMA GuiStepKeeps == GuiInv /\ GuiStep => GuiInv'
<1> SUFFICES ASSUME GuiInv, GuiStep PROVE GuiInv'
  OBVIOUS
<1> USE DEF GuiInv
\* A step that starts no attempt and takes no timer but one of an attempt that is over.
<1>a. ASSUME GuiTypeOK', UNCHANGED <<owner, try, newest>>,
             \A k \in Requests : request'[k] = "fetching" =>
                request[k] = "fetching"
                /\ (newest[owner[k]] = <<k, try[k]>> /\ <<k, try[k]>> \in timers => <<k, try[k]>> \in timers')
      PROVE  GuiInv'
  BY <1>a DEF NewestIsTimed
\* An abort moves requests only away from their fetch.
<1>b. ASSUME NEW c \in Clients, Abort(c)
      PROVE  /\ request' \in [Requests -> {"idle", "fetching", "reading", "pausing", "answered", "failed", "timedOut"}]
             /\ \A k \in Requests : request'[k] = "fetching" => request[k] = "fetching" /\ newest[c] # <<k, try[k]>>
  BY <1>b DEF Abort, GuiTypeOK, Pending
<1>1. ASSUME NEW r \in Requests, Asked(r) PROVE GuiInv'
  <2>1. apiClient \in Clients
    BY DEF GuiTypeOK
  <2> QED BY <1>1, <2>1, AttemptKeeps DEF Asked
<1>2. ASSUME NEW r \in Requests, Serves(r) PROVE GuiInv'
  <2>1. GuiTypeOK'
    BY <1>2 DEF Serves, GuiTypeOK
  <2> QED BY <1>2, <1>a, <2>1 DEF Serves
<1>3. ASSUME NEW r \in Requests, HeadReceived(r) PROVE GuiInv'
  <2>1. GuiTypeOK'
    BY <1>3 DEF HeadReceived, RetriesOrFails, GuiTypeOK
  <2>2. request'[r] # "fetching" /\ \A k \in Requests \ {r} : request'[k] = request[k]
    BY <1>3 DEF HeadReceived, RetriesOrFails, GuiTypeOK
  <2>3. \A k \in Requests \ {r} : <<k, try[k]>> \in timers => <<k, try[k]>> \in timers'
    BY <1>3 DEF HeadReceived
  <2> QED BY <1>3, <1>a, <2>1, <2>2, <2>3 DEF HeadReceived
<1>4. ASSUME NEW r \in Requests, FetchRejects(r) PROVE GuiInv'
  <2>1. GuiTypeOK'
    BY <1>4 DEF FetchRejects, RetriesOrFails, GuiTypeOK
  <2>2. request'[r] # "fetching" /\ \A k \in Requests \ {r} : request'[k] = request[k]
    BY <1>4 DEF FetchRejects, RetriesOrFails, GuiTypeOK
  <2> QED BY <1>4, <1>a, <2>1, <2>2 DEF FetchRejects
<1>5. ASSUME NEW r \in Requests, BodyReceived(r) PROVE GuiInv'
  <2>1. GuiTypeOK'
    BY <1>5 DEF BodyReceived, RetriesOrFails, GuiTypeOK
  <2>2. request'[r] # "fetching" /\ \A k \in Requests \ {r} : request'[k] = request[k]
    BY <1>5 DEF BodyReceived, RetriesOrFails, GuiTypeOK
  <2> QED BY <1>5, <1>a, <2>1, <2>2 DEF BodyReceived
<1>6. ASSUME NEW r \in Requests, PauseEnds(r) PROVE GuiInv'
  <2>1. owner[r] \in Clients /\ owner' = [owner EXCEPT ![r] = owner[r]]
    BY <1>6 DEF PauseEnds, GuiTypeOK
  <2> QED BY <1>6, <2>1, AttemptKeeps DEF PauseEnds
<1>7. ASSUME NEW r \in Requests, TimerExpires(r) PROVE GuiInv'
  <2>1. PICK t \in timers : t[1] = r /\ timers' = timers \ {t}
    BY <1>7 DEF TimerExpires
  <2>2. owner[r] \in Clients /\ Abort(owner[r])
    BY <1>7 DEF TimerExpires, GuiTypeOK
  <2>3. GuiTypeOK'
    BY <1>7, <1>b, <2>1, <2>2 DEF TimerExpires, GuiTypeOK
  <2>4. ASSUME NEW k \in Requests, request'[k] = "fetching", newest[owner[k]] = <<k, try[k]>>,
               <<k, try[k]>> \in timers
        PROVE  <<k, try[k]>> \in timers'
    BY <1>b, <2>1, <2>2, <2>4
  <2> QED BY <1>7, <1>a, <1>b, <2>2, <2>3, <2>4 DEF TimerExpires
<1>8. CASE Cancels
  <2>1. GuiTypeOK'
    BY <1>8, <1>b DEF Cancels, GuiTypeOK
  <2> QED BY <1>8, <1>a, <1>b, <2>1 DEF Cancels, GuiTypeOK
<1>9. CASE Resets
  <2>1. GuiTypeOK'
    BY <1>9, <1>b DEF Resets, GuiTypeOK
  <2> QED BY <1>9, <1>a, <1>b, <2>1 DEF Resets, GuiTypeOK
<1> QED BY <1>1, <1>2, <1>3, <1>4, <1>5, <1>6, <1>7, <1>8, <1>9 DEF GuiStep, RequestStep

-----------------------------------------------------------------------------
(* Hosted models: every list is as old as the time it is kept under says.    *)

BackendInv ==
    /\ now \in Nat /\ lastRefresh \in Nat /\ since \in [Calls -> Nat]
    /\ DOMAIN call = Calls /\ DOMAIN heard = Calls /\ DOMAIN model = Calls
    /\ \A c \in Calls : since[c] <= now
    /\ inventory # {} => \E t \in lastRefresh..now : inventory = offered[t]
    /\ \A c \in Calls : call[c] = "listed" /\ heard[c].list # {} =>
          \E t \in since[c]..now : heard[c].list = offered[t]

\* What AskedForOffered says of a call that asks for id while the lists since t0 count.
ChosenWell(c, id, t0) ==
    \E t \in t0..now :
        \/ ModelAvailable(routing, offered[t], id)
        \/ \A x \in Range(CandidateChain(routing, Preferred(routing, PromptOf[c]))) :
               ~ModelAvailable(routing, offered[t], x)

\* Every chain of candidates is a sequence, so that it has a first that fits if it has any.
LEMMA ChainIsASequence ==
    ASSUME NEW r, NEW id PROVE \E n \in Nat : DOMAIN CandidateChain(r, id) = 1..n
<1> DEFINE S == STRING \cup {id, r.default}
           tail == IF id \in DOMAIN Catalog THEN Catalog[id] ELSE <<>>
<1>1. Defaults \in Seq(S) /\ tail \in Seq(S) /\ <<id>> \in Seq(S) /\ <<r.default>> \in Seq(S)
  BY ModelBackendAssumption
<1>2. CandidateChain(r, id) = <<id>> \o tail \o <<r.default>> \o Defaults
  BY DEF CandidateChain
<1> HIDE DEF S, tail
<1>3. CandidateChain(r, id) \in Seq(S)
  BY <1>1, <1>2
<1> QED BY <1>3

\* A set of naturals that has a member has a least one.
LEMMA NatHasLeast ==
    ASSUME NEW T, T \subseteq Nat, T # {} PROVE \E i \in T : \A j \in T : i <= j
<1> DEFINE R == OpToRel(<, Nat)
<1>1. \A i, j \in Nat : <<j, i>> \in R <=> j < i
  BY DEF OpToRel
<1>2. IsWellFoundedOn(R, Nat)
  BY NatLessThanWellFounded
<1> HIDE DEF R
<1>3. PICK i \in T : \A j \in T : ~(<<j, i>> \in R)
  BY <1>2, WFMin
<1>4. \A j \in T : i <= j
  <2> SUFFICES ASSUME NEW j \in T PROVE i <= j
    OBVIOUS
  <2>1. i \in Nat /\ j \in Nat /\ ~(j < i)
    BY <1>1, <1>3
  <2> QED BY <2>1
<1> QED BY <1>4

\* resolveSelection takes a model that fits, unless none of the chain does.
LEMMA SelectionFits ==
    ASSUME NEW r, NEW stock, NEW prompt
    PROVE  \/ ModelAvailable(r, stock, Selection(r, stock, prompt))
           \/ \A x \in Range(CandidateChain(r, Preferred(r, prompt))) : ~ModelAvailable(r, stock, x)
<1> DEFINE chain == CandidateChain(r, Preferred(r, prompt))
           fits == {i \in DOMAIN chain : ModelAvailable(r, stock, chain[i])}
<1>1. Selection(r, stock, prompt) = IF fits = {} THEN r.baseline ELSE chain[Min(fits)]
  BY DEF Selection
<1>2. PICK n \in Nat : DOMAIN chain = 1..n
  BY ChainIsASequence
<1> HIDE DEF chain
<1>3. CASE fits = {}
  <2>1. \A x \in Range(chain) : ~ModelAvailable(r, stock, x)
    BY <1>3 DEF Range
  <2> QED BY <2>1 DEF chain
<1>4. CASE fits # {}
  <2>1. fits \subseteq Nat
    BY <1>2
  <2>2. \E i \in fits : \A j \in fits : i <= j
    BY <1>4, <2>1, NatHasLeast
  <2>3. Min(fits) \in fits
    <3> HIDE DEF fits
    <3> QED BY <2>2 DEF Min
  <2> QED BY <1>1, <1>4, <2>3
<1> QED BY <1>3, <1>4

\* A call that is asked with an installed list of the time t0 or later asks for what was offered.
LEMMA AskedWell ==
    ASSUME NEW c \in Calls, NEW t0, NEW stock, \E t \in t0..now : stock = offered[t]
    PROVE  ChosenWell(c, Selection(routing, stock, PromptOf[c]), t0)
BY SelectionFits DEF ChosenWell

\* Nothing is kept before the first list.
LEMMA BackendStarts ==
    ASSUME NEW k, NEW r, NEW t, BackendStart(k, r, t) PROVE BackendInv
BY DEF BackendStart, BackendInv

\* The invariant and AskedForOffered's step, of every step of the client and the API.
Chosen == \A c \in Calls : inventory' # {} /\ call'[c] = "asked" /\ call[c] # "asked" =>
              model'[c] # <<>> /\ ChosenWell(c, model'[c][1], lastRefresh')

\* Every step keeps the invariant, and a model that is asked for was chosen from the list of the time.
LEMMA BackendStepKeeps == BackendInv /\ BackendStep => BackendInv' /\ Chosen
<1> SUFFICES ASSUME BackendInv, BackendStep PROVE BackendInv' /\ Chosen
  OBVIOUS
<1>0. \A a, b : a \in Nat /\ b \in Nat => a..b \subseteq a..(b + 1)
  OBVIOUS
<1>1. CASE Boots \/ KeyRevoked
  BY <1>1 DEF Boots, KeyRevoked, BackendInv, Chosen
<1>2. CASE Ticks
  <2>1. now' = now + 1 /\ now \in Nat /\ lastRefresh \in Nat /\ \A c \in Calls : since[c] \in Nat
    BY <1>2 DEF Ticks, BackendInv
  <2>2. /\ lastRefresh..now \subseteq lastRefresh..now'
        /\ \A c \in Calls : since[c]..now \subseteq since[c]..now' /\ (since[c] <= now => since[c] <= now')
    BY <1>0, <2>1
  <2>3. UNCHANGED <<lastRefresh, since, call, heard, model, inventory, offered>>
    BY <1>2 DEF Ticks
  <2>4. now' \in Nat
    BY <2>1
  <2>5. inventory' # {} => \E t \in lastRefresh'..now' : inventory' = offered'[t]
    BY <2>2, <2>3 DEF BackendInv
  <2>6. \A c \in Calls : call'[c] = "listed" /\ heard'[c].list # {} =>
           \E t \in since'[c]..now' : heard'[c].list = offered'[t]
    BY <2>2, <2>3 DEF BackendInv
  <2>7. \A c \in Calls : since'[c] <= now'
    BY <2>2, <2>3 DEF BackendInv
  <2>8. BackendInv'
    BY <2>3, <2>4, <2>5, <2>6, <2>7 DEF BackendInv
  <2> QED BY <2>3, <2>8 DEF Chosen
<1>3. ASSUME NEW c \in Calls, Begins(c) PROVE BackendInv' /\ Chosen
  BY <1>3 DEF Begins, BackendInv, Chosen
<1>4. ASSUME NEW c \in Calls, Reaches(c) PROVE BackendInv' /\ Chosen
  <2>1. CASE client # "ready" /\ call' = [call EXCEPT ![c] = "queued"]
             /\ UNCHANGED <<now, offered, inventory, lastRefresh, since, heard, model>>
    BY <2>1 DEF BackendInv, Chosen
  <2>2. CASE Cached /\ Asks(c, inventory, client) /\ client = "ready"
             /\ UNCHANGED <<client, inventory, lastRefresh, since, heard>>
    <3>1. /\ UNCHANGED <<now, routing, offered>>
          /\ call' = [call EXCEPT ![c] = "asked"]
          /\ model' = [model EXCEPT ![c] = <<Selection(routing, inventory, PromptOf[c])>>]
      BY <2>2 DEF Asks
    <3>2. BackendInv'
      BY <2>2, <3>1 DEF BackendInv
    <3>3. \E t \in lastRefresh..now : inventory = offered[t]
      BY <2>2 DEF Cached, BackendInv
    <3>4. ChosenWell(c, Selection(routing, inventory, PromptOf[c]), lastRefresh)
      BY <3>3, AskedWell
    <3>5. model'[c] = <<Selection(routing, inventory, PromptOf[c])>>
      BY <3>1 DEF BackendInv
    <3>6. \A k \in Calls \ {c} : call'[k] = call[k]
      BY <3>1 DEF BackendInv
    <3> QED BY <2>2, <3>2, <3>4, <3>5, <3>6 DEF Chosen
  <2>3. CASE call' = [call EXCEPT ![c] = "listing"] /\ since' = [since EXCEPT ![c] = now]
             /\ UNCHANGED <<now, offered, inventory, lastRefresh, heard, model>>
    BY <2>3 DEF BackendInv, Chosen
  <2> QED BY <1>4, <2>1, <2>2, <2>3 DEF Reaches
<1>5. ASSUME NEW c \in Calls, Lists(c) PROVE BackendInv' /\ Chosen
  <2>1. PICK answer \in {NoList(FALSE), IF key = "good" THEN [list |-> offered[now], refused |-> FALSE]
                                        ELSE NoList(TRUE)} : heard' = [heard EXCEPT ![c] = answer]
    BY <1>5 DEF Lists
  <2>2. answer.list # {} => answer.list = offered[now]
    BY <2>1 DEF NoList
  <2>3. call' = [call EXCEPT ![c] = "listed"] /\ UNCHANGED <<now, offered, inventory, lastRefresh, since, model>>
    BY <1>5 DEF Lists
  <2>4. now \in since[c]..now
    BY DEF BackendInv
  <2>5. ASSUME NEW k \in Calls, call'[k] = "listed", heard'[k].list # {}
        PROVE  \E t \in since'[k]..now' : heard'[k].list = offered'[t]
    <3>1. CASE k = c
      BY <2>1, <2>2, <2>3, <2>4, <2>5, <3>1 DEF BackendInv
    <3>2. CASE k # c
      BY <2>1, <2>3, <2>5, <3>2 DEF BackendInv
    <3> QED BY <3>1, <3>2
  <2>6. BackendInv'
    BY <2>1, <2>3, <2>5 DEF BackendInv
  <2>7. Chosen
    BY <2>3 DEF Chosen, BackendInv
  <2> QED BY <2>6, <2>7
<1>6. ASSUME NEW c \in Calls, Hears(c) PROVE BackendInv' /\ Chosen
  <2>1. /\ UNCHANGED <<since, heard, now, routing, offered>> /\ inventory' = Installed(c)
        /\ lastRefresh' = IF heard[c].list # {} THEN since[c] ELSE lastRefresh
        /\ call[c] = "listed" /\ Asks(c, inventory', client')
    BY <1>6 DEF Hears, Asks, RefreshTime
  <2>2. inventory' # {} => \E t \in lastRefresh'..now : inventory' = offered[t]
    BY <2>1 DEF Installed, BackendInv
  <2>3. /\ DOMAIN call' = Calls /\ DOMAIN model' = Calls
        /\ call'[c] \in {"asked", "failed"} /\ \A k \in Calls \ {c} : call'[k] = call[k]
        /\ call'[c] = "asked" => model'[c] = <<Selection(routing, inventory', PromptOf[c])>>
    BY <2>1 DEF Asks, BackendInv
  <2>4. lastRefresh' \in Nat
    BY <2>1 DEF BackendInv
  <2>5. BackendInv'
    BY <2>1, <2>2, <2>3, <2>4 DEF BackendInv
  <2>6. ASSUME inventory' # {}, call'[c] = "asked"
        PROVE  model'[c] # <<>> /\ ChosenWell(c, model'[c][1], lastRefresh')
    <3>1. ChosenWell(c, Selection(routing, inventory', PromptOf[c]), lastRefresh')
      BY <2>2, <2>6, AskedWell
    <3> QED BY <2>3, <2>6, <3>1
  <2>7. Chosen
    BY <2>3, <2>6 DEF Chosen
  <2> QED BY <2>5, <2>7
<1>7. ASSUME NEW c \in Calls, Answers(c) \/ Schedules(c) PROVE BackendInv' /\ Chosen
  <2>1. PICK end \in {"answered", "failed"} : call' = [call EXCEPT ![c] = end]
    BY <1>7 DEF Answers, Schedules
  <2>2. UNCHANGED <<now, offered, inventory, lastRefresh, since, heard, model>>
    BY <1>7 DEF Answers, Schedules
  <2> QED BY <2>1, <2>2 DEF BackendInv, Chosen
<1> QED BY <1>1, <1>2, <1>3, <1>4, <1>5, <1>6, <1>7 DEF BackendStep, CallStep

-----------------------------------------------------------------------------
(* Settings: what a process decides by was validated, and its environment is *)
(* that of the first source of every variable.                               *)

InBounds(leaf) ==
    /\ leaf.timeout >= 1000 /\ leaf.minVotes >= 1 /\ leaf.stakeThreshold >= 1 /\ leaf.stakeThreshold <= 100

\* What validateConfiguration accepts has its consensus settings within bounds.
LEMMA ValidIsInBounds == ASSUME NEW c, Valid(c) PROVE InBounds(c.leaf)
<1>1. \A k \in DOMAIN AtLeast : c.leaf[k] >= AtLeast[k]
  BY DEF Valid
<1>2. c.leaf.timeout >= 1000 /\ c.leaf.minVotes >= 1 /\ c.leaf.stakeThreshold >= 1
  BY <1>1 DEF AtLeast
<1>3. c.leaf.stakeThreshold <= 100
  BY DEF Valid, AtMost
<1> QED BY <1>2, <1>3 DEF InBounds

\* The defaults are accepted, with any consensus settings that are within bounds.
LEMMA DefaultsAreValid ==
    ASSUME NEW leaf, DOMAIN leaf = ConsensusLeaves, InBounds(leaf)
    PROVE  Valid([DefaultConfiguration EXCEPT !.leaf = Over(leaf, @)])
<1> DEFINE d == DefaultConfiguration.leaf
           c == [DefaultConfiguration EXCEPT !.leaf = Over(leaf, @)]
<1>1. c.leaf = Over(leaf, d)
  BY DEF DefaultConfiguration
<1>2. \A k \in ConsensusLeaves : c.leaf[k] = leaf[k]
  <2> HIDE DEF c, d
  <2> QED BY <1>1 DEF Over
<1>3. \A k \in DOMAIN d \ ConsensusLeaves : c.leaf[k] = d[k]
  <2> HIDE DEF c, d
  <2> QED BY <1>1 DEF Over
<1>4. /\ d.maxAgents = 100 /\ d.heartbeatInterval = 30000 /\ d.healingCooldown = 15000
      /\ d.meshRun = 3600000 /\ d.meshHealing = 15000 /\ d.swarmRun = 3600000
      /\ d.defaultPort = 8080 /\ d.apiPort = 4242
      /\ d.scaleMin = 4 /\ d.scaleMax = 40 /\ d.scaleUp = 75 /\ d.scaleDown = 35 /\ d.scaleCooldown = 45000
  BY DEF DefaultConfiguration
<1>5. /\ d.probeCacheTtl = 300000 /\ d.engine = "local" /\ d.dimensions = 32 /\ d.backend = "native"
      /\ d.sampleRate = 100 /\ d.handoffDepth = 3 /\ d.requestTimeout = 60000 /\ d.tenantTasks = 10
      /\ d.mode = "cli" /\ d.tuiTheme = "dark" /\ d.refreshInterval = 1000 /\ d.tier = "intermediate"
      /\ d.windowWidth = 1200 /\ d.windowHeight = 800 /\ d.guiPort = 4242 /\ d.guiTheme = "system"
  BY DEF DefaultConfiguration
<1>6. DOMAIN AtLeast \cup DOMAIN AtLeastOptional \cup DOMAIN AtLeastInterface \cup DOMAIN AtMost
      \cup DOMAIN OneOf \cup {"scaleMax", "scaleUp", "scaleDown"} \subseteq DOMAIN d
  BY DEF AtLeast, AtLeastOptional, AtLeastInterface, AtMost, OneOf, DefaultConfiguration
<1> HIDE DEF d, c
<1>7. \A k \in DOMAIN AtLeast : c.leaf[k] >= AtLeast[k]
  BY <1>2, <1>3, <1>4, <1>6 DEF AtLeast, InBounds, ConsensusLeaves
<1>8. \A k \in DOMAIN AtLeastOptional : c.leaf[k] >= AtLeastOptional[k]
  BY <1>3, <1>5, <1>6 DEF AtLeastOptional, ConsensusLeaves
<1>9. \A k \in DOMAIN AtLeastInterface : c.leaf[k] >= AtLeastInterface[k]
  BY <1>3, <1>5, <1>6 DEF AtLeastInterface, ConsensusLeaves
<1>10. \A k \in DOMAIN AtMost : c.leaf[k] <= AtMost[k]
  BY <1>2, <1>3, <1>4, <1>5, <1>6 DEF AtMost, InBounds, ConsensusLeaves
<1>11. \A k \in DOMAIN OneOf : c.leaf[k] \in OneOf[k]
  BY <1>3, <1>5, <1>6 DEF OneOf, ConsensusLeaves
<1>12. c.leaf.scaleMax >= c.leaf.scaleMin /\ c.leaf.scaleUp > c.leaf.scaleDown
  BY <1>3, <1>4, <1>6 DEF ConsensusLeaves, AtLeast
<1>13. Valid(c)
  BY <1>7, <1>8, <1>9, <1>10, <1>11, <1>12 DEF Valid
<1> QED BY <1>13 DEF c

\* The places of a process on its way up, while its environment is that of its sources.
Booting == {"env", "load", "read", "truncate", "write", "probe"}
Envs == OwnEnvs \cup {<<>>} \cup UNION {{files[i] : i \in 1..3} : files \in EnvFiles}

\* The sources of a process's environment, the first of which counts.
Sources(p) == <<own[p]>> \o heldEnv[p]
Known(p, k) == \E i \in DOMAIN Sources(p) : k \in DOMAIN Sources(p)[i]
FirstHas(p, k, v) ==
    \E i \in DOMAIN Sources(p) :
        /\ k \in DOMAIN Sources(p)[i] /\ v = Sources(p)[i][k]
        /\ \A j \in 1..(i - 1) : k \notin DOMAIN Sources(p)[j]

SettingsTypeOK ==
    /\ envFiles \in EnvFiles
    /\ DOMAIN settingsAt = Processes /\ DOMAIN settings = Processes /\ DOMAIN consensus = Processes
    /\ DOMAIN env = Processes /\ own \in [Processes -> Envs] /\ heldEnv \in [Processes -> Seq(Envs)]
    /\ nextEnv \in [Processes -> Nat]

\* What was checked is what is decided by.
SettledAt(p) ==
    /\ settingsAt[p] = "probe" => Valid(settings[p])
    /\ settingsAt[p] = "up" =>
          /\ DOMAIN consensus[p].leaf = ConsensusLeaves /\ InBounds(consensus[p].leaf)
          /\ Valid(settings[p]) => consensus[p].leaf = ConsensusOf(settings[p]).leaf

\* A variable has the value of its first source, or the GPU's where that is nothing.
AsGiven(p, k) == FirstHas(p, k, env[p][k]) \/ (k \in DeviceHints /\ FirstHas(p, k, ""))

\* The environment has what the sources have, of each variable what the first has.
EnvAt(p) ==
    /\ settingsAt[p] = "env" => nextEnv[p] \in 1..3
    /\ settingsAt[p] \in Booting =>
          \A k : (k \in DOMAIN env[p] <=> Known(p, k)) /\ (Known(p, k) => FirstHas(p, k, env[p][k]))
    /\ settingsAt[p] = "up" => \A k : Known(p, k) /\ k \notin HintNames => AsGiven(p, k)

SettingsInv == SettingsTypeOK /\ \A p \in Processes : SettledAt(p) /\ EnvAt(p)

\* An environment is a sequence of sources, its own the first.
LEMMA SourcesAre ==
    ASSUME SettingsTypeOK, NEW p \in Processes
    PROVE  /\ Sources(p) \in Seq(Envs) /\ Len(Sources(p)) = Len(heldEnv[p]) + 1
           /\ Sources(p)[1] = own[p]
           /\ \A i \in DOMAIN heldEnv[p] : i + 1 \in DOMAIN Sources(p) /\ Sources(p)[i + 1] = heldEnv[p][i]
<1>1. own[p] \in Envs /\ heldEnv[p] \in Seq(Envs)
  BY DEF SettingsTypeOK
<1> HIDE DEF Envs
<1> QED BY <1>1 DEF Sources

\* The first source that sets a variable is the one FirstOf finds.
LEMMA FirstIsFound ==
    ASSUME SettingsTypeOK, NEW p \in Processes, NEW k, NEW v, FirstHas(p, k, v)
    PROVE  FirstOf(p, k) = v
<1> DEFINE s == Sources(p)
           IsFirst(i) == k \in DOMAIN s[i] /\ \A j \in 1..(i - 1) : k \notin DOMAIN s[j]
<1>1. PICK i \in DOMAIN s : IsFirst(i) /\ v = s[i][k]
  BY DEF FirstHas
<1>2. DOMAIN s = 1..Len(s) /\ Len(s) \in Nat
  BY SourcesAre
<1>3. ASSUME NEW h \in DOMAIN s, IsFirst(h) PROVE h = i
  <2>1. h \in Nat /\ i \in Nat /\ h >= 1 /\ i >= 1
    BY <1>2
  <2>2. ~(h < i)
    BY <1>1, <1>3, <2>1
  <2>3. ~(i < h)
    BY <1>1, <1>3, <2>1
  <2> QED BY <2>1, <2>2, <2>3
<1>4. (CHOOSE h \in DOMAIN s : IsFirst(h)) = i
  <2> HIDE DEF IsFirst, s
  <2> QED BY <1>1, <1>3
<1>5. FirstOf(p, k) = s[CHOOSE h \in DOMAIN s : IsFirst(h)][k]
  BY DEF FirstOf, Sources
<1> QED BY <1>1, <1>4, <1>5

\* Nothing is known and nothing is up before a process starts.
LEMMA SettingsStarts ==
    ASSUME NEW f, NEW files \in EnvFiles, SettingsStart(f, files) PROVE SettingsInv
<1>1. <<>> \in Envs /\ <<>> \in Seq(Envs)
  BY DEF Envs
<1> HIDE DEF Envs
<1> QED BY <1>1 DEF SettingsStart, SettingsInv, SettingsTypeOK, SettledAt, EnvAt, Booting

\* What a process nothing touches has.
Untouched(q) ==
    /\ settingsAt'[q] = settingsAt[q] /\ settings'[q] = settings[q] /\ consensus'[q] = consensus[q]
    /\ own'[q] = own[q] /\ env'[q] = env[q] /\ heldEnv'[q] = heldEnv[q] /\ nextEnv'[q] = nextEnv[q]
SettingsAtProcess(q) == SettledAt(q) /\ EnvAt(q)

\* Sources and environment that stay are as sound as they were.
LEMMA EnvStays ==
    ASSUME NEW q \in Processes, settingsAt'[q] = settingsAt[q], own'[q] = own[q], env'[q] = env[q],
           heldEnv'[q] = heldEnv[q], nextEnv'[q] = nextEnv[q], EnvAt(q)
    PROVE  EnvAt(q)'
<1>1. Sources(q)' = Sources(q)
  BY DEF Sources
<1>2. \A k : /\ (Known(q, k)' <=> Known(q, k)) /\ (FirstHas(q, k, env[q][k])' <=> FirstHas(q, k, env[q][k]))
            /\ (AsGiven(q, k)' <=> AsGiven(q, k))
  BY <1>1 DEF Known, FirstHas, AsGiven
<1> QED BY <1>2 DEF EnvAt

\* A process nothing touches keeps its part of the invariant.
LEMMA UntouchedKept ==
    ASSUME NEW q \in Processes, Untouched(q), SettingsAtProcess(q) PROVE SettingsAtProcess(q)'
<1>1. EnvAt(q)'
  BY EnvStays DEF Untouched, SettingsAtProcess
<1> QED BY <1>1 DEF Untouched, SettingsAtProcess, SettledAt

\* A process goes on to the next place of its way up, or fails, or ends; its environment stays.
LEMMA PlaceKeeps ==
    ASSUME SettingsInv, NEW p \in Processes, NEW place \in (Booting \ {"env"}) \cup {"failed", "off"},
           settingsAt[p] \in Booting \/ place \in {"failed", "off"},
           Enters(p, place), UNCHANGED <<own, env, heldEnv, nextEnv>>, envFiles' \in EnvFiles,
           DOMAIN settings' = Processes, DOMAIN consensus' = Processes,
           \A q \in Processes \ {p} : settings'[q] = settings[q] /\ consensus'[q] = consensus[q],
           place = "probe" => Valid(settings'[p])
    PROVE  SettingsInv'
<1> USE DEF SettingsInv
<1>1. settingsAt'[p] = place /\ DOMAIN settingsAt' = Processes
      /\ \A q \in Processes \ {p} : settingsAt'[q] = settingsAt[q]
  BY DEF Enters, SettingsTypeOK
<1>2. SettingsTypeOK'
  BY <1>1 DEF SettingsTypeOK
<1>3. ASSUME NEW q \in Processes PROVE SettingsAtProcess(q)'
  <2>1. CASE q # p
    <3>1. Untouched(q)
      BY <1>1, <2>1 DEF Untouched
    <3> QED BY <3>1, UntouchedKept DEF SettingsAtProcess
  <2>2. CASE q = p
    <3>1. SettledAt(p)'
      BY <1>1 DEF SettledAt, Booting
    <3>2. EnvAt(p)'
      <4>1. Sources(p)' = Sources(p) /\ env' = env
        BY DEF Sources
      <4>2. \A k : (Known(p, k)' <=> Known(p, k)) /\ (FirstHas(p, k, env[p][k])' <=> FirstHas(p, k, env[p][k]))
        BY <4>1 DEF Known, FirstHas
      <4>3. settingsAt'[p] # "env" /\ settingsAt'[p] # "up" /\ (settingsAt'[p] \in Booting => settingsAt[p] \in Booting)
        BY <1>1 DEF Booting
      <4> QED BY <4>1, <4>2, <4>3 DEF EnvAt
    <3> QED BY <2>2, <3>1, <3>2 DEF SettingsAtProcess
  <2> QED BY <2>1, <2>2
<1> QED BY <1>2, <1>3 DEF SettingsAtProcess

\* load() leaves what was validated, or a process that failed.
LEMMA TakesKeeps ==
    ASSUME SettingsInv, NEW p \in Processes, NEW c, settingsAt[p] \in Booting, Takes(p, c),
           UNCHANGED <<envFiles, own, env, heldEnv, nextEnv, consensus>>
    PROVE  SettingsInv'
<1> DEFINE place == IF Valid(c) THEN "probe" ELSE "failed"
<1>1. Enters(p, place) /\ settings' = [settings EXCEPT ![p] = c]
  BY DEF Takes
<1>2. DOMAIN settings' = Processes /\ settings'[p] = c /\ \A q \in Processes \ {p} : settings'[q] = settings[q]
  BY <1>1 DEF SettingsInv, SettingsTypeOK
<1>3. place \in (Booting \ {"env"}) \cup {"failed", "off"} /\ (place = "probe" => Valid(settings'[p]))
  BY <1>2 DEF Booting
<1>4. envFiles \in EnvFiles /\ DOMAIN consensus = Processes
  BY DEF SettingsInv, SettingsTypeOK
<1> HIDE DEF place
<1> QED BY <1>1, <1>2, <1>3, <1>4, PlaceKeeps

\* A file is loaded: what the sources before it do not set, it sets.
LEMMA EnvFileKeeps ==
    ASSUME SettingsInv, NEW p \in Processes, LoadsEnvFile(p) PROVE SettingsInv'
<1> USE DEF SettingsInv
<1> DEFINE e == envFiles[nextEnv[p]]
           s == Sources(p)
           n == Len(Sources(p))
<1>1. /\ settingsAt[p] = "env" /\ env' = [env EXCEPT ![p] = Over(@, e)]
      /\ heldEnv' = [heldEnv EXCEPT ![p] = Append(@, e)] /\ nextEnv' = [nextEnv EXCEPT ![p] = @ + 1]
      /\ settingsAt' = [settingsAt EXCEPT ![p] = IF nextEnv[p] = Len(envFiles) THEN "load" ELSE "env"]
      /\ UNCHANGED <<envFiles, own, settings, consensus>>
  BY DEF LoadsEnvFile, Enters
<1>2. nextEnv[p] \in 1..3 /\ e \in Envs
  BY <1>1 DEF EnvAt, Envs, SettingsTypeOK
<1>3. Len(envFiles) = 3
  <2>1. envFiles = [i \in 1..3 |-> envFiles[i]] /\ \A i \in 1..3 : envFiles[i] \in Envs
    BY SettingsAssumption DEF SettingsTypeOK, Envs
  <2> HIDE DEF Envs
  <2>2. envFiles \in [1..3 -> Envs]
    BY <2>1
  <2> QED BY <2>2
<1>4. SettingsTypeOK'
  <2> HIDE DEF e, Envs
  <2> QED BY <1>1, <1>2 DEF SettingsTypeOK
<1>5. ASSUME NEW q \in Processes \ {p} PROVE SettingsAtProcess(q)'
  <2>1. Untouched(q)
    BY <1>1 DEF Untouched, SettingsTypeOK
  <2> QED BY <2>1, UntouchedKept DEF SettingsAtProcess
<1>6. /\ settingsAt'[p] = (IF nextEnv[p] = 3 THEN "load" ELSE "env") /\ nextEnv'[p] = nextEnv[p] + 1
      /\ env'[p] = Over(env[p], e) /\ heldEnv'[p] = Append(heldEnv[p], e)
  BY <1>1, <1>3 DEF SettingsTypeOK
<1>7. /\ s \in Seq(Envs) /\ n \in Nat /\ DOMAIN s = 1..n
      /\ Sources(p)' \in Seq(Envs) /\ DOMAIN Sources(p)' = 1..(n + 1)
      /\ Sources(p)'[n + 1] = e /\ \A i \in 1..n : Sources(p)'[i] = s[i]
  <2>1. own[p] \in Envs /\ own'[p] = own[p] /\ heldEnv[p] \in Seq(Envs)
    BY <1>1 DEF SettingsTypeOK
  <2> HIDE DEF e, Envs
  <2>2. Sources(p)' = <<own[p]>> \o Append(heldEnv[p], e)
    BY <1>6, <2>1 DEF Sources
  <2>3. s = <<own[p]>> \o heldEnv[p]
    BY DEF Sources
  <2> HIDE DEF s
  <2>4. s \in Seq(Envs) /\ Len(s) \in Nat /\ DOMAIN s = 1..Len(s)
    BY <2>1, <2>3
  <2>5. Sources(p)' = Append(s, e)
    BY <1>2, <2>1, <2>2, <2>3
  <2>6. n = Len(s)
    BY DEF s
  <2> HIDE DEF n
  <2> QED BY <1>2, <2>4, <2>5, <2>6
<1>8. \A k : (k \in DOMAIN env[p] <=> Known(p, k)) /\ (Known(p, k) => FirstHas(p, k, env[p][k]))
  BY <1>1 DEF EnvAt, Booting
<1>9. \A k : /\ k \in DOMAIN env'[p] <=> k \in DOMAIN env[p] \/ k \in DOMAIN e
             /\ k \in DOMAIN env[p] => env'[p][k] = env[p][k]
             /\ k \in DOMAIN e /\ k \notin DOMAIN env[p] => env'[p][k] = e[k]
  <2> HIDE DEF e
  <2> QED BY <1>6 DEF Over
<1>10. ASSUME NEW k
       PROVE  (k \in DOMAIN env'[p] <=> Known(p, k)') /\ (Known(p, k)' => FirstHas(p, k, env[p][k])')
  <2> HIDE DEF e
  <2>1. Known(p, k)' <=> Known(p, k) \/ k \in DOMAIN e
    <3>1. Known(p, k) <=> \E i \in 1..n : k \in DOMAIN s[i]
      BY <1>7 DEF Known
    <3>2. Known(p, k)' <=> \E i \in 1..(n + 1) : k \in DOMAIN Sources(p)'[i]
      BY <1>7 DEF Known
    <3> HIDE DEF s, n
    <3>3. 1..(n + 1) = 1..n \cup {n + 1}
      BY <1>7
    <3> QED BY <1>7, <3>1, <3>2, <3>3
  <2>2. CASE Known(p, k)
    <3>1. PICK i \in DOMAIN s : /\ k \in DOMAIN s[i] /\ env[p][k] = s[i][k]
                                /\ \A j \in 1..(i - 1) : k \notin DOMAIN s[j]
      BY <1>8, <2>2 DEF FirstHas
    <3>2. env'[p][k] = env[p][k]
      BY <1>8, <1>9, <2>2
    <3> HIDE DEF s, n
    <3>3. i \in 1..(n + 1) /\ i \in 1..n /\ \A j \in 1..(i - 1) : j \in 1..n
      BY <1>7, <3>1
    <3>4. FirstHas(p, k, env[p][k])'
      BY <1>7, <3>1, <3>2, <3>3 DEF FirstHas
    <3> QED BY <1>8, <1>9, <2>1, <2>2, <3>4
  <2>3. CASE ~Known(p, k) /\ k \in DOMAIN e
    <3>1. env'[p][k] = e[k]
      BY <1>8, <1>9, <2>3
    <3>2. \A j \in DOMAIN s : k \notin DOMAIN s[j]
      BY <2>3 DEF Known
    <3> HIDE DEF s, n
    <3>3. n + 1 \in 1..(n + 1) /\ (n + 1) - 1 = n
      BY <1>7
    <3>4. \A j \in 1..((n + 1) - 1) : k \notin DOMAIN Sources(p)'[j]
      BY <1>7, <3>2, <3>3
    <3>5. FirstHas(p, k, env[p][k])'
      BY <1>7, <3>1, <3>3, <3>4, <2>3 DEF FirstHas
    <3> QED BY <1>9, <2>1, <2>3, <3>5
  <2>4. CASE ~Known(p, k) /\ k \notin DOMAIN e
    BY <1>8, <1>9, <2>1, <2>4
  <2> QED BY <2>2, <2>3, <2>4
<1>11. EnvAt(p)'
  <2>1. settingsAt'[p] \in {"load", "env"} /\ (settingsAt'[p] = "env" => nextEnv'[p] \in 1..3)
    BY <1>2, <1>6
  <2> QED BY <1>10, <2>1 DEF EnvAt
<1>12. SettledAt(p)'
  BY <1>6 DEF SettledAt
<1> QED BY <1>4, <1>5, <1>11, <1>12 DEF SettingsAtProcess

\* A process starts with its own environment, and no file read.
LEMMA StartsKeeps ==
    ASSUME SettingsInv, NEW p \in Processes, NEW e \in OwnEnvs, Starts(p, e) PROVE SettingsInv'
<1> USE DEF SettingsInv
<1> DEFINE place == IF AutoLoads(e) THEN "env" ELSE "load"
<1>1. /\ own' = [own EXCEPT ![p] = e] /\ env' = [env EXCEPT ![p] = e]
      /\ heldEnv' = [heldEnv EXCEPT ![p] = <<>>] /\ nextEnv' = [nextEnv EXCEPT ![p] = 1]
      /\ settingsAt' = [settingsAt EXCEPT ![p] = place] /\ UNCHANGED <<envFiles, settings, consensus>>
  BY DEF Starts, Enters
<1>2. place \in {"env", "load"}
  OBVIOUS
<1> HIDE DEF place
<1>3. e \in Envs /\ <<>> \in Seq(Envs)
  BY DEF Envs
<1>4. SettingsTypeOK'
  <2> HIDE DEF Envs
  <2> QED BY <1>1, <1>3 DEF SettingsTypeOK
<1>5. ASSUME NEW q \in Processes \ {p} PROVE SettingsAtProcess(q)'
  <2>1. Untouched(q)
    BY <1>1 DEF Untouched, SettingsTypeOK
  <2> QED BY <2>1, UntouchedKept DEF SettingsAtProcess
<1>6. /\ own'[p] = e /\ env'[p] = e /\ heldEnv'[p] = <<>> /\ nextEnv'[p] = 1 /\ settingsAt'[p] = place
  BY <1>1 DEF SettingsTypeOK
<1>7. Sources(p)' = <<e>>
  BY <1>6 DEF Sources
<1>8. \A k : (Known(p, k)' <=> k \in DOMAIN e) /\ (k \in DOMAIN e => FirstHas(p, k, env[p][k])')
  BY <1>6, <1>7 DEF Known, FirstHas
<1>9. EnvAt(p)'
  BY <1>2, <1>6, <1>8 DEF EnvAt
<1>10. SettledAt(p)'
  BY <1>2, <1>6 DEF SettledAt
<1> QED BY <1>4, <1>5, <1>9, <1>10 DEF SettingsAtProcess

LEMMA HintsKeep ==
    ASSUME NEW e, NEW status, NEW k \in DOMAIN e \ HintNames
    PROVE  Hints(e, status)[k] = e[k] \/ (k \in DeviceHints /\ e[k] = "")
<1> DEFINE always == [CODEX_GPU_BACKEND |-> status.selected, CODEX_GPU_DEVICES |-> status.devices]
           set == IF status.selected = "mps" THEN Over([MPS_AVAILABLE |-> "1"], always) ELSE always
           hinted == CASE status.selected = "cuda" -> [CUDA_VISIBLE_DEVICES |-> "0"]
                       [] status.selected = "mps" -> [TORCH_USE_MPS |-> "1"]
                       [] OTHER -> <<>>
           taken == {h \in DOMAIN hinted : h \in DOMAIN e => e[h] = ""}
           rest == [h \in taken |-> hinted[h]]
<1>1. Hints(e, status) = Over(set, Over(rest, e))
  BY DEF Hints
<1>2. DOMAIN set \subseteq HintNames
  BY DEF Over, HintNames
<1>3. DOMAIN hinted \subseteq DeviceHints
  <2>1. CASE status.selected = "cuda"
    BY <2>1 DEF DeviceHints
  <2>2. CASE status.selected = "mps"
    BY <2>2 DEF DeviceHints
  <2>3. CASE status.selected # "cuda" /\ status.selected # "mps"
    <3>1. hinted = <<>>
      BY <2>3
    <3> QED BY <3>1
  <2> QED BY <2>1, <2>2, <2>3
<1> HIDE DEF set, hinted
<1>4. DOMAIN rest = taken
  OBVIOUS
<1> HIDE DEF rest
<1>5. k \in taken => k \in DeviceHints /\ e[k] = ""
  BY <1>3
<1> HIDE DEF taken
<1>6. Over(set, Over(rest, e))[k] = Over(rest, e)[k]
  BY <1>2 DEF Over
<1>7. k \notin taken => Over(rest, e)[k] = e[k]
  BY <1>4 DEF Over
<1> QED BY <1>1, <1>5, <1>6, <1>7

\* The hints of the GPU touch no variable the sources set but its own; the consensus manager gets
\* what was validated.
LEMMA BringsUpKeeps ==
    ASSUME SettingsInv, NEW p \in Processes, NEW m \in Machines, BringsUp(p, m) PROVE SettingsInv'
<1> USE DEF SettingsInv
<1> DEFINE hinted == Hints(env[p], Probe(m))
<1>1. /\ settingsAt[p] = "probe" /\ env' = [env EXCEPT ![p] = hinted]
      /\ consensus' = [consensus EXCEPT ![p] = ConsensusOf(settings[p])]
      /\ settingsAt' = [settingsAt EXCEPT ![p] = "up"]
      /\ UNCHANGED <<envFiles, nextEnv, own, heldEnv, settings>>
  BY DEF BringsUp, Enters
<1>2. \A k \in DOMAIN env[p] \ HintNames : hinted[k] = env[p][k] \/ (k \in DeviceHints /\ env[p][k] = "")
  BY HintsKeep
<1> HIDE DEF hinted
<1>3. SettingsTypeOK'
  BY <1>1 DEF SettingsTypeOK
<1>4. ASSUME NEW q \in Processes \ {p} PROVE SettingsAtProcess(q)'
  <2>1. Untouched(q)
    BY <1>1 DEF Untouched, SettingsTypeOK
  <2> QED BY <2>1, UntouchedKept DEF SettingsAtProcess
<1>5. settingsAt'[p] = "up" /\ env'[p] = hinted /\ consensus'[p] = ConsensusOf(settings[p])
  BY <1>1 DEF SettingsTypeOK
<1>6. SettledAt(p)'
  <2>1. Valid(settings[p])
    BY <1>1 DEF SettledAt
  <2>2. InBounds(settings[p].leaf)
    BY <2>1, ValidIsInBounds
  <2>3. InBounds(consensus'[p].leaf) /\ DOMAIN consensus'[p].leaf = ConsensusLeaves
    BY <1>5, <2>2 DEF InBounds, ConsensusOf, ConsensusLeaves
  <2> QED BY <1>1, <1>5, <2>3 DEF SettledAt
<1>7. EnvAt(p)'
  <2>1. Sources(p)' = Sources(p)
    BY <1>1 DEF Sources
  <2>2. \A k : (k \in DOMAIN env[p] <=> Known(p, k)) /\ (Known(p, k) => FirstHas(p, k, env[p][k]))
    BY <1>1 DEF EnvAt, Booting
  <2>3. ASSUME NEW k, Known(p, k)', k \notin HintNames PROVE AsGiven(p, k)'
    <3>1. Known(p, k)
      BY <2>1, <2>3 DEF Known
    <3>2. /\ FirstHas(p, k, env[p][k])
          /\ env'[p][k] = env[p][k] \/ (k \in DeviceHints /\ env[p][k] = "")
      BY <1>2, <1>5, <2>2, <2>3, <3>1
    <3>3. \A v : FirstHas(p, k, v) <=> FirstHas(p, k, v)'
      BY <2>1 DEF FirstHas
    <3> QED BY <3>2, <3>3 DEF AsGiven
  <2> QED BY <1>5, <2>3 DEF EnvAt, Booting
<1> QED BY <1>3, <1>4, <1>6, <1>7 DEF SettingsAtProcess

\* The consensus settings of a configuration are those a record of its consensus leaves was merged into.
LEMMA MergedConsensus ==
    ASSUME NEW c, NEW next, DOMAIN next.leaf = ConsensusLeaves
    PROVE  ConsensusOf(Merge(c, next)).leaf = [k \in ConsensusLeaves |-> next.leaf[k]]
BY DEF ConsensusOf, Merge, Over

\* An update in force or refused leaves the consensus manager with what was validated.
LEMMA UpdatesKeeps ==
    ASSUME SettingsInv, NEW p \in Processes, settingsAt[p] = "up",
           NEW next, next.leaf = [k \in ConsensusLeaves |-> next.leaf[k]], Updates(p, next), Unmoved
    PROVE  SettingsInv'
<1> USE DEF SettingsInv
<1> DEFINE merged == Merge(settings[p], next)
<1>1. /\ settings' = [settings EXCEPT ![p] = merged]
      /\ consensus' = IF Valid(merged)
                      THEN [consensus EXCEPT ![p] = [leaf |-> Over(next.leaf, @.leaf), stakes |-> next.stakes]]
                      ELSE consensus
      /\ UNCHANGED <<envFiles, settingsAt, nextEnv, own, env, heldEnv>>
  BY DEF Updates, Unmoved
<1>2. ConsensusOf(merged).leaf = next.leaf
  BY MergedConsensus
<1>3. Valid(merged) => InBounds(merged.leaf)
  BY ValidIsInBounds
<1>4. InBounds(merged.leaf) => InBounds(next.leaf)
  BY DEF Merge, Over, InBounds, ConsensusLeaves
<1> HIDE DEF merged
<1>5. SettingsTypeOK'
  BY <1>1 DEF SettingsTypeOK
<1>6. ASSUME NEW q \in Processes \ {p} PROVE SettingsAtProcess(q)'
  <2>1. Untouched(q)
    BY <1>1 DEF Untouched, SettingsTypeOK
  <2> QED BY <2>1, UntouchedKept DEF SettingsAtProcess
<1>7. settings'[p] = merged
  BY <1>1 DEF SettingsTypeOK
<1>8. SettledAt(p)'
  <2>1. CASE Valid(merged)
    <3>1. consensus'[p].leaf = Over(next.leaf, consensus[p].leaf)
      BY <1>1, <2>1 DEF SettingsTypeOK
    <3>2. DOMAIN consensus[p].leaf = ConsensusLeaves
      BY DEF SettledAt
    <3>3. consensus'[p].leaf = next.leaf
      BY <3>1, <3>2 DEF Over
    <3> QED BY <1>1, <1>2, <1>3, <1>4, <1>7, <2>1, <3>3 DEF SettledAt
  <2>2. CASE ~Valid(merged)
    BY <1>1, <1>7, <2>2 DEF SettledAt
  <2> QED BY <2>1, <2>2
<1>9. EnvAt(p)'
  <2>1. /\ settingsAt'[p] = settingsAt[p] /\ own'[p] = own[p] /\ env'[p] = env[p]
        /\ heldEnv'[p] = heldEnv[p] /\ nextEnv'[p] = nextEnv[p]
    BY <1>1
  <2> QED BY <2>1, EnvStays
<1> QED BY <1>5, <1>6, <1>8, <1>9 DEF SettingsAtProcess

\* Every step of a process, a user, an operator or an editor keeps the invariant.
LEMMA SettingsStepKeeps == SettingsInv /\ SettingsStep => SettingsInv'
<1> SUFFICES ASSUME SettingsInv, SettingsStep PROVE SettingsInv'
  OBVIOUS
<1>1. /\ envFiles \in EnvFiles /\ DOMAIN settings = Processes /\ DOMAIN consensus = Processes
  BY DEF SettingsInv, SettingsTypeOK
<1>2. ASSUME NEW p \in Processes, LooksForFile(p) PROVE SettingsInv'
  <2>1. CASE Takes(p, DefaultConfiguration)
    BY <1>2, <2>1, TakesKeeps DEF LooksForFile, Booting
  <2>2. CASE Enters(p, IF file.state = "missing" THEN "truncate" ELSE "read")
             /\ settings' = [settings EXCEPT ![p] = DefaultConfiguration]
    <3> DEFINE place == IF file.state = "missing" THEN "truncate" ELSE "read"
    <3>1. place \in {"truncate", "read"} /\ Enters(p, place)
      BY <2>2
    <3> HIDE DEF place
    <3>2. settingsAt[p] \in Booting /\ place \in (Booting \ {"env"}) \cup {"failed", "off"} /\ place # "probe"
      BY <1>2, <3>1 DEF LooksForFile, Booting
    <3>3. UNCHANGED <<envFiles, own, env, heldEnv, nextEnv, consensus>>
      BY <1>2 DEF LooksForFile
    <3>4. DOMAIN settings' = Processes /\ \A q \in Processes \ {p} : settings'[q] = settings[q]
      BY <1>1, <2>2
    <3> QED BY <1>1, <3>1, <3>2, <3>3, <3>4, PlaceKeeps
  <2> QED BY <1>2, <2>1, <2>2 DEF LooksForFile
<1>3. ASSUME NEW p \in Processes, NEW place \in {"failed", "write"},
             settingsAt[p] \in {"read", "truncate", "write"}, Enters(p, place),
             UNCHANGED <<envFiles, own, env, heldEnv, nextEnv, settings, consensus>>
      PROVE  SettingsInv'
  <2>1. place \in (Booting \ {"env"}) \cup {"failed", "off"} /\ place # "probe" /\ settingsAt[p] \in Booting
    BY <1>3 DEF Booting
  <2> QED BY <1>1, <1>3, <2>1, PlaceKeeps
<1>4. ASSUME NEW p \in Processes, ReadsFile(p) PROVE SettingsInv'
  <2>1. settingsAt[p] = "read" /\ UNCHANGED <<envFiles, nextEnv, own, env, heldEnv, consensus>>
    BY <1>4 DEF ReadsFile
  <2>2. CASE \E c : Takes(p, c)
    <3>1. PICK c : Takes(p, c)
      BY <2>2
    <3> QED BY <2>1, <3>1, TakesKeeps DEF Booting
  <2>3. CASE Enters(p, "failed") /\ UNCHANGED settings
    BY <1>3, <2>1, <2>3
  <2> QED BY <1>4, <2>2, <2>3 DEF ReadsFile
<1>5. ASSUME NEW p \in Processes, Truncates(p) PROVE SettingsInv'
  BY <1>3, <1>5 DEF Truncates
<1>6. ASSUME NEW p \in Processes, Writes(p) PROVE SettingsInv'
  <2>1. settingsAt[p] = "write" /\ UNCHANGED <<envFiles, nextEnv, own, env, heldEnv, consensus>>
    BY <1>6 DEF Writes
  <2>2. CASE \E c : Takes(p, c)
    <3>1. PICK c : Takes(p, c)
      BY <2>2
    <3> QED BY <2>1, <3>1, TakesKeeps DEF Booting
  <2>3. CASE Enters(p, "failed") /\ UNCHANGED settings
    BY <1>3, <2>1, <2>3
  <2> QED BY <1>6, <2>2, <2>3 DEF Writes
<1>7. ASSUME NEW p \in Processes, Dies(p) PROVE SettingsInv'
  <2>1. /\ Enters(p, "off") /\ UNCHANGED <<envFiles, own, env, heldEnv, nextEnv>>
        /\ settings' = [settings EXCEPT ![p] = DefaultConfiguration]
        /\ consensus' = [consensus EXCEPT ![p] = ConsensusOf(DefaultConfiguration)]
    BY <1>7 DEF Dies
  <2>2. /\ DOMAIN settings' = Processes /\ DOMAIN consensus' = Processes
        /\ \A q \in Processes \ {p} : settings'[q] = settings[q] /\ consensus'[q] = consensus[q]
    BY <1>1, <2>1
  <2> QED BY <1>1, <2>1, <2>2, PlaceKeeps
<1>8. ASSUME UNCHANGED processVars, envFiles' \in EnvFiles PROVE SettingsInv'
  <2>1. SettingsTypeOK'
    BY <1>8 DEF processVars, SettingsInv, SettingsTypeOK
  <2>2. ASSUME NEW q \in Processes PROVE SettingsAtProcess(q)'
    <3>1. Untouched(q)
      BY <1>8 DEF processVars, Untouched
    <3> QED BY <3>1, UntouchedKept DEF SettingsInv, SettingsAtProcess
  <2> QED BY <2>1, <2>2 DEF SettingsInv, SettingsAtProcess
<1>9. CASE (\E c \in Contents : EditsFile(c)) \/ (\E files \in EnvFiles : EditsEnv(files))
  BY <1>1, <1>8, <1>9 DEF EditsFile, EditsEnv
<1>10. ASSUME NEW p \in Shells, NEW u \in Modes, SetsMode(p, u) PROVE SettingsInv'
  <2> DEFINE next == [ConsensusOf(settings[p]) EXCEPT !.leaf = Over(u, @)]
  <2>1. settingsAt[p] = "up" /\ Updates(p, next) /\ Unmoved
    BY <1>10 DEF SetsMode
  <2>2. DOMAIN u \subseteq ConsensusLeaves /\ p \in Processes
    BY SettingsAssumption DEF ConsensusLeaves
  <2>3. next.leaf = Over(u, ConsensusOf(settings[p]).leaf)
    BY DEF ConsensusOf
  <2>4. next.leaf = [k \in ConsensusLeaves |-> next.leaf[k]]
    <3> HIDE DEF next
    <3> QED BY <2>2, <2>3 DEF Over, ConsensusOf
  <2> HIDE DEF next
  <2> QED BY <2>1, <2>2, <2>4, UpdatesKeeps
<1>11. ASSUME NEW p \in Shells, NEW t, settingsAt[p] = "up", Unmoved,
              Updates(p, [ConsensusOf(settings[p]) EXCEPT !.stakes = t])
       PROVE  SettingsInv'
  <2> DEFINE next == [ConsensusOf(settings[p]) EXCEPT !.stakes = t]
  <2>1. next.leaf = [k \in ConsensusLeaves |-> next.leaf[k]]
    BY DEF ConsensusOf
  <2>2. p \in Processes
    BY SettingsAssumption
  <2> HIDE DEF next
  <2>3. Updates(p, next)
    BY <1>11 DEF next
  <2> QED BY <1>11, <2>1, <2>2, <2>3, UpdatesKeeps
<1>12. ASSUME NEW p \in Shells, NEW t \in StakeTables, SetsStakes(p, t) PROVE SettingsInv'
  BY <1>11, <1>12 DEF SetsStakes
<1>13. ASSUME NEW p \in Shells, ClearsStakes(p) PROVE SettingsInv'
  BY <1>11, <1>13 DEF ClearsStakes
<1> QED BY <1>2, <1>4, <1>5, <1>6, <1>7, <1>9, <1>10, <1>12, <1>13, EnvFileKeeps, StartsKeeps, BringsUpKeeps
        DEF SettingsStep, ProcessStep

\* The invariant gives the property.
LEMMA SettingsInvImplies == SettingsInv => SettingsAreSound
<1> SUFFICES ASSUME SettingsInv, NEW p \in Processes, settingsAt[p] = "up"
    PROVE  /\ Valid([DefaultConfiguration EXCEPT !.leaf = Over(consensus[p].leaf, @)])
           /\ Valid(settings[p]) => consensus[p].leaf = ConsensusOf(settings[p]).leaf
           /\ \A s \in {own[p]} \cup {heldEnv[p][i] : i \in DOMAIN heldEnv[p]} :
                  \A k \in DOMAIN s \ HintNames :
                      env[p][k] = FirstOf(p, k) \/ (k \in DeviceHints /\ FirstOf(p, k) = "")
  BY DEF SettingsAreSound
<1>1. SettledAt(p) /\ EnvAt(p) /\ SettingsTypeOK
  BY DEF SettingsInv
<1>2. Valid([DefaultConfiguration EXCEPT !.leaf = Over(consensus[p].leaf, @)])
  BY <1>1, DefaultsAreValid DEF SettledAt
<1>3. ASSUME NEW s \in {own[p]} \cup {heldEnv[p][i] : i \in DOMAIN heldEnv[p]}, NEW k \in DOMAIN s \ HintNames
      PROVE  env[p][k] = FirstOf(p, k) \/ (k \in DeviceHints /\ FirstOf(p, k) = "")
  <2>1. Known(p, k)
    <3>1. PICK i \in DOMAIN Sources(p) : Sources(p)[i] = s
      <4>1. 1 \in DOMAIN Sources(p)
        BY <1>1, SourcesAre DEF SettingsTypeOK
      <4> QED BY <1>1, <4>1, SourcesAre
    <3> QED BY <1>3, <3>1 DEF Known
  <2>2. AsGiven(p, k)
    BY <1>1, <1>3, <2>1 DEF EnvAt
  <2> QED BY <1>1, <2>2, FirstIsFound DEF AsGiven
<1> QED BY <1>1, <1>2, <1>3 DEF SettledAt

-----------------------------------------------------------------------------
(* Codex passthrough: the executable.                                        *)

Above(a, b) == a[1] > b[1] \/ (a[1] = b[1] /\ (a[2] > b[2] \/ (a[2] = b[2] /\ a[3] > b[3])))

\* Versions are compared number by number; one that is known is newer than none.
LEMMA NewerIsAbove ==
    ASSUME NEW a \in Versions, NEW b \in Versions
    PROVE  Newer(a, b) <=> a # <<>> /\ (b = <<>> \/ Above(a, b))
<1>1. CASE a = <<>> \/ b = <<>>
  BY <1>1 DEF Newer
<1>2. CASE a # <<>> /\ b # <<>>
  <2>1. \A i \in 1..3 : a[i] \in Nat /\ b[i] \in Nat
    BY <1>2 DEF Versions
  <2>2. ASSUME NEW i \in 1..3, a[i] > b[i], \A j \in 1..(i - 1) : a[j] = b[j] PROVE Above(a, b)
    <3>1. (i >= 2 => a[1] = b[1]) /\ (i >= 3 => a[2] = b[2])
      BY <2>2
    <3> QED BY <2>1, <2>2, <3>1 DEF Above
  <2>3. ASSUME Above(a, b) PROVE \E i \in 1..3 : a[i] > b[i] /\ \A j \in 1..(i - 1) : a[j] = b[j]
    <3>1. CASE a[1] > b[1]
      <4> WITNESS 1 \in 1..3
      <4> QED BY <3>1
    <3>2. CASE a[1] = b[1] /\ a[2] > b[2]
      <4> WITNESS 2 \in 1..3
      <4> QED BY <3>2
    <3>3. CASE a[1] = b[1] /\ a[2] = b[2] /\ a[3] > b[3]
      <4> WITNESS 3 \in 1..3
      <4> QED BY <3>3
    <3> QED BY <2>3, <3>1, <3>2, <3>3 DEF Above
  <2> QED BY <1>2, <2>2, <2>3 DEF Newer
<1> QED BY <1>1, <1>2

\* Being newer is a weak order.
LEMMA NewerIsOrder ==
    ASSUME NEW a \in Versions, NEW b \in Versions, NEW c \in Versions
    PROVE  /\ ~Newer(a, a)
           /\ Newer(a, b) => ~Newer(b, a)
           /\ Newer(a, b) /\ ~Newer(c, b) => Newer(a, c)
<1>1. \A v \in {a, b, c} : v # <<>> => v[1] \in Nat /\ v[2] \in Nat /\ v[3] \in Nat
  BY DEF Versions
<1>2. ~Newer(a, a) /\ (Newer(a, b) => ~Newer(b, a))
  BY <1>1, NewerIsAbove DEF Above
<1>3. ASSUME Newer(a, b), ~Newer(c, b) PROVE Newer(a, c)
  BY <1>1, <1>3, NewerIsAbove DEF Above
<1> QED BY <1>2, <1>3

\* The first of the newest of a path.
Leads(path, n, i) == \A j \in 1..n : ~Newer(path[j], path[i]) /\ (j < i => Newer(path[i], path[j]))

\* Every path that names a binary has one: the path up to n has, by induction over n.
LEMMA SomeLeads ==
    ASSUME NEW path \in Seq(Versions), path # <<>>
    PROVE  \E i \in DOMAIN path : Leads(path, Len(path), i)
<1> DEFINE T == {n \in 1..Len(path) : \A i \in 1..n : ~Leads(path, n, i)}
<1>1. Len(path) \in Nat \ {0} /\ DOMAIN path = 1..Len(path) /\ \A i \in 1..Len(path) : path[i] \in Versions
  OBVIOUS
<1>2. T = {}
  <2> SUFFICES ASSUME T # {} PROVE FALSE
    OBVIOUS
  <2>a. T \subseteq Nat
    BY <1>1
  <2>1. PICK n \in T : \A m \in T : n <= m
    <3> HIDE DEF T
    <3> QED BY <2>a, NatHasLeast
  <2>2. n \in 1..Len(path) /\ \A i \in 1..n : ~Leads(path, n, i)
    OBVIOUS
  <2>3. CASE n = 1
    <3>1. ~Newer(path[1], path[1])
      BY <1>1, NewerIsOrder
    <3>2. Leads(path, 1, 1)
      BY <3>1 DEF Leads
    <3> QED BY <2>2, <2>3, <3>2
  <2>4. CASE n # 1
    <3>1. n - 1 \in 1..Len(path) /\ n - 1 \notin T
      BY <1>1, <2>1, <2>2, <2>4
    <3>2. PICK i \in 1..(n - 1) : Leads(path, n - 1, i)
      BY <3>1
    <3>3. \A k \in 1..n : path[k] \in Versions
      BY <1>1, <2>2
    <3>4. ASSUME Newer(path[n], path[i]) PROVE Leads(path, n, n)
      <4>1. ASSUME NEW j \in 1..n PROVE ~Newer(path[j], path[n]) /\ (j < n => Newer(path[n], path[j]))
        <5>1. CASE j = n
          BY <3>3, <5>1, NewerIsOrder
        <5>2. CASE j # n
          <6>1. j \in 1..(n - 1) /\ ~Newer(path[j], path[i])
            BY <2>2, <3>2, <5>2 DEF Leads
          <6>2. path[n] \in Versions /\ path[i] \in Versions /\ path[j] \in Versions
            BY <2>2, <3>2, <3>3
          <6>3. Newer(path[n], path[j])
            BY <3>4, <6>1, <6>2, NewerIsOrder
          <6> QED BY <6>2, <6>3, NewerIsOrder
        <5> QED BY <5>1, <5>2
      <4> QED BY <4>1 DEF Leads
    <3>5. ASSUME ~Newer(path[n], path[i]) PROVE Leads(path, n, i)
      BY <2>2, <3>2, <3>5 DEF Leads
    <3>6. n \in 1..n /\ i \in 1..n
      BY <2>2, <3>2
    <3> QED BY <2>2, <3>4, <3>5, <3>6
  <2> QED BY <2>3, <2>4
<1>3. Len(path) \in 1..Len(path)
  BY <1>1
<1> QED BY <1>1, <1>2, <1>3

\* The executable that is resolved is one, and none of those it is chosen from is newer.
LEMMA ResolvedIsNewest ==
    ASSUME NEW x \in Installations, Resolved(x) # <<>>
    PROVE  Len(Resolved(x)) = 1 /\ \A v \in Usable(x) : ~Newer(v, Resolved(x)[1])
<1>1. x.path \in Seq(Versions) /\ x.npx \in Seq(Versions) /\ Len(x.npx) <= 1
  BY PassthroughAssumption
<1>2. x.npx # <<>> => Len(x.npx) = 1 /\ DOMAIN x.npx = {1} /\ x.npx[1] \in Versions
  <2>1. ASSUME NEW s \in Seq(Versions), s # <<>>, Len(s) <= 1
        PROVE  Len(s) = 1 /\ DOMAIN s = {1} /\ s[1] \in Versions
    <3>1. Len(s) \in Nat /\ Len(s) # 0 /\ DOMAIN s = 1..Len(s) /\ \A i \in DOMAIN s : s[i] \in Versions
      BY <2>1
    <3>2. Len(s) = 1
      BY <2>1, <3>1
    <3>3. 1..1 = {1}
      OBVIOUS
    <3> QED BY <3>1, <3>2, <3>3
  <2> QED BY <1>1, <2>1
<1>3. x.npx = <<>> => DOMAIN x.npx = {}
  OBVIOUS
<1>4. CASE x.strategy = "npx" \/ x.path = <<>>
  <2>1. Resolved(x) = x.npx
    BY <1>4 DEF Resolved
  <2>2. Usable(x) = {x.npx[1]}
    BY <1>2, <1>4, <2>1 DEF Usable
  <2> QED BY <1>2, <2>1, <2>2, NewerIsOrder
<1>5. CASE ~(x.strategy = "npx" \/ x.path = <<>>)
  <2>1. \E i \in DOMAIN x.path : Leads(x.path, Len(x.path), i)
    BY <1>1, <1>5, SomeLeads
  <2>2. DOMAIN x.path = 1..Len(x.path) /\ \A j \in DOMAIN x.path : x.path[j] \in Versions
    BY <1>1
  <2>3. Best(x.path) \in Versions /\ \A j \in DOMAIN x.path : ~Newer(x.path[j], Best(x.path))
    <3> DEFINE first == CHOOSE i \in DOMAIN x.path : \A j \in DOMAIN x.path :
                           ~Newer(x.path[j], x.path[i]) /\ (j < i => Newer(x.path[i], x.path[j]))
    <3>1. first \in DOMAIN x.path /\ \A j \in DOMAIN x.path : ~Newer(x.path[j], x.path[first])
      BY <2>1, <2>2 DEF Leads
    <3> QED BY <2>2, <3>1 DEF Best
  <2>4. \A v \in Usable(x) : (\E j \in DOMAIN x.path : v = x.path[j]) \/ (x.npx # <<>> /\ v = x.npx[1])
    BY <1>2, <1>3 DEF Usable
  <2>5. CASE x.npx # <<>> /\ Newer(x.npx[1], Best(x.path))
    <3>1. Resolved(x) = x.npx
      BY <1>5, <2>5 DEF Resolved
    <3>2. ASSUME NEW j \in DOMAIN x.path PROVE ~Newer(x.path[j], x.npx[1])
      <4>1. Newer(x.npx[1], x.path[j])
        BY <1>2, <2>2, <2>3, <2>5, NewerIsOrder
      <4> QED BY <1>2, <2>2, <2>5, <4>1, NewerIsOrder
    <3>3. ~Newer(x.npx[1], x.npx[1])
      BY <1>2, <2>5, NewerIsOrder
    <3> QED BY <1>2, <2>4, <2>5, <3>1, <3>2, <3>3
  <2>6. CASE ~(x.npx # <<>> /\ Newer(x.npx[1], Best(x.path)))
    <3>1. Resolved(x) = <<Best(x.path)>>
      BY <1>5, <2>6 DEF Resolved
    <3> QED BY <2>3, <2>4, <2>6, <3>1
  <2> QED BY <2>5, <2>6
<1> QED BY <1>4, <1>5

-----------------------------------------------------------------------------
(* Codex passthrough: the files.                                             *)

Places == {"idle", "building", "opening", "writing", "resolving", "over", "failed"}
Files == {Documents[i] : i \in 1..5}
AtWork(t) == phase[t] \in {"building", "opening", "writing", "resolving"}

PassthroughTypeOK ==
    /\ installed \in Installations
    /\ phase \in [Terminals -> Places] /\ preview \in [Terminals -> BOOLEAN]
    /\ item \in [Terminals -> 1..6] /\ alone \in [Terminals -> BOOLEAN]
    /\ DOMAIN documents = Files
    /\ named \in [Terminals -> SUBSET Files] /\ DOMAIN version = Terminals

\* A terminal names documents it has been at; one that has been alone since it started still is,
\* and those documents hold what it wrote.
TerminalAt(t) ==
    /\ phase[t] \in {"opening", "writing"} => item[t] <= 5
    /\ phase[t] = "idle" => item[t] = 1
    /\ phase[t] = "building" => item[t] = 1
    /\ named[t] \subseteq {Documents[i] : i \in 1..(item[t] - 1)}
    /\ alone[t] /\ AtWork(t) =>
          /\ \A u \in Terminals \ {t} : ~AtWork(u)
          /\ \A d \in named[t] : documents[d] = t
          /\ phase[t] = "writing" => documents[Documents[item[t]]] = "empty"

PassthroughInv == PassthroughTypeOK /\ \A t \in Terminals : TerminalAt(t)

\* What InstructionsAreSound says of a step.
Ends(t) == phase[t] # "over" /\ phase'[t] = "over"
Instructs ==
    \A t \in Terminals : Ends(t) =>
        /\ alone[t] => \A d \in named'[t] : documents'[d] = t
        /\ ~preview[t] => /\ Len(version'[t]) = 1
                          /\ \A v \in Usable(installed) : ~Newer(v, version'[t][1])

\* The five documents in the order they are written: all different, the last two those of Repl.
LEMMA DocumentsAre ==
    /\ Files = {"toolkit", "handbook", "context", "prompt", "enriched"} /\ Len(Documents) = 5
    /\ \A i, j \in 1..5 : Documents[i] = Documents[j] => i = j
    /\ \A i \in 1..5 : Documents[i] \in Repl <=> i >= 4
<1>1. /\ Documents[1] = "toolkit" /\ Documents[2] = "handbook" /\ Documents[3] = "context"
      /\ Documents[4] = "prompt" /\ Documents[5] = "enriched" /\ Len(Documents) = 5
  BY DEF Documents
<1>2. \A i \in 1..5 : i = 1 \/ i = 2 \/ i = 3 \/ i = 4 \/ i = 5
  OBVIOUS
<1> QED BY <1>1, <1>2 DEF Files, Repl

\* No terminal has begun, and no document is written, when the terminals start.
LEMMA PassthroughStarts == ASSUME NEW x \in Installations, PassthroughStart(x) PROVE PassthroughInv
<1>1. DOMAIN documents = Files
  <2>1. DOMAIN Documents = 1..5
    BY DEF Documents
  <2> QED BY <2>1 DEF PassthroughStart, Files
<1> QED BY <1>1 DEF PassthroughStart, PassthroughInv, PassthroughTypeOK, TerminalAt, AtWork, Places

\* Whoever works, or names something, while another terminal starts is no longer alone.
LEMMA StartKeeps ==
    ASSUME PassthroughInv, NEW t \in Terminals, NEW dry \in BOOLEAN, StartsPassthrough(t, dry)
    PROVE  PassthroughInv' /\ Instructs
<1>1. /\ phase[t] = "idle" /\ UNCHANGED <<installed, item, documents, named, version>>
      /\ phase' = [phase EXCEPT ![t] = IF dry \/ Resolved(installed) # <<>> THEN "building" ELSE "failed"]
      /\ preview' = [preview EXCEPT ![t] = dry]
  BY DEF StartsPassthrough
<1>2. \A u \in Terminals : u \in Busy <=> AtWork(u)
  BY DEF PassthroughInv, PassthroughTypeOK, Places, Busy, AtWork
<1>3. CASE phase'[t] = "failed"
  <2>1. alone' = alone
    BY <1>3 DEF StartsPassthrough
  <2>2. PassthroughTypeOK'
    BY <1>1, <2>1 DEF PassthroughInv, PassthroughTypeOK, Places
  <2>3. ASSUME NEW u \in Terminals PROVE TerminalAt(u)'
    BY <1>1, <1>3, <2>1, <2>3 DEF PassthroughInv, PassthroughTypeOK, TerminalAt, AtWork
  <2> QED BY <1>1, <1>3, <2>2, <2>3 DEF PassthroughInv, PassthroughTypeOK, Instructs, Ends
<1>4. CASE phase'[t] # "failed"
  <2>1. alone' = [u \in Terminals |-> IF u = t THEN Busy = {} ELSE alone[u] /\ u \notin Busy]
    BY <1>4 DEF StartsPassthrough
  <2>2. PassthroughTypeOK'
    BY <1>1, <2>1 DEF PassthroughInv, PassthroughTypeOK, Places
  <2>3. phase'[t] = "building"
    BY <1>1, <1>4 DEF PassthroughInv, PassthroughTypeOK
  <2>4. TerminalAt(t)'
    <3>1. item[t] = 1 /\ named[t] = {}
      <4>1. item[t] = 1 /\ named[t] \subseteq {Documents[i] : i \in 1..(item[t] - 1)}
        BY <1>1 DEF PassthroughInv, TerminalAt
      <4> QED BY <4>1
    <3>2. alone'[t] => \A u \in Terminals \ {t} : ~AtWork(u)'
      BY <1>1, <1>2, <2>1 DEF PassthroughInv, PassthroughTypeOK, AtWork
    <3> QED BY <1>1, <2>3, <3>1, <3>2 DEF TerminalAt
  <2>5. ASSUME NEW u \in Terminals \ {t} PROVE TerminalAt(u)'
    <3>1. phase'[u] = phase[u] /\ alone'[u] = (alone[u] /\ ~AtWork(u)) /\ (AtWork(u)' <=> AtWork(u))
      BY <1>1, <1>2, <2>1 DEF PassthroughInv, PassthroughTypeOK, AtWork
    <3> QED BY <1>1, <3>1 DEF PassthroughInv, TerminalAt
  <2> QED BY <1>1, <2>2, <2>3, <2>4, <2>5 DEF PassthroughInv, PassthroughTypeOK, Instructs, Ends
<1> QED BY <1>3, <1>4

\* A step of one terminal that leaves the documents alone, or changes them where no other is alone.
LEMMA OtherTerminals ==
    ASSUME PassthroughInv, NEW t \in Terminals, NEW u \in Terminals \ {t}, UNCHANGED alone, AtWork(t),
           phase'[u] = phase[u], item'[u] = item[u], named'[u] = named[u]
    PROVE  TerminalAt(u)'
<1>1. ~(alone[u] /\ AtWork(u))
  BY DEF PassthroughInv, TerminalAt
<1> QED BY <1>1 DEF PassthroughInv, TerminalAt, AtWork

\* A document that could not be written is passed over.
LEMMA MissesKeeps ==
    ASSUME PassthroughInv, NEW t \in Terminals, phase[t] \in {"opening", "writing"}, Misses(t),
           UNCHANGED <<documents, installed, preview, version, alone>>
    PROVE  PassthroughInv' /\ Instructs
<1>1. AtWork(t) /\ item[t] \in 1..5 /\ PassthroughTypeOK
  BY DEF PassthroughInv, PassthroughTypeOK, TerminalAt, AtWork
<1>2. PICK i \in 1..6 :
         /\ item[t] < i /\ Goes(t, i) /\ named'[t] \subseteq named[t]
         /\ named' \in [Terminals -> SUBSET Files]
         /\ \A u \in Terminals \ {t} : named'[u] = named[u]
  <2>1. CASE Documents[item[t]] \in Repl
    <3>1. named' = [named EXCEPT ![t] = @ \ Repl] /\ Goes(t, 6)
      BY <2>1, DocumentsAre DEF Misses
    <3>2. /\ named'[t] \subseteq named[t] /\ named' \in [Terminals -> SUBSET Files]
          /\ \A u \in Terminals \ {t} : named'[u] = named[u]
      BY <1>1, <3>1 DEF PassthroughTypeOK
    <3> QED BY <1>1, <3>1, <3>2
  <2>2. CASE Documents[item[t]] \notin Repl
    <3>1. UNCHANGED named /\ Goes(t, item[t] + 1)
      BY <2>2 DEF Misses
    <3> QED BY <1>1, <3>1 DEF PassthroughTypeOK
  <2> QED BY <2>1, <2>2
<1>3. /\ phase' = [phase EXCEPT ![t] = IF i <= 5 THEN "opening" ELSE IF preview[t] THEN "over" ELSE "resolving"]
      /\ item' = [item EXCEPT ![t] = i]
  BY <1>2, DocumentsAre DEF Goes
<1>4. PassthroughTypeOK'
  BY <1>1, <1>2, <1>3 DEF PassthroughTypeOK, Places
<1>5. TerminalAt(t)'
  <2>1. named'[t] \subseteq {Documents[k] : k \in 1..(i - 1)}
    <3>1. named[t] \subseteq {Documents[k] : k \in 1..(item[t] - 1)}
      BY DEF PassthroughInv, TerminalAt
    <3> QED BY <1>1, <1>2, <3>1
  <2>2. alone[t] => /\ \A u \in Terminals \ {t} : ~AtWork(u)'
                    /\ \A d \in named'[t] : documents'[d] = t
    BY <1>1, <1>2, <1>3 DEF PassthroughInv, PassthroughTypeOK, TerminalAt, AtWork
  <2>3. item'[t] = i /\ phase'[t] = IF i <= 5 THEN "opening" ELSE IF preview[t] THEN "over" ELSE "resolving"
    BY <1>1, <1>3 DEF PassthroughTypeOK
  <2> QED BY <2>1, <2>2, <2>3 DEF TerminalAt
<1>6. ASSUME NEW u \in Terminals \ {t} PROVE TerminalAt(u)'
  <2>1. phase'[u] = phase[u] /\ item'[u] = item[u] /\ named'[u] = named[u]
    BY <1>1, <1>2, <1>3 DEF PassthroughTypeOK
  <2> QED BY <1>1, <2>1, OtherTerminals
<1>7. Instructs
  <2> SUFFICES ASSUME NEW u \in Terminals, Ends(u)
      PROVE  u = t /\ preview[t] /\ (alone[t] => \A d \in named'[t] : documents'[d] = t)
    BY DEF Instructs
  <2>1. u = t /\ preview[t]
    BY <1>1, <1>3 DEF Ends, PassthroughTypeOK
  <2> QED BY <1>1, <1>2, <2>1 DEF PassthroughInv, TerminalAt
<1> QED BY <1>4, <1>5, <1>6, <1>7 DEF PassthroughInv

\* The file of the next document is emptied; nobody alone has written it yet.
LEMMA OpenKeeps ==
    ASSUME PassthroughInv, NEW t \in Terminals, OpensDocument(t) PROVE PassthroughInv' /\ Instructs
<1>1. phase[t] = "opening" /\ UNCHANGED <<installed, preview, version, alone>>
  BY DEF OpensDocument
<1>2. CASE Misses(t) /\ UNCHANGED documents
  BY <1>1, <1>2, MissesKeeps
<1>3. CASE /\ documents' = [documents EXCEPT ![Documents[item[t]]] = "empty"]
           /\ phase' = [phase EXCEPT ![t] = "writing"] /\ UNCHANGED <<item, named>>
  <2>1. AtWork(t) /\ item[t] \in 1..5 /\ PassthroughTypeOK /\ TerminalAt(t)
    BY <1>1 DEF PassthroughInv, PassthroughTypeOK, TerminalAt, AtWork
  <2>2. Documents[item[t]] \in Files /\ Documents[item[t]] \notin named[t]
    BY <2>1, DocumentsAre DEF TerminalAt, Files
  <2>3. PassthroughTypeOK'
    BY <1>1, <1>3, <2>1, <2>2 DEF PassthroughTypeOK, Places
  <2>4. TerminalAt(t)'
    <3>1. phase'[t] = "writing" /\ documents'[Documents[item[t]]] = "empty"
      BY <1>3, <2>1, <2>2 DEF PassthroughTypeOK
    <3>2. \A d \in named[t] : documents'[d] = documents[d]
      BY <1>3, <2>1, <2>2 DEF PassthroughTypeOK
    <3>3. \A u \in Terminals \ {t} : AtWork(u)' <=> AtWork(u)
      BY <1>3, <2>1 DEF PassthroughTypeOK, AtWork
    <3> QED BY <1>1, <1>3, <2>1, <3>1, <3>2, <3>3 DEF TerminalAt
  <2>5. ASSUME NEW u \in Terminals \ {t} PROVE TerminalAt(u)'
    <3>1. phase'[u] = phase[u]
      BY <1>3, <2>1 DEF PassthroughTypeOK
    <3> QED BY <1>1, <1>3, <2>1, <3>1, OtherTerminals
  <2>6. Instructs
    BY <1>3, <2>1 DEF PassthroughTypeOK, Instructs, Ends
  <2> QED BY <2>3, <2>4, <2>5, <2>6 DEF PassthroughInv
<1> QED BY <1>2, <1>3 DEF OpensDocument

\* The document a terminal writes holds what it wrote, unless another has opened it meanwhile.
LEMMA WriteKeeps ==
    ASSUME PassthroughInv, NEW t \in Terminals, WritesDocument(t) PROVE PassthroughInv' /\ Instructs
<1> DEFINE d == Documents[item[t]]
<1>1. phase[t] = "writing" /\ UNCHANGED <<installed, preview, version, alone>>
  BY DEF WritesDocument
<1>2. CASE Misses(t) /\ UNCHANGED documents
  BY <1>1, <1>2, MissesKeeps
<1>3. ASSUME NEW content \in {t} \cup (IF documents[d] = "empty" THEN {} ELSE {"mixed"}),
             documents' = [documents EXCEPT ![d] = content],
             named' = IF preview[t] /\ d \in Repl THEN named ELSE [named EXCEPT ![t] = @ \cup {d}],
             Goes(t, item[t] + 1)
      PROVE  PassthroughInv' /\ Instructs
  <2>1. AtWork(t) /\ item[t] \in 1..5 /\ PassthroughTypeOK /\ TerminalAt(t)
    BY <1>1 DEF PassthroughInv, PassthroughTypeOK, TerminalAt, AtWork
  <2>2. d \in Files
    BY <2>1 DEF Files
  <2> DEFINE i == item[t] + 1
  <2>3. i \in 1..6 /\ d = Documents[i - 1]
    BY <2>1
  <2>4. /\ phase' = [phase EXCEPT ![t] = IF i <= 5 THEN "opening" ELSE IF preview[t] THEN "over" ELSE "resolving"]
        /\ item' = [item EXCEPT ![t] = i]
    BY <1>3, DocumentsAre DEF Goes
  <2>5. item'[t] = i /\ phase'[t] = IF i <= 5 THEN "opening" ELSE IF preview[t] THEN "over" ELSE "resolving"
    BY <2>1, <2>4 DEF PassthroughTypeOK
  <2>6. /\ named' \in [Terminals -> SUBSET Files] /\ named'[t] \subseteq named[t] \cup {d}
        /\ \A u \in Terminals \ {t} : named'[u] = named[u]
    <3> HIDE DEF d
    <3> QED BY <1>3, <2>1, <2>2 DEF PassthroughTypeOK
  <2>7. PassthroughTypeOK'
    <3> HIDE DEF d, i
    <3> QED BY <1>1, <1>3, <2>1, <2>3, <2>4, <2>6 DEF PassthroughTypeOK, Places
  <2>8. alone[t] => \A f \in named'[t] : documents'[f] = t
    <3> SUFFICES ASSUME alone[t], NEW f \in named[t] \cup {d} PROVE documents'[f] = t
      BY <2>6
    <3>1. documents[d] = "empty" /\ \A g \in named[t] : documents[g] = t
      BY <1>1, <2>1 DEF TerminalAt
    <3>2. content = t
      BY <1>3, <3>1
    <3>3. named[t] \subseteq Files
      BY <2>1 DEF PassthroughTypeOK
    <3> HIDE DEF d
    <3> QED BY <1>3, <2>1, <2>2, <3>1, <3>2, <3>3 DEF PassthroughTypeOK
  <2>9. TerminalAt(t)'
    <3>1. named'[t] \subseteq {Documents[k] : k \in 1..(i - 1)}
      BY <2>1, <2>6 DEF TerminalAt
    <3>2. \A u \in Terminals \ {t} : AtWork(u)' <=> AtWork(u)
      BY <2>1, <2>4 DEF PassthroughTypeOK, AtWork
    <3> HIDE DEF d, i
    <3> QED BY <1>1, <2>1, <2>3, <2>5, <2>8, <3>1, <3>2 DEF TerminalAt
  <2>10. ASSUME NEW u \in Terminals \ {t} PROVE TerminalAt(u)'
    <3>1. phase'[u] = phase[u] /\ item'[u] = item[u] /\ named'[u] = named[u]
      BY <2>1, <2>4, <2>6 DEF PassthroughTypeOK
    <3> QED BY <1>1, <2>1, <3>1, OtherTerminals
  <2>11. Instructs
    <3> SUFFICES ASSUME NEW u \in Terminals, Ends(u)
        PROVE  u = t /\ preview[t] /\ (alone[t] => \A f \in named'[t] : documents'[f] = t)
      BY DEF Instructs
    <3>1. u = t /\ preview[t]
      BY <2>1, <2>4 DEF Ends, PassthroughTypeOK
    <3> QED BY <2>8, <3>1
  <2> QED BY <2>7, <2>9, <2>10, <2>11 DEF PassthroughInv
<1> QED BY <1>2, <1>3 DEF WritesDocument

\* The instructions name the executable that is found when they are printed.
LEMMA PrintKeeps ==
    ASSUME PassthroughInv, NEW t \in Terminals, PrintsInstructions(t) PROVE PassthroughInv' /\ Instructs
<1>1. /\ phase[t] = "resolving" /\ UNCHANGED <<installed, preview, item, documents, named, alone>>
      /\ version' = [version EXCEPT ![t] = Resolved(installed)]
      /\ phase' = [phase EXCEPT ![t] = IF Resolved(installed) = <<>> THEN "failed" ELSE "over"]
  BY DEF PrintsInstructions
<1>2. AtWork(t) /\ PassthroughTypeOK /\ TerminalAt(t)
  BY <1>1 DEF PassthroughInv, AtWork
<1>3. phase'[t] \in {"failed", "over"} /\ version'[t] = Resolved(installed)
      /\ (phase'[t] = "over" => Resolved(installed) # <<>>)
      /\ \A u \in Terminals \ {t} : phase'[u] = phase[u]
  BY <1>1, <1>2 DEF PassthroughTypeOK
<1>4. PassthroughTypeOK'
  BY <1>1, <1>2 DEF PassthroughTypeOK, Places
<1>5. TerminalAt(t)'
  BY <1>1, <1>2, <1>3 DEF TerminalAt, AtWork
<1>6. ASSUME NEW u \in Terminals \ {t} PROVE TerminalAt(u)'
  BY <1>1, <1>2, <1>3, OtherTerminals
<1>7. Instructs
  <2> SUFFICES ASSUME NEW u \in Terminals, Ends(u)
      PROVE  /\ u = t /\ alone[t] => \A d \in named'[t] : documents'[d] = t
             /\ u = t /\ Len(version'[t]) = 1 /\ \A v \in Usable(installed) : ~Newer(v, version'[t][1])
    BY DEF Instructs
  <2>1. u = t /\ Resolved(installed) # <<>>
    BY <1>3 DEF Ends
  <2>2. installed \in Installations
    BY <1>2 DEF PassthroughTypeOK
  <2>3. alone[t] => \A d \in named'[t] : documents'[d] = t
    BY <1>1, <1>2 DEF TerminalAt
  <2> QED BY <1>3, <2>1, <2>2, <2>3, ResolvedIsNewest
<1> QED BY <1>4, <1>5, <1>6, <1>7 DEF PassthroughInv

\* Every step keeps the invariant, and what a command ends with is as InstructionsAreSound says.
LEMMA PassthroughStepKeeps == PassthroughInv /\ PassthroughStep => PassthroughInv' /\ Instructs
<1> SUFFICES ASSUME PassthroughInv, PassthroughStep PROVE PassthroughInv' /\ Instructs
  OBVIOUS
<1>1. CASE Installs
  <2>1. installed' \in Installations /\ UNCHANGED <<phase, preview, item, documents, named, version, alone>>
    BY <1>1 DEF Installs
  <2> QED BY <2>1 DEF PassthroughInv, PassthroughTypeOK, TerminalAt, AtWork, Instructs, Ends
<1>2. ASSUME NEW t \in Terminals, NEW dry \in BOOLEAN, StartsPassthrough(t, dry)
      PROVE  PassthroughInv' /\ Instructs
  BY <1>2, StartKeeps
<1>3. ASSUME NEW t \in Terminals, BuildsContext(t) PROVE PassthroughInv' /\ Instructs
  <2>1. PICK next \in {"opening", "failed"} :
           /\ phase[t] = "building" /\ phase' = [phase EXCEPT ![t] = next]
           /\ UNCHANGED <<installed, preview, item, documents, named, version, alone>>
    BY <1>3 DEF BuildsContext
  <2>2. PassthroughTypeOK /\ TerminalAt(t) /\ AtWork(t)
    BY <2>1 DEF PassthroughInv, AtWork
  <2>3. phase'[t] = next /\ \A u \in Terminals \ {t} : phase'[u] = phase[u]
    BY <2>1, <2>2 DEF PassthroughTypeOK
  <2>4. PassthroughTypeOK'
    BY <2>1, <2>2 DEF PassthroughTypeOK, Places
  <2>5. TerminalAt(t)'
    BY <2>1, <2>2, <2>3 DEF TerminalAt, AtWork
  <2>6. ASSUME NEW u \in Terminals \ {t} PROVE TerminalAt(u)'
    BY <2>1, <2>2, <2>3, OtherTerminals
  <2> QED BY <2>1, <2>3, <2>4, <2>5, <2>6 DEF PassthroughInv, Instructs, Ends
<1>4. ASSUME NEW t \in Terminals, OpensDocument(t) PROVE PassthroughInv' /\ Instructs
  BY <1>4, OpenKeeps
<1>5. ASSUME NEW t \in Terminals, WritesDocument(t) PROVE PassthroughInv' /\ Instructs
  BY <1>5, WriteKeeps
<1>6. ASSUME NEW t \in Terminals, PrintsInstructions(t) PROVE PassthroughInv' /\ Instructs
  BY <1>6, PrintKeeps
<1> QED BY <1>1, <1>2, <1>3, <1>4, <1>5, <1>6 DEF PassthroughStep, TerminalStep

-----------------------------------------------------------------------------
(* Workflows: the inductive invariant.                                      *)

FlowTypeOK ==
    /\ asking \in [Flows -> SUBSET (Topics \cup {"untidy", "long"})]
    /\ agenda \in [Flows -> SUBSET StageIds]
    /\ at \in [Flows -> {"idle", "next", "agent", "model", "over", "failed"}]
    /\ DOMAIN yields = Flows

\* What is called for is done or on the agenda, and so is nothing else but the closing stages.
AgendaAt(f) ==
    /\ Called(asking[f]) \subseteq DOMAIN yields[f] \cup agenda[f]
    /\ DOMAIN yields[f] \cup agenda[f] \subseteq Called(asking[f]) \cup {"insight-summary", "openai-synthesis"}
    /\ at[f] \in {"agent", "model"} => agenda[f] # {}
    /\ at[f] = "model" => Stage(f) = "openai-synthesis"
    /\ at[f] = "over" => agenda[f] = {}

\* What the results of the stages that write and look at code y hold, for a prompt p.
ResultsFit(y, p) ==
    LET coding == p \cap Coding # {}
    IN  /\ "code-generation" \in DOMAIN y => "generatedCode" \in y["code-generation"]
        /\ "code-lint" \in DOMAIN y /\ coding => ("issues" \in y["code-lint"] <=> "untidy" \in p)
        /\ "validation" \in DOMAIN y => ("passed" \in y["validation"] <=> coding)

FlowAt(f) ==
    /\ at[f] = "idle" => DOMAIN yields[f] = {}
    /\ at[f] # "idle" => AgendaAt(f)
    /\ ResultsFit(yields[f], asking[f])

FlowInv == FlowTypeOK /\ \A f \in Flows : FlowAt(f)

-----------------------------------------------------------------------------
(* The stages.                                                              *)

\* The stages by name, and the turns the proofs need.
LEMMA StagesHaveTurns ==
    /\ StageIds = {"research-scan", "data-analysis", "react-plan", "architecture-blueprint", "code-generation",
                   "code-lint", "validation", "knowledge-distillation", "insight-summary", "openai-synthesis"}
    /\ Turn \in [StageIds -> 1..10]
    /\ Turn["code-generation"] = 5 /\ Turn["code-lint"] = 6 /\ Turn["validation"] = 7
<1>1. DOMAIN Stages = 1..10
  BY DEF Stages
<1>2. /\ Stages[1] = "research-scan" /\ Stages[2] = "data-analysis" /\ Stages[3] = "react-plan"
      /\ Stages[4] = "architecture-blueprint" /\ Stages[5] = "code-generation" /\ Stages[6] = "code-lint"
      /\ Stages[7] = "validation" /\ Stages[8] = "knowledge-distillation" /\ Stages[9] = "insight-summary"
      /\ Stages[10] = "openai-synthesis"
  BY DEF Stages
<1>3. \A i \in 1..10 : i = 1 \/ i = 2 \/ i = 3 \/ i = 4 \/ i = 5 \/ i = 6 \/ i = 7 \/ i = 8 \/ i = 9 \/ i = 10
  OBVIOUS
<1>4. StageIds = {"research-scan", "data-analysis", "react-plan", "architecture-blueprint", "code-generation",
                  "code-lint", "validation", "knowledge-distillation", "insight-summary", "openai-synthesis"}
  BY <1>1, <1>2, <1>3 DEF StageIds
<1>5. \A i, j \in 1..10 : Stages[i] = Stages[j] => i = j
  BY <1>2, <1>3
<1>6. ASSUME NEW i \in 1..10 PROVE Turn[Stages[i]] = i
  <2>1. Stages[i] \in StageIds
    BY <1>1 DEF StageIds
  <2>2. Turn[Stages[i]] = CHOOSE k \in DOMAIN Stages : Stages[k] = Stages[i]
    BY <2>1 DEF Turn
  <2>3. \E k \in DOMAIN Stages : Stages[k] = Stages[i]
    BY <1>1
  <2>4. Turn[Stages[i]] \in DOMAIN Stages /\ Stages[Turn[Stages[i]]] = Stages[i]
    BY <2>2, <2>3
  <2> QED BY <1>1, <1>5, <2>4
<1>7. ASSUME NEW id \in StageIds PROVE Turn[id] \in 1..10
  <2>1. PICK i \in 1..10 : id = Stages[i]
    BY <1>1 DEF StageIds
  <2> QED BY <1>6, <2>1
<1>8. Turn \in [StageIds -> 1..10]
  BY <1>7 DEF Turn
<1>9. Turn["code-generation"] = 5 /\ Turn["code-lint"] = 6 /\ Turn["validation"] = 7
  <2>1. Turn[Stages[5]] = 5 /\ Turn[Stages[6]] = 6 /\ Turn[Stages[7]] = 7
    BY <1>6
  <2> QED BY <1>2, <2>1
<1> QED BY <1>4, <1>8, <1>9

\* The stage at work is the first of the agenda.
LEMMA StageIsFirst ==
    ASSUME NEW f \in Flows, agenda[f] \subseteq StageIds, agenda[f] # {}
    PROVE  Stage(f) \in agenda[f] /\ \A other \in agenda[f] : Turn[Stage(f)] <= Turn[other]
<1> DEFINE T == {Turn[id] : id \in agenda[f]}
<1>1. T \subseteq Nat /\ T # {}
  BY StagesHaveTurns
<1>2. PICK i \in T : \A j \in T : i <= j
  BY <1>1, NatHasLeast
<1>3. PICK id \in agenda[f] : i = Turn[id]
  OBVIOUS
<1>4. \A other \in agenda[f] : Turn[id] <= Turn[other]
  BY <1>2, <1>3
<1> HIDE DEF T
<1> QED BY <1>4 DEF Stage

\* Who calls for code, calls for all that is done with it.
LEMMA CodeIsCalled ==
    ASSUME NEW p
    PROVE  /\ "code-generation" \in Called(p) <=> p \cap Coding # {}
           /\ "code-lint" \in Called(p) <=> p \cap Coding # {}
           /\ p \cap Coding # {} => "validation" \in Called(p)
           /\ Called(p) \subseteq StageIds
<1>1. /\ DOMAIN TopicsOf = StageIds \ {"insight-summary", "openai-synthesis"}
      /\ {"code-generation", "code-lint", "validation"} \subseteq DOMAIN TopicsOf
  BY StagesHaveTurns DEF TopicsOf
<1>2. TopicsOf["code-generation"] = Coding /\ TopicsOf["code-lint"] = Coding
  BY <1>1 DEF TopicsOf
<1>3. TopicsOf["validation"] = Coding \cup {"testing"}
  BY <1>1 DEF TopicsOf
<1> QED BY <1>1, <1>2, <1>3 DEF Called

\* The linter and the validation are given the code that was written.
LEMMA CodeIsGiven ==
    ASSUME NEW y, NEW id \in {"code-lint", "validation"}
    PROVE  "code" \in Given(id, y) <=> Offers(y, "code-generation", "generatedCode")
<1>1. \A r \in Reads : r.reader = id /\ r.input = "code" => r.stage = "code-generation" /\ r.field = "generatedCode"
  BY DEF Reads, From
<1>2. From(id, "code", "code-generation", "generatedCode") \in Reads
  BY DEF Reads
<1>3. ASSUME Offers(y, "code-generation", "generatedCode") PROVE "code" \in Given(id, y)
  <2> DEFINE r == From(id, "code", "code-generation", "generatedCode")
  <2>1. r.reader = id /\ r.input = "code" /\ r.stage = "code-generation" /\ r.field = "generatedCode"
    BY DEF From
  <2> QED BY <1>2, <1>3, <2>1 DEF Given
<1>4. ASSUME "code" \in Given(id, y) PROVE Offers(y, "code-generation", "generatedCode")
  BY <1>1, <1>4 DEF Given
<1> QED BY <1>3, <1>4

-----------------------------------------------------------------------------
(* Workflows: every step keeps the invariant.                               *)

\* Before any workflow the invariant holds, whether the client is ready or not.
LEMMA FlowStarts == ASSUME NEW ready, PipelineStart(ready) PROVE FlowInv
<1>1. FlowTypeOK
  BY DEF PipelineStart, FlowTypeOK
<1>2. ASSUME NEW f \in Flows PROVE FlowAt(f)
  <2>1. at[f] = "idle" /\ DOMAIN yields[f] = {}
    BY DEF PipelineStart
  <2> QED BY <2>1 DEF FlowAt, ResultsFit
<1> QED BY <1>1, <1>2 DEF FlowInv

SameFlow(f) == at'[f] = at[f] /\ asking'[f] = asking[f] /\ agenda'[f] = agenda[f] /\ yields'[f] = yields[f]
\* A workflow no step touches keeps its part of the invariant.
LEMMA SameFlowKept == ASSUME NEW f \in Flows, SameFlow(f), FlowAt(f) PROVE FlowAt(f)'
BY DEF SameFlow, FlowAt, AgendaAt, ResultsFit, Stage

\* A workflow gets the stages its prompt calls for.
LEMMA PassesGateKeeps ==
    ASSUME FlowInv, NEW f \in Flows, NEW p \in FlowPrompts, PassesGate(f, p) PROVE FlowInv'
<1>1. p \subseteq Topics \cup {"untidy", "long"}
  BY FlowPromptsAssumption
<1>2. Called(p) \subseteq StageIds
  BY CodeIsCalled
<1>3. FlowTypeOK
  BY DEF FlowInv
<1>4. BuildWorkflow(p, usable) \subseteq StageIds
  BY <1>2, StagesHaveTurns DEF BuildWorkflow
<1>5. FlowTypeOK'
  BY <1>1, <1>3, <1>4 DEF FlowTypeOK, PassesGate
<1>6. ASSUME NEW g \in Flows PROVE FlowAt(g)'
  <2>1. CASE g # f
    <3>1. SameFlow(g)
      BY <1>3, <2>1 DEF PassesGate, SameFlow, FlowTypeOK
    <3> QED BY <3>1, SameFlowKept DEF FlowInv
  <2>2. CASE g = f
    <3>1. /\ at'[f] = "next" /\ asking'[f] = p /\ agenda'[f] = BuildWorkflow(p, usable)
          /\ yields'[f] = yields[f] /\ DOMAIN yields[f] = {}
      BY <1>3 DEF PassesGate, FlowTypeOK, FlowInv, FlowAt
    <3>2. AgendaAt(f)'
      BY <3>1 DEF AgendaAt, BuildWorkflow
    <3>3. ResultsFit(yields[f], asking[f])'
      BY <3>1 DEF ResultsFit
    <3> QED BY <2>2, <3>1, <3>2, <3>3 DEF FlowAt
  <2> QED BY <2>1, <2>2
<1> QED BY <1>5, <1>6 DEF FlowInv

\* A flow that takes up a stage, fails or concludes: its stages and results stay.
LEMMA MovesOnKeeps ==
    ASSUME FlowInv, NEW f \in Flows, at[f] # "idle", NEW pc \in {"agent", "model", "over", "failed"},
           at' = [at EXCEPT ![f] = pc], UNCHANGED <<asking, agenda, yields>>,
           pc \in {"agent", "model"} => agenda[f] # {}, pc = "model" => Stage(f) = "openai-synthesis",
           pc = "over" => agenda[f] = {}
    PROVE  FlowInv'
<1>1. FlowTypeOK
  BY DEF FlowInv
<1>2. FlowTypeOK'
  BY <1>1 DEF FlowTypeOK
<1>3. ASSUME NEW g \in Flows PROVE FlowAt(g)'
  <2>1. CASE g # f
    <3>1. SameFlow(g)
      BY <1>1, <2>1 DEF SameFlow, FlowTypeOK
    <3> QED BY <3>1, SameFlowKept DEF FlowInv
  <2>2. CASE g = f
    <3>1. at'[f] = pc
      BY <1>1 DEF FlowTypeOK
    <3> QED BY <2>2, <3>1 DEF FlowInv, FlowAt, AgendaAt, ResultsFit, Stage
  <2> QED BY <2>1, <2>2
<1> QED BY <1>2, <1>3 DEF FlowInv

\* The result of a stage fits when it is what an agent answers to what it is given.
LEMMA AnswerFits ==
    ASSUME FlowInv, NEW f \in Flows, at[f] \in {"agent", "model"}, NEW fields,
           at[f] = "agent" => fields = AgentAnswer(Stage(f), Given(Stage(f), yields[f]), asking[f])
    PROVE  ResultsFit(With(yields[f], Stage(f), fields), asking[f])
<1> DEFINE id == Stage(f)
           y == yields[f]
           z == With(y, id, fields)
           p == asking[f]
           given == Given(id, y)
<1>1. /\ AgendaAt(f) /\ ResultsFit(y, p) /\ agenda[f] \subseteq StageIds /\ agenda[f] # {}
  BY DEF FlowInv, FlowAt, FlowTypeOK, AgendaAt
<1>2. id \in agenda[f] /\ \A other \in agenda[f] : Turn[id] <= Turn[other]
  BY <1>1, StageIsFirst
<1>3. DOMAIN z = DOMAIN y \cup {id} /\ z[id] = fields /\ \A s \in DOMAIN y \ {id} : z[s] = y[s]
  BY DEF With
<1>4. ASSUME id \in {"code-lint", "validation"}, p \cap Coding # {} PROVE "code" \in given
  <2>1. "code-generation" \in DOMAIN y \cup agenda[f]
    BY <1>1, <1>4, CodeIsCalled DEF AgendaAt
  <2>2. "code-generation" \notin agenda[f]
    BY <1>2, <1>4, StagesHaveTurns
  <2>3. Offers(y, "code-generation", "generatedCode")
    BY <1>1, <2>1, <2>2 DEF Offers, ResultsFit
  <2> QED BY <1>4, <2>3, CodeIsGiven
<1>5. ASSUME id \in {"code-lint", "validation"}, p \cap Coding = {} PROVE "code" \notin given
  <2>1. "code-generation" \notin DOMAIN y
    BY <1>1, <1>5, CodeIsCalled DEF AgendaAt
  <2> QED BY <1>5, <2>1, CodeIsGiven DEF Offers
<1>6. ASSUME at[f] = "model" PROVE ResultsFit(z, p)
  <2>1. id = "openai-synthesis"
    BY <1>1, <1>6 DEF AgendaAt
  <2> HIDE DEF id, y, z, p, given
  <2> QED BY <1>1, <1>3, <2>1 DEF ResultsFit
<1>7. ASSUME at[f] = "agent" PROVE ResultsFit(z, p)
  <2>1. fields = AgentAnswer(id, given, p)
    BY <1>7
  <2> HIDE DEF id, y, z, p, given
  <2>2. CASE id = "code-generation"
    <3>1. "generatedCode" \in fields
      BY <2>1, <2>2 DEF AgentAnswer, CodeWork
    <3> QED BY <1>1, <1>3, <2>2, <3>1 DEF ResultsFit
  <2>3. CASE id = "code-lint"
    <3>1. p \cap Coding # {} => ("issues" \in fields <=> "untidy" \in p)
      BY <1>4, <2>1, <2>3 DEF AgentAnswer, CodeWork
    <3> QED BY <1>1, <1>3, <2>3, <3>1 DEF ResultsFit
  <2>4. CASE id = "validation"
    <3>1. "passed" \in fields <=> p \cap Coding # {}
      BY <1>4, <1>5, <2>1, <2>4 DEF AgentAnswer, ValidateCode
    <3> QED BY <1>1, <1>3, <2>4, <3>1 DEF ResultsFit
  <2>5. CASE id \notin {"code-generation", "code-lint", "validation"}
    BY <1>1, <1>3, <2>5 DEF ResultsFit
  <2> QED BY <2>2, <2>3, <2>4, <2>5
<1> QED BY <1>6, <1>7

\* A stage that ends leaves the agenda with a result that fits.
LEMMA StageAnswersKeeps == ASSUME FlowInv, NEW f \in Flows, StageAnswers(f) PROVE FlowInv'
<1>1. PICK fields : /\ at[f] \in {"agent", "model"} /\ StageEndsWith(f, fields)
                    /\ at[f] = "agent" => fields = AgentAnswer(Stage(f), Given(Stage(f), yields[f]), asking[f])
  BY DEF StageAnswers
<1>2. FlowTypeOK /\ FlowAt(f) /\ AgendaAt(f)
  BY <1>1 DEF FlowInv, FlowAt
<1>3. FlowTypeOK'
  BY <1>1, <1>2 DEF FlowTypeOK, StageEndsWith
<1>4. ASSUME NEW g \in Flows PROVE FlowAt(g)'
  <2>1. CASE g # f
    <3>1. SameFlow(g)
      BY <1>1, <1>2, <2>1 DEF SameFlow, StageEndsWith, FlowTypeOK
    <3> QED BY <3>1, SameFlowKept DEF FlowInv
  <2>2. CASE g = f
    <3>1. /\ at'[f] = "next" /\ asking'[f] = asking[f] /\ agenda'[f] = agenda[f] \ {Stage(f)}
          /\ yields'[f] = With(yields[f], Stage(f), fields)
      BY <1>1, <1>2 DEF StageEndsWith, FlowTypeOK
    <3>2. Stage(f) \in agenda[f]
      BY <1>1, <1>2, StageIsFirst DEF AgendaAt, FlowTypeOK
    <3>3. DOMAIN yields'[f] = DOMAIN yields[f] \cup {Stage(f)}
      BY <3>1 DEF With
    <3>4. AgendaAt(f)'
      BY <1>2, <3>1, <3>2, <3>3 DEF AgendaAt
    <3>5. ResultsFit(yields[f], asking[f])'
      <4>1. ResultsFit(With(yields[f], Stage(f), fields), asking[f])
        BY <1>1, AnswerFits
      <4> QED BY <3>1, <4>1 DEF ResultsFit
    <3> QED BY <2>2, <3>1, <3>4, <3>5 DEF FlowAt
  <2> QED BY <2>1, <2>2
<1> QED BY <1>3, <1>4 DEF FlowInv

\* Every step of the pipeline.
LEMMA PipelineStepKeeps == ASSUME FlowInv, PipelineStep PROVE FlowInv'
<1>1. CASE KeyRefused
  <2>1. ASSUME NEW f \in Flows PROVE FlowAt(f)'
    <3>1. SameFlow(f)
      BY <1>1 DEF KeyRefused, SameFlow
    <3> QED BY <3>1, SameFlowKept DEF FlowInv
  <2> QED BY <1>1, <2>1 DEF KeyRefused, FlowInv, FlowTypeOK
<1>2. ASSUME NEW f \in Flows, TakesStage(f) PROVE FlowInv'
  <2> DEFINE pc == IF Stage(f) = "openai-synthesis" /\ usable THEN "model" ELSE "agent"
  <2>1. at[f] # "idle" /\ at' = [at EXCEPT ![f] = pc] /\ agenda[f] # {} /\ UNCHANGED <<asking, agenda, yields>>
    BY <1>2 DEF TakesStage
  <2>2. pc \in {"agent", "model"} /\ (pc = "model" => Stage(f) = "openai-synthesis")
    OBVIOUS
  <2> HIDE DEF pc
  <2> QED BY <2>1, <2>2, MovesOnKeeps
<1>3. ASSUME NEW f \in Flows, StageThrows(f) PROVE FlowInv'
  BY <1>3, MovesOnKeeps DEF StageThrows
<1>4. ASSUME NEW f \in Flows, Concludes(f) PROVE FlowInv'
  BY <1>4, MovesOnKeeps DEF Concludes
<1> QED BY <1>1, <1>2, <1>3, <1>4, PassesGateKeeps, StageAnswersKeeps DEF PipelineStep, FlowStep

\* What the summary says, from the results that fit.
LEMMA FlowInvImplies == FlowInv => SummaryIsTrue
<1> SUFFICES ASSUME FlowInv, NEW f \in Flows, at[f] = "over" PROVE
        LET coding == asking[f] \cap Coding # {}
        IN /\ Called(asking[f]) \subseteq DOMAIN yields[f]
           /\ coding <=> "scaffold" \in Summary(yields[f])
           /\ coding <=> "gates satisfied" \in Summary(yields[f])
           /\ coding => ("lint passed" \in Summary(yields[f]) <=> "untidy" \notin asking[f])
  BY DEF SummaryIsTrue
<1> DEFINE y == yields[f]
           p == asking[f]
<1>1. /\ ResultsFit(y, p) /\ Called(p) \subseteq DOMAIN y
      /\ DOMAIN y \subseteq Called(p) \cup {"insight-summary", "openai-synthesis"}
  BY DEF FlowInv, FlowAt, AgendaAt
<1>2. /\ "scaffold" \in Summary(y) <=> Offers(y, "code-generation", "generatedCode")
      /\ "lint passed" \in Summary(y) <=> ~Offers(y, "code-lint", "issues")
      /\ "gates satisfied" \in Summary(y) <=> Offers(y, "validation", "passed")
  BY DEF Summary, Told
<1>3. p \cap Coding # {} <=> Offers(y, "code-generation", "generatedCode")
  BY <1>1, CodeIsCalled DEF ResultsFit, Offers
<1>4. p \cap Coding # {} <=> Offers(y, "validation", "passed")
  BY <1>1, CodeIsCalled DEF ResultsFit, Offers
<1>5. p \cap Coding # {} => (Offers(y, "code-lint", "issues") <=> "untidy" \in p)
  BY <1>1, CodeIsCalled DEF ResultsFit, Offers
<1> QED BY <1>1, <1>2, <1>3, <1>4, <1>5

-----------------------------------------------------------------------------
(* Hive-mind commands: the inductive invariant.                             *)

\* The crew has the names there are, and a review is of a workflow that has ended for good.
CrewIsNamed ==
    /\ policy \in Reviews
    /\ IsFiniteSet(crew)
    /\ \A a \in crew : a \in {a[1]} \X (1..MaxAgents)
HiveInv ==
    /\ CrewIsNamed
    /\ review # <<>> => flow = "ended" /\ command \in {"reviewing", "over", "threw"}
    /\ ReviewReflectsOutcome

\* The coordinators are finitely many, so that there is a count of them.
LEMMA CoordinatorsAreCounted ==
    ASSUME CrewIsNamed PROVE IsFiniteSet(Coordinators) /\ Cardinality(Coordinators) \in Nat
<1>1. IsFiniteSet(crew)
  BY DEF CrewIsNamed
<1>2. Coordinators \subseteq crew
  BY DEF Coordinators, OfType
<1>3. IsFiniteSet(Coordinators)
  BY <1>1, <1>2, FS_Subset
<1> QED BY <1>3, FS_CardinalityType

\* The instance of the manager's module has its own name for the size of a set.
LEMMA ManagerCounts == ASSUME NEW S PROVE Manager!Cardinality(S) = Cardinality(S)
BY DEF Manager!Cardinality, Cardinality

\* A proposal asks for one vote at least, and for no more than there are voters.
LEMMA RequiredIsMet ==
    ASSUME CrewIsNamed
    PROVE  /\ Manager!TermsNow.required \in Nat /\ Manager!TermsNow.population \in Nat
           /\ Manager!TermsNow.required >= 1
           /\ Manager!TermsNow.required <= Manager!TermsNow.population
<1> DEFINE n == Manager!VotingPopulation
           w == Manager!Wanted(n)
<1>1. policy \in Manager!Config
  BY ReviewsAssumption DEF CrewIsNamed
<1>2. /\ policy.minVotes \in Nat \ {0} /\ policy.num \in Nat /\ policy.den \in Nat \ {0}
      /\ policy.faultTolerance \in Nat \cup {NoValue}
  BY <1>1 DEF Manager!Config
<1>3. n \in Nat /\ n >= 1
  <2> DEFINE S == IF Manager!Voters # {} THEN Manager!Voters ELSE crew
  <2>1. IsFiniteSet(S)
    <3>1. Manager!Voters \subseteq crew
      BY DEF Manager!Voters
    <3>2. IsFiniteSet(crew)
      BY DEF CrewIsNamed
    <3> QED BY <3>1, <3>2, FS_Subset
  <2>2. Cardinality(S) \in Nat
    BY <2>1, FS_CardinalityType
  <2>3. n = Manager!AtLeast(Cardinality(S), 1)
    BY ManagerCounts DEF Manager!VotingPopulation
  <2> HIDE DEF S, n
  <2> QED BY <2>2, <2>3 DEF Manager!AtLeast
<1> HIDE DEF n
<1> DEFINE q == Manager!Ceiling(n * policy.num, policy.den)
<1>4. q \in Int
  <2>1. n * policy.num \in Nat
    BY <1>2, <1>3
  <2>2. n * policy.num + policy.den - 1 \in Int
    BY <1>2, <2>1
  <2>3. \A i \in Int, d \in Nat \ {0} : i \div d \in Int
    OBVIOUS
  <2> QED BY <1>2, <2>2, <2>3 DEF Manager!Ceiling
<1> HIDE DEF q
<1> DEFINE a == Manager!AtLeast(policy.minVotes, q)
<1>5. a \in Int /\ a >= 1
  BY <1>2, <1>4 DEF Manager!AtLeast
<1> HIDE DEF a
<1>6. Manager!FaultTolerance(n) \in Int
  <2>1. (n - 1) \div 3 \in Int
    BY <1>3
  <2> QED BY <1>2, <2>1 DEF Manager!FaultTolerance
<1>7. w = IF policy.mechanism \in {"bft", "hybrid"} THEN Manager!AtLeast(a, 3 * Manager!FaultTolerance(n) + 1) ELSE a
  BY DEF Manager!Wanted, a, q
<1> HIDE DEF w
<1>8. w \in Int /\ w >= 1
  BY <1>5, <1>6, <1>7 DEF Manager!AtLeast
<1>9. Manager!TermsNow.required = Manager!Clamped(w, n) /\ Manager!TermsNow.population = n
  BY DEF Manager!TermsNow, w, n
<1> QED BY <1>3, <1>8, <1>9 DEF Manager!Clamped

\* The least of a pair.
LEMMA LesserOfTwo == ASSUME NEW i \in Int, NEW j \in Int PROVE Min({i, j}) = IF i <= j THEN i ELSE j
<1> DEFINE m == IF i <= j THEN i ELSE j
<1>1. m \in {i, j} /\ \A y \in {i, j} : m <= y
  OBVIOUS
<1>2. PICK x \in {i, j} : x = Min({i, j}) /\ \A y \in {i, j} : x <= y
  BY <1>1 DEF Min
<1> QED BY <1>1, <1>2

\* The coordinators vote alike: an outcome that is not clean finds no vote for it, and one that is
\* finds as many as they are.
LEMMA VoteFollowsOutcome ==
    ASSUME CrewIsNamed, NEW o
    PROVE  /\ Accepted(o) => Decision(o)
           /\ Decision(o) /\ Cardinality(Coordinators) >= Manager!TermsNow.required => Accepted(o)
<1> DEFINE n == Cardinality(Coordinators)
           t == Manager!TermsNow
<1>1. n \in Nat
  BY CoordinatorsAreCounted
<1>2. t.required \in Nat /\ t.population \in Nat /\ t.required >= 1 /\ t.required <= t.population
  BY RequiredIsMet
<1>3. ASSUME Accepted(o), ~Decision(o) PROVE FALSE
  <2> DEFINE yes == IF Decision(o) THEN n ELSE 0
  <2>1. PICK k \in 1..n : Manager!Verdict(Min({yes, k}), Min({n - yes, k}), t) = "accepted"
    BY <1>3 DEF Accepted
  <2>2. yes = 0 /\ Min({yes, k}) = 0
    <3>1. yes = 0 /\ 0 <= k /\ k \in Int
      BY <1>1, <1>3
    <3> HIDE DEF yes
    <3> QED BY <3>1, LesserOfTwo
  <2>3. Manager!Verdict(0, Min({n - yes, k}), t) # "accepted"
    <3> HIDE DEF t
    <3> QED BY <1>2 DEF Manager!Verdict
  <2> QED BY <2>1, <2>2, <2>3
<1>4. ASSUME Decision(o), n >= t.required PROVE Accepted(o)
  <2> DEFINE r == t.required
  <2>1. r \in 1..n
    BY <1>1, <1>2, <1>4
  <2>2. ASSUME NEW k \in 1..r PROVE Min({n, k}) = k /\ Min({0, k}) = 0
    <3>1. k \in Int /\ n \in Int /\ k <= n /\ 0 <= k
      BY <1>1, <2>1
    <3> QED BY <3>1, LesserOfTwo
  <2>3. Manager!Verdict(r, 0, t) = "accepted"
    <3> HIDE DEF t
    <3> QED BY <1>2 DEF Manager!Verdict
  <2>4. ASSUME NEW k \in 1..(r - 1) PROVE Manager!Verdict(k, 0, t) = "open"
    <3>1. k \in Nat /\ k < r /\ k < t.population /\ 0 < r
      BY <1>2
    <3> HIDE DEF t
    <3> QED BY <1>2, <3>1 DEF Manager!Verdict
  <2>5. \A k \in 1..(r - 1) : Manager!Verdict(Min({n, k}), Min({n - n, k}), t) = "open"
    <3> SUFFICES ASSUME NEW k \in 1..(r - 1) PROVE Manager!Verdict(Min({n, k}), Min({n - n, k}), t) = "open"
      OBVIOUS
    <3>1. k \in 1..r /\ n - n = 0
      BY <1>1, <1>2
    <3>2. Min({n, k}) = k /\ Min({n - n, k}) = 0
      BY <2>2, <3>1
    <3> QED BY <2>4, <3>2
  <2>6. Manager!Verdict(Min({n, r}), Min({n - n, r}), t) = "accepted"
    <3>1. r \in 1..r /\ n - n = 0
      BY <1>1, <1>2
    <3>2. Min({n, r}) = r /\ Min({n - n, r}) = 0
      BY <2>2, <3>1
    <3> QED BY <2>3, <3>2
  <2> HIDE DEF n, r
  <2> QED BY <1>4, <2>1, <2>5, <2>6 DEF Accepted, n, r
<1> QED BY <1>3, <1>4

-----------------------------------------------------------------------------
(* Hive-mind commands: every step keeps the invariant.                      *)

\* Before any deployment there is no crew, and no review.
LEMMA HiveStarts == ASSUME NEW s, NEW t \in Reviews, NEW needed, HiveStart(s, t, needed) PROVE HiveInv
<1>1. IsFiniteSet(crew)
  BY FS_EmptySet DEF HiveStart
<1> QED BY <1>1 DEF HiveStart, HiveInv, CrewIsNamed, ReviewReflectsOutcome

\* A deployment takes names there are.
LEMMA DeploysKeeps == ASSUME HiveInv, Deploys PROVE HiveInv'
<1>1. CASE UNCHANGED crew
  <2> QED BY <1>1 DEF Deploys, HiveInv, CrewIsNamed, ReviewReflectsOutcome
<1>2. CASE ~UNCHANGED crew
  <2> DEFINE type == Head(orders)[1]
             new == NewAgents(type, Min({Head(orders)[2], Room}))
  <2>1. crew' = crew \cup new
    BY <1>2 DEF Deploys
  <2>2. new \subseteq {type} \X (1..MaxAgents)
    BY DEF NewAgents
  <2>3. IsFiniteSet({type} \X (1..MaxAgents))
    <3>1. IsFiniteSet(1..MaxAgents)
      BY HiveMindAssumption, FS_Interval
    <3>2. IsFiniteSet({type})
      BY FS_Singleton
    <3> QED BY <3>1, <3>2, FS_Product
  <2>4. IsFiniteSet(new)
    BY <2>2, <2>3, FS_Subset
  <2>5. \A a \in new : a \in {a[1]} \X (1..MaxAgents)
    BY <2>2
  <2> HIDE DEF new
  <2>6. IsFiniteSet(crew')
    BY <2>1, <2>4, FS_Union DEF HiveInv, CrewIsNamed
  <2>7. CrewIsNamed'
    BY <2>1, <2>5, <2>6 DEF Deploys, HiveInv, CrewIsNamed
  <2> QED BY <2>7 DEF Deploys, HiveInv, ReviewReflectsOutcome
<1> QED BY <1>1, <1>2

\* The review says what the vote decided on the outcome of the workflow that has ended.
LEMMA WorkflowReturnsKeeps == ASSUME HiveInv, WorkflowReturns PROVE HiveInv'
<1>1. CrewIsNamed'
  BY DEF WorkflowReturns, HiveInv, CrewIsNamed
<1>2. CASE UNCHANGED review
  BY <1>1, <1>2 DEF WorkflowReturns, HiveInv, ReviewReflectsOutcome
<1>3. CASE ~UNCHANGED review
  <2>1. /\ command' = "reviewing" /\ flow' = flow /\ flow = "ended" /\ outcome' = outcome
        /\ review' = <<[accepted |-> Accepted(outcome[1]), voters |-> Cardinality(Coordinators),
                        required |-> Manager!TermsNow.required]>>
    BY <1>3 DEF WorkflowReturns
  <2> DEFINE v == Cardinality(Coordinators)
             q == Manager!TermsNow.required
             a == Accepted(outcome[1])
  <2>2. review'[1].accepted = a /\ review'[1].voters = v /\ review'[1].required = q
    BY <2>1
  <2>3. (a => Decision(outcome[1])) /\ (Decision(outcome[1]) /\ v >= q => a)
    BY VoteFollowsOutcome DEF HiveInv
  <2> HIDE DEF v, q, a
  <2>4. ReviewReflectsOutcome'
    BY <2>1, <2>2, <2>3 DEF ReviewReflectsOutcome, Decision
  <2> QED BY <1>1, <2>1, <2>4 DEF HiveInv
<1> QED BY <1>2, <1>3

\* A step that leaves the review and the outcome alone, and no crew larger.
LEMMA ReviewStays ==
    ASSUME HiveInv, UNCHANGED <<policy, review, outcome>>, crew' \subseteq crew,
           review # <<>> => flow' = "ended" /\ command' \in {"reviewing", "over", "threw"}
    PROVE  HiveInv'
<1>1. CrewIsNamed'
  BY FS_Subset DEF HiveInv, CrewIsNamed
<1> QED BY <1>1 DEF HiveInv, ReviewReflectsOutcome

\* Every step of a command, its workflow and the agents around it.
LEMMA HiveStepKeeps == ASSUME HiveInv, HiveStep PROVE HiveInv'
<1>1. CASE Deploys
  BY <1>1, DeploysKeeps
<1>2. CASE Primes \/ StartsPlain
  BY <1>2, ReviewStays DEF HiveInv, Primes, StartsPlain
<1>3. CASE SetsUp
  BY <1>3, ReviewStays DEF HiveInv, SetsUp
<1>4. CASE Acts
  BY <1>4, ReviewStays DEF HiveInv, Acts
<1>5. CASE CrewStands
  BY <1>5, ReviewStays DEF HiveInv, CrewStands
<1>6. CASE Plans \/ TaskTimesOut
  BY <1>6, ReviewStays DEF HiveInv, Plans, TaskTimesOut
<1>7. CASE StagesEnd
  <2>1. review = <<>> /\ UNCHANGED <<policy, review, crew>>
    BY <1>7 DEF StagesEnd, HiveInv
  <2>2. CrewIsNamed'
    BY <2>1 DEF HiveInv, CrewIsNamed
  <2> QED BY <2>1, <2>2 DEF HiveInv, ReviewReflectsOutcome
<1>8. CASE WorkflowReturns
  BY <1>8, WorkflowReturnsKeeps
<1>9. CASE ReviewReturns
  BY <1>9, ReviewStays DEF HiveInv, ReviewReturns
<1>10. CASE TimerFires
  BY <1>10, ReviewStays DEF HiveInv, TimerFires
<1>11. CASE Retires
  BY <1>11, ReviewStays DEF HiveInv, Retires
<1>12. CASE Closes
  BY <1>12, ReviewStays DEF HiveInv, Closes
<1> QED BY <1>1, <1>2, <1>3, <1>4, <1>5, <1>6, <1>7, <1>8, <1>9, <1>10, <1>11, <1>12
        DEF HiveStep, HiveWork

-----------------------------------------------------------------------------
(* Sums of counts.                                                          *)

\* The function a fold over the elements of D is made from.
Summing(iter, f, D) ==
    iter = [s \in SUBSET D |-> IF s = {} THEN 0 ELSE LET x == CHOOSE x \in s : TRUE IN f[x] + iter[s \ {x}]]

\* The sum of a function is what its fold gives for the whole domain.
LEMMA SumIsFold == ASSUME NEW f PROVE SumFunction(f) = (CHOOSE iter : Summing(iter, f, DOMAIN f))[DOMAIN f]
BY Zenon DEF SumFunction, SumFunctionOnSet, FoldFunctionOnSet, MapThenFoldSet, Summing

\* One label more: the elements that have it are added.
LEMMA PartsAdd ==
    ASSUME NEW R, IsFiniteSet(R), NEW g, NEW s, NEW x \in s
    PROVE  Cardinality({r \in R : g[r] \in s}) =
              Cardinality({r \in R : g[r] = x}) + Cardinality({r \in R : g[r] \in s \ {x}})
<1> DEFINE A == {r \in R : g[r] = x}
           B == {r \in R : g[r] \in s \ {x}}
<1>1. IsFiniteSet(A) /\ IsFiniteSet(B)
  BY FS_Subset
<1>2. {r \in R : g[r] \in s} = A \cup B /\ A \cap B = {}
  OBVIOUS
<1>3. Cardinality(A \cap B) = 0
  BY <1>2, FS_EmptySet
<1>4. Cardinality(A) \in Nat /\ Cardinality(B) \in Nat
  BY <1>1, FS_CardinalityType
<1>5. Cardinality(A \cup B) = Cardinality(A) + Cardinality(B) - Cardinality(A \cap B)
  BY <1>1, FS_Union
<1> HIDE DEF A, B
<1>6. Cardinality(A \cup B) = Cardinality(A) + Cardinality(B)
  BY <1>3, <1>4, <1>5
<1> QED BY <1>2, <1>6 DEF A, B

\* The sum of the sizes of the parts of a finite set is its size.
LEMMA SumOfParts ==
    ASSUME NEW f, IsFiniteSet(DOMAIN f), NEW R, IsFiniteSet(R), NEW g,
           \A r \in R : g[r] \in DOMAIN f,
           \A x \in DOMAIN f : f[x] = Cardinality({r \in R : g[r] = x})
    PROVE  SumFunction(f) = Cardinality(R)
<1> DEFINE D == DOMAIN f
           Size(s) == Cardinality({r \in R : g[r] \in s})
           sizes == [s \in SUBSET D |-> Size(s)]
<1>1. ASSUME NEW s \in SUBSET D, s # {} PROVE Size(s) = f[CHOOSE x \in s : TRUE] + Size(s \ {CHOOSE x \in s : TRUE})
  <2> DEFINE x == CHOOSE x \in s : TRUE
  <2>1. x \in s
    BY <1>1
  <2>2. f[x] = Cardinality({r \in R : g[r] = x})
    BY <2>1
  <2> HIDE DEF x
  <2>3. Size(s) = f[x] + Size(s \ {x})
    BY <2>1, <2>2, PartsAdd
  <2> QED BY <2>3 DEF x
<1>2. Size({}) = 0
  BY FS_EmptySet
<1>3. Summing(sizes, f, D)
  <2>1. ASSUME NEW s \in SUBSET D
        PROVE  sizes[s] = IF s = {} THEN 0 ELSE LET x == CHOOSE x \in s : TRUE IN f[x] + sizes[s \ {x}]
    <3> HIDE DEF Size
    <3>1. CASE s = {}
      BY <1>2, <3>1
    <3>2. CASE s # {}
      <4>1. (s \ {CHOOSE x \in s : TRUE}) \in SUBSET D
        OBVIOUS
      <4> QED BY <1>1, <3>2, <4>1
    <3> QED BY <3>1, <3>2
  <2> HIDE DEF Size
  <2>2. sizes = [s \in SUBSET D |-> sizes[s]]
    OBVIOUS
  <2> HIDE DEF sizes
  <2>3. sizes = [s \in SUBSET D |-> IF s = {} THEN 0 ELSE LET x == CHOOSE x \in s : TRUE IN f[x] + sizes[s \ {x}]]
    BY <2>1, <2>2, Zenon
  <2> QED BY <2>3 DEF Summing
<1> DEFINE iter == CHOOSE iter : Summing(iter, f, D)
<1>4. Summing(iter, f, D)
  BY <1>3, Zenon
<1> HIDE DEF sizes, iter
<1>5. ASSUME NEW s \in SUBSET D PROVE iter[s] = IF s = {} THEN 0 ELSE LET x == CHOOSE x \in s : TRUE IN f[x] + iter[s \ {x}]
  BY <1>4, Zenon DEF Summing
<1> DEFINE Wrong(n) == \E s \in SUBSET D : Cardinality(s) = n /\ iter[s] # Size(s)
           T == {n \in Nat : Wrong(n)}
<1>6. T = {}
  <2> SUFFICES ASSUME T # {} PROVE FALSE
    OBVIOUS
  <2>1. PICK n \in T : \A k \in T : n <= k
    BY NatHasLeast
  <2>2. PICK s \in SUBSET D : Cardinality(s) = n /\ iter[s] # Size(s)
    BY <2>1
  <2>3. s # {}
    BY <2>2, <1>2, <1>5
  <2> DEFINE x == CHOOSE x \in s : TRUE
  <2>4. x \in s
    BY <2>3
  <2>5. IsFiniteSet(s)
    BY FS_Subset
  <2>6. IsFiniteSet(s \ {x}) /\ Cardinality(s \ {x}) = Cardinality(s) - 1
    BY <2>4, <2>5, FS_RemoveElement
  <2>7. iter[s] = f[x] + iter[s \ {x}]
    BY <1>5, <2>3
  <2>8. Size(s) = f[x] + Size(s \ {x})
    BY <1>1, <2>3
  <2> HIDE DEF x, Size
  <2>9. iter[s \ {x}] # Size(s \ {x})
    BY <2>2, <2>7, <2>8
  <2>10. (s \ {x}) \in SUBSET D /\ Cardinality(s \ {x}) \in Nat
    BY <2>6, FS_CardinalityType
  <2>11. Cardinality(s \ {x}) \in T
    BY <2>9, <2>10
  <2>12. n \in Nat
    BY <2>1
  <2>13. n <= Cardinality(s \ {x})
    BY <2>1, <2>11
  <2> HIDE DEF T, D
  <2> QED BY <2>2, <2>6, <2>10, <2>12, <2>13
<1>7. Cardinality(D) \in Nat
  BY FS_CardinalityType
<1>8. iter[D] = Size(D)
  <2> HIDE DEF Size
  <2> SUFFICES ASSUME iter[D] # Size(D) PROVE FALSE
    OBVIOUS
  <2>1. D \in SUBSET D /\ Cardinality(D) \in T
    BY <1>7
  <2> QED BY <2>1, <1>6
<1>9. {r \in R : g[r] \in D} = R
  OBVIOUS
<1>10. SumFunction(f) = iter[D]
  BY SumIsFold DEF iter
<1> QED BY <1>8, <1>9, <1>10

-----------------------------------------------------------------------------
(* Metrics: the inductive invariant.                                        *)

\* Two records of a plan that has one caller.
SamePlan(a, b) == IsPlan(a) /\ IsPlan(b) /\ a.data.key = b.data.key /\ a.data.key \notin SharedPlans

\* What a plan's caller has still to record of it replaces what comes before ...
JournalsFit ==
    \A v, w \in Writers : \A i \in 1..Len(journal[v]), k \in 1..Len(journal[w]) :
        SamePlan(journal[v][i], journal[w][k]) =>
            v = w /\ (i < k => Replaces(journal[w][k], journal[v][i]))
\* ... and what was recorded already.
EntriesFit ==
    \A id \in DOMAIN entries, w \in Writers : \A k \in 1..Len(journal[w]) :
        SamePlan(entries[id], journal[w][k]) => Replaces(journal[w][k], entries[id])
\* Unless a delete failed, a plan has one row at most, and none between its delete and its insert.
OneRow == \A id, other \in DOMAIN entries :
              SamePlan(entries[id], entries[other]) /\ entries[id].data.key \notin undeleted => id = other
Cleared ==
    \A w \in torn :
        /\ journal[w] # <<>> /\ IsPlan(journal[w][1])
        /\ journal[w][1].data.key \notin undeleted =>
              \A id \in DOMAIN entries : ~SamePlan(entries[id], journal[w][1])
\* The lists read so far are finite; the list of plans has each once, and the last three none but
\* the rows of the tenant asked for.
ListsFit ==
    /\ \E S : lists \in Seq(S)
    /\ Len(lists) <= 7 /\ \A i \in 1..Len(lists) : IsFiniteSet(DOMAIN lists[i])
    /\ Len(lists) = 7 =>
          \A id, other \in DOMAIN lists[7] :
              lists[7][id].data.key = lists[7][other].data.key /\ lists[7][id].data.key \notin undeleted \cup SharedPlans => id = other
    /\ withTenancy /\ scope # NoTenant =>
          \A i \in 3..Len(lists) : \A id \in DOMAIN lists[i] : lists[i][id].tenant \in {scope, NoTenant}
MetricsTypeOK ==
    /\ journal \in [Writers -> Seq(Recorded)] /\ torn \subseteq Writers
    /\ IsFiniteSet(DOMAIN entries)
MetricsInv == MetricsTypeOK /\ JournalsFit /\ EntriesFit /\ OneRow /\ Cleared /\ ListsFit

\* Nothing is stored and nothing read when the callers begin.
LEMMA MetricsStarts ==
    ASSUME NEW j \in Journals \cup {[w \in Writers |-> <<>>]}, NEW s, NEW mode, MetricsStart(j, s, mode)
    PROVE  MetricsInv
<1> USE DEF MetricsStart
<1>1. DOMAIN entries = {} /\ lists \in Seq({}) /\ Len(lists) = 0
  OBVIOUS
<1>2. j \in [Writers -> Seq(Recorded)]
  <2>1. [w \in Writers |-> <<>>] \in [Writers -> Seq(Recorded)]
    OBVIOUS
  <2> QED BY <2>1, JournalsAssumption
<1>3. MetricsTypeOK
  BY <1>1, <1>2, FS_EmptySet DEF MetricsTypeOK
<1>4. JournalsFit
  <2> SUFFICES ASSUME NEW v \in Writers, NEW w \in Writers, NEW i \in 1..Len(j[v]), NEW k \in 1..Len(j[w]),
                      SamePlan(j[v][i], j[w][k])
               PROVE  v = w /\ (i < k => Replaces(j[w][k], j[v][i]))
    BY DEF JournalsFit
  <2>0. i \in DOMAIN j[v] /\ k \in DOMAIN j[w]
    BY <1>2
  <2>1. j \in Journals
    <3> SUFFICES ASSUME j = [u \in Writers |-> <<>>] PROVE FALSE
      OBVIOUS
    <3>1. j[v] = <<>>
      OBVIOUS
    <3> QED BY <3>1
  <2>2. v = w
    <3> SUFFICES ASSUME v # w PROVE FALSE
      OBVIOUS
    <3>1. j[v][i].data.key \in PlansOf(j, v) /\ j[w][k].data.key \in PlansOf(j, w)
      BY <2>0 DEF PlansOf, SamePlan, Range
    <3>2. <<j, v, w>> \in {d \in Journals \X Writers \X Writers : d[2] # d[3]}
      BY <2>1
    <3>3. j[v][i].data.key \in SharedPlans
      BY <3>1, <3>2 DEF SharedPlans, SamePlan
    <3> QED BY <3>3 DEF SamePlan
  <2> QED BY <2>0, <2>1, <2>2, JournalsAssumption DEF SamePlan, Replaces, Same, IsPlan
<1>5. EntriesFit /\ OneRow /\ Cleared
  BY <1>1 DEF EntriesFit, OneRow, Cleared
<1>6. ListsFit
  BY <1>1 DEF ListsFit
<1> QED BY <1>3, <1>4, <1>5, <1>6 DEF MetricsInv

\* A plan's earlier rows are deleted, or the delete fails.
LEMMA DeletesKeeps == ASSUME MetricsInv, NEW w \in Writers, Deletes(w) PROVE MetricsInv'
<1> USE DEF MetricsInv
<1> DEFINE record == Head(journal[w])
           gone == {id \in DOMAIN entries : Replaces(record, entries[id])}
<1>1. /\ journal[w] # <<>> /\ w \notin torn /\ IsPlan(record)
      /\ torn' = torn \cup {w} /\ journal' = journal /\ lists' = lists
      /\ scope' = scope /\ withTenancy' = withTenancy
  BY DEF Deletes
<1>2. journal[w] \in Seq(Recorded)
  BY DEF MetricsTypeOK
<1>3. record = journal[w][1] /\ 1 \in 1..Len(journal[w])
  BY <1>1, <1>2
<1>4. \/ /\ DOMAIN entries' = DOMAIN entries \ gone /\ \A id \in DOMAIN entries' : entries'[id] = entries[id]
         /\ undeleted' = undeleted
      \/ undeleted' = undeleted \cup {record.data.key} /\ entries' = entries
  BY DEF Deletes, Restrict
<1> HIDE DEF record
<1>5. /\ DOMAIN entries' \subseteq DOMAIN entries /\ \A id \in DOMAIN entries' : entries'[id] = entries[id]
      /\ undeleted \subseteq undeleted'
  BY <1>4
<1> HIDE DEF gone
<1>6. MetricsTypeOK'
  BY <1>1, <1>5, FS_Subset DEF MetricsTypeOK
<1>7. JournalsFit'
  BY <1>1 DEF JournalsFit
<1>8. EntriesFit'
  BY <1>1, <1>5 DEF EntriesFit
<1>9. OneRow'
  BY <1>5 DEF OneRow
<1>10. Cleared'
  <2> SUFFICES ASSUME NEW v \in torn',
                      journal[v] # <<>> /\ IsPlan(journal[v][1])
                      => /\ journal[v][1].data.key \notin undeleted'
                         /\ \E id \in DOMAIN entries' : SamePlan(entries'[id], journal[v][1])
               PROVE FALSE
    BY <1>1 DEF Cleared
  <2>1. CASE v \in torn
    BY <2>1, <1>5 DEF Cleared
  <2>2. CASE v = w
    <3>1. PICK id \in DOMAIN entries' : SamePlan(entries'[id], record)
      BY <2>2, <1>1, <1>3
    <3>2. record.data.key \notin undeleted'
      BY <2>2, <1>1, <1>3
    <3>3. id \notin gone /\ entries'[id] = entries[id] /\ id \in DOMAIN entries
      BY <1>4, <3>1, <3>2
    <3>4. Replaces(record, entries[id])
      BY <3>1, <3>3, <1>3 DEF EntriesFit
    <3> QED BY <3>3, <3>4 DEF gone
  <2> QED BY <2>1, <2>2, <1>1
<1>11. ListsFit'
  BY <1>1, <1>5 DEF ListsFit
<1> QED BY <1>6, <1>7, <1>8, <1>9, <1>10, <1>11

\* What a caller records comes first in its journal, and after its delete when it is a plan.
LEMMA RecordsKeeps == ASSUME MetricsInv, NEW w \in Writers, Records(w) PROVE MetricsInv'
<1> USE DEF MetricsInv
<1> DEFINE record == Head(journal[w])
<1>1. /\ journal[w] # <<>> /\ (w \in torn <=> IsPlan(record))
      /\ journal' = [journal EXCEPT ![w] = Tail(@)] /\ torn' = torn \ {w}
      /\ undeleted' = undeleted /\ scope' = scope /\ withTenancy' = withTenancy /\ lists' = lists
  BY DEF Records
<1>2. /\ DOMAIN entries' = DOMAIN entries \cup {NextId}
      /\ \A id \in DOMAIN entries' : entries'[id] = IF id = NextId THEN record ELSE entries[id]
  BY DEF Records
<1>3. journal \in [Writers -> Seq(Recorded)] /\ journal[w] \in Seq(Recorded)
  BY DEF MetricsTypeOK
<1>4. record = journal[w][1] /\ 1 \in 1..Len(journal[w])
  BY <1>1, <1>3
<1>5. Tail(journal[w]) \in Seq(Recorded) /\ Len(Tail(journal[w])) = Len(journal[w]) - 1
      /\ \A k \in 1..Len(Tail(journal[w])) : Tail(journal[w])[k] = journal[w][k + 1]
  BY <1>1, <1>3
<1>6. journal' \in [Writers -> Seq(Recorded)]
  BY <1>1, <1>3, <1>5
<1> HIDE DEF record
\* Where a record stood before.
<1>7. ASSUME NEW v \in Writers, NEW k \in 1..Len(journal'[v])
      PROVE  LET n == IF v = w THEN k + 1 ELSE k IN n \in 1..Len(journal[v]) /\ journal'[v][k] = journal[v][n]
  <2>1. CASE v = w
    <3>1. journal'[v] = Tail(journal[w])
      BY <2>1, <1>1, <1>3
    <3>2. k \in 1..(Len(journal[w]) - 1) /\ Len(journal[w]) \in Nat
      BY <3>1, <1>3, <1>5
    <3> QED BY <2>1, <3>1, <3>2, <1>5
  <2>2. CASE v # w
    BY <2>2, <1>1, <1>3
  <2> QED BY <2>1, <2>2
<1>8. MetricsTypeOK'
  <2>1. IsFiniteSet(DOMAIN entries')
    BY <1>2, FS_AddElement DEF MetricsTypeOK
  <2> QED BY <1>1, <1>6, <2>1 DEF MetricsTypeOK
<1>9. JournalsFit'
  <2> SUFFICES ASSUME NEW v \in Writers, NEW u \in Writers, NEW i \in 1..Len(journal'[v]), NEW k \in 1..Len(journal'[u]),
                      SamePlan(journal'[v][i], journal'[u][k])
               PROVE  v = u /\ (i < k => Replaces(journal'[u][k], journal'[v][i]))
    BY DEF JournalsFit
  <2> DEFINE a == IF v = w THEN i + 1 ELSE i
             b == IF u = w THEN k + 1 ELSE k
  <2>1. a \in 1..Len(journal[v]) /\ journal'[v][i] = journal[v][a]
    BY <1>7
  <2>2. b \in 1..Len(journal[u]) /\ journal'[u][k] = journal[u][b]
    BY <1>7
  <2> HIDE DEF a, b
  <2>3. v = u /\ (a < b => Replaces(journal[u][b], journal[v][a]))
    BY <2>1, <2>2 DEF JournalsFit
  <2>4. i < k => a < b
    BY <2>3, <1>3, <1>6 DEF a, b
  <2> QED BY <2>1, <2>2, <2>3, <2>4
<1>10. EntriesFit'
  <2> SUFFICES ASSUME NEW id \in DOMAIN entries', NEW v \in Writers, NEW k \in 1..Len(journal'[v]),
                      SamePlan(entries'[id], journal'[v][k])
               PROVE  Replaces(journal'[v][k], entries'[id])
    BY DEF EntriesFit
  <2> DEFINE n == IF v = w THEN k + 1 ELSE k
  <2>1. n \in 1..Len(journal[v]) /\ journal'[v][k] = journal[v][n]
    BY <1>7
  <2>2. k >= 1
    BY <1>6
  <2> HIDE DEF n
  <2>3. CASE id = NextId
    <3>1. entries'[id] = journal[w][1]
      BY <2>3, <1>2, <1>4
    <3>2. w = v /\ (1 < n => Replaces(journal[v][n], journal[w][1]))
      BY <3>1, <2>1, <1>4 DEF JournalsFit
    <3>3. 1 < n
      BY <3>2, <2>2 DEF n
    <3> QED BY <3>1, <3>2, <3>3, <2>1
  <2>4. CASE id # NextId
    BY <2>1, <2>4, <1>2 DEF EntriesFit
  <2> QED BY <2>3, <2>4
<1>11. OneRow'
  <2> SUFFICES ASSUME NEW id \in DOMAIN entries', NEW other \in DOMAIN entries',
                      SamePlan(entries'[id], entries'[other]), entries'[id].data.key \notin undeleted, id # other
               PROVE  FALSE
    BY <1>1 DEF OneRow
  <2>1. ASSUME NEW x \in DOMAIN entries, SamePlan(entries[x], record), record.data.key \notin undeleted PROVE FALSE
    <3>1. w \in torn
      BY <2>1, <1>1 DEF SamePlan
    <3> QED BY <2>1, <3>1, <1>4 DEF Cleared
  <2>2. CASE id = NextId
    <3>1. entries'[id] = record /\ other \in DOMAIN entries /\ entries'[other] = entries[other]
      BY <2>2, <1>2
    <3> QED BY <2>1, <3>1 DEF SamePlan
  <2>3. CASE other = NextId
    <3>1. entries'[other] = record /\ id \in DOMAIN entries /\ entries'[id] = entries[id]
      BY <2>3, <1>2
    <3> QED BY <2>1, <3>1 DEF SamePlan
  <2>4. CASE id # NextId /\ other # NextId
    BY <2>4, <1>2 DEF OneRow
  <2> QED BY <2>2, <2>3, <2>4
<1>12. Cleared'
  <2> SUFFICES ASSUME NEW v \in torn'
               PROVE  /\ journal'[v] # <<>> /\ IsPlan(journal'[v][1])
                      /\ journal'[v][1].data.key \notin undeleted =>
                            \A id \in DOMAIN entries' : ~SamePlan(entries'[id], journal'[v][1])
    BY <1>1 DEF Cleared
  <2>1. v \in torn /\ v # w /\ v \in Writers /\ journal'[v] = journal[v]
    BY <1>1, <1>3 DEF MetricsTypeOK
  <2>2. journal[v] # <<>> /\ IsPlan(journal[v][1]) /\ journal[v] \in Seq(Recorded)
    BY <2>1, <1>3 DEF Cleared
  <2>3. ~SamePlan(record, journal[v][1])
    BY <2>1, <2>2, <1>4 DEF JournalsFit
  <2>4. ASSUME journal[v][1].data.key \notin undeleted, NEW id \in DOMAIN entries' PROVE ~SamePlan(entries'[id], journal[v][1])
    BY <2>1, <2>3, <2>4, <1>2 DEF Cleared
  <2> QED BY <2>1, <2>2, <2>4
<1>13. ListsFit'
  BY <1>1 DEF ListsFit
<1> QED BY <1>8, <1>9, <1>10, <1>11, <1>12, <1>13

\* The exporter reads a list of the rows there are.
LEMMA ExportsKeeps == ASSUME MetricsInv, Exports PROVE MetricsInv'
<1> USE DEF MetricsInv
<1> DEFINE n == Len(lists)
           t == IF n < 2 THEN NoTenant ELSE scope
           new == Newest(Spaces[n + 1], t)
<1>1. /\ n < 7 /\ lists' = Append(lists, new)
      /\ journal' = journal /\ torn' = torn /\ undeleted' = undeleted /\ entries' = entries
      /\ scope' = scope /\ withTenancy' = withTenancy
  BY DEF Exports, Spaces
<1>2. PICK S : lists \in Seq(S)
  BY DEF ListsFit
<1>3. /\ DOMAIN new \subseteq DOMAIN entries /\ IsFiniteSet(DOMAIN new)
      /\ \A id \in DOMAIN new : new[id] = entries[id] /\ new[id].space = Spaces[n + 1] /\ Visible(new[id], t)
  <2>1. DOMAIN new \subseteq DOMAIN entries
    BY DEF Newest, Restrict
  <2>2. IsFiniteSet(DOMAIN new)
    BY <2>1, FS_Subset DEF MetricsTypeOK
  <2>3. \A id \in DOMAIN new : new[id] = entries[id] /\ new[id].space = Spaces[n + 1] /\ Visible(new[id], t)
    BY DEF Newest, Restrict
  <2> QED BY <2>1, <2>2, <2>3
<1> HIDE DEF new
<1>4. lists' \in Seq(S \cup {new})
  <2>1. lists \in Seq(S \cup {new})
    BY <1>2
  <2> QED BY <1>1, <2>1
<1>5. n \in Nat /\ Len(lists') = n + 1 /\ lists'[n + 1] = new /\ \A i \in 1..n : lists'[i] = lists[i]
  BY <1>1, <1>2
<1>6. ListsFit'
  <2>1. \E X : lists' \in Seq(X)
    BY <1>4
  <2>2. ASSUME NEW i \in 1..Len(lists') PROVE i \in 1..n \/ i = n + 1
    BY <1>5
  <2>3. Len(lists') <= 7 /\ \A i \in 1..Len(lists') : IsFiniteSet(DOMAIN lists'[i])
    <3>1. \A i \in 1..Len(lists') : IsFiniteSet(DOMAIN lists'[i])
      BY <1>3, <1>5, <2>2 DEF ListsFit
    <3> QED BY <1>1, <1>5, <3>1
  <2>4. ASSUME n + 1 = 7, NEW id \in DOMAIN new, NEW other \in DOMAIN new,
               new[id].data.key = new[other].data.key, new[id].data.key \notin undeleted \cup SharedPlans
        PROVE  id = other
    <3>1. new[id] = entries[id] /\ new[other] = entries[other] /\ id \in DOMAIN entries /\ other \in DOMAIN entries
      BY <1>3
    <3>2. IsPlan(new[id]) /\ IsPlan(new[other])
      BY <1>3, <2>4 DEF IsPlan, Spaces
    <3> QED BY <2>4, <3>1, <3>2 DEF OneRow, SamePlan
  <2>5. ASSUME withTenancy /\ scope # NoTenant, n >= 2, NEW id \in DOMAIN new PROVE new[id].tenant \in {scope, NoTenant}
    BY <1>3, <1>5, <2>5 DEF Visible
  <2>6. ASSUME withTenancy /\ scope # NoTenant, NEW i \in 3..Len(lists'), NEW id \in DOMAIN lists'[i]
        PROVE  lists'[i][id].tenant \in {scope, NoTenant}
    <3>1. CASE i = n + 1
      BY <3>1, <1>5, <2>5, <2>6
    <3>2. CASE i \in 3..n
      <4>1. i \in 1..n
        BY <3>2, <1>5
      <4> QED BY <3>2, <4>1, <1>5, <2>6 DEF ListsFit
    <3> QED BY <3>1, <3>2, <1>5
  <2>7. Len(lists') = 7 =>
          \A id, other \in DOMAIN lists'[7] :
              lists'[7][id].data.key = lists'[7][other].data.key /\ lists'[7][id].data.key \notin undeleted \cup SharedPlans => id = other
    BY <1>5, <2>4
  <2> QED BY <1>1, <2>1, <2>3, <2>6, <2>7 DEF ListsFit
<1>7. MetricsTypeOK' /\ JournalsFit' /\ EntriesFit' /\ OneRow' /\ Cleared'
  BY <1>1 DEF MetricsTypeOK, JournalsFit, EntriesFit, OneRow, Cleared
<1> QED BY <1>6, <1>7

\* A step of a caller or of the exporter keeps the invariant.
LEMMA MetricsStepKeeps == ASSUME MetricsInv, MetricsStep PROVE MetricsInv'
BY DeletesKeeps, RecordsKeeps, ExportsKeeps DEF MetricsStep

-----------------------------------------------------------------------------
(* Metrics: what the invariant says of a report.                            *)

\* What a function on a finite set takes is finite.
LEMMA ImageIsFinite == ASSUME NEW S, IsFiniteSet(S), NEW g PROVE IsFiniteSet({g[x] : x \in S})
<1> DEFINE T == {g[x] : x \in S}
           f == [x \in S |-> g[x]]
<1>1. f \in Surjection(S, T)
  BY DEF Surjection
<1> QED BY <1>1, FS_Surjection

\* The rows of a list that was read are finitely many.
LEMMA RowsAreFinite == ASSUME MetricsInv, Exported, NEW i \in 1..7 PROVE IsFiniteSet(Rows(i))
<1>1. Len(lists) = 7 /\ IsFiniteSet(DOMAIN lists[i])
  BY DEF MetricsInv, ListsFit, Exported, Spaces
<1>2. Rows(i) = {i} \X DOMAIN lists[i]
  BY DEF Rows
<1>3. IsFiniteSet({i})
  BY FS_Singleton
<1>4. IsFiniteSet({i} \X DOMAIN lists[i])
  BY <1>1, <1>3, FS_Product
<1> QED BY <1>2, <1>4

\* What the tenants have of the rows of a list is what there is.
LEMMA TenantsAddUp ==
    ASSUME MetricsInv, Exported, NEW i \in 5..7, NEW Q, NEW f,
           DOMAIN f = TenantsIn(5) \cup TenantsIn(6) \cup TenantsIn(7),
           \A t \in DOMAIN f : f[t] = Cardinality({row \in Rows(i) : ResolveTenant(At(row)) = t /\ row \in Q})
    PROVE  SumFunction(f) = Cardinality({row \in Rows(i) : row \in Q})
<1>1. ASSUME NEW k \in 5..7 PROVE IsFiniteSet(Rows(k)) /\ IsFiniteSet(TenantsIn(k))
  <2>1. k \in 1..7
    OBVIOUS
  <2>2. IsFiniteSet(Rows(k))
    BY <2>1, RowsAreFinite
  <2> DEFINE g == [row \in Rows(k) |-> ResolveTenant(At(row))]
  <2>3. TenantsIn(k) = {g[row] : row \in Rows(k)}
    BY DEF TenantsIn
  <2> HIDE DEF g
  <2>4. IsFiniteSet(TenantsIn(k))
    BY <2>2, <2>3, ImageIsFinite
  <2> QED BY <2>2, <2>4
<1>2. IsFiniteSet(TenantsIn(5)) /\ IsFiniteSet(TenantsIn(6)) /\ IsFiniteSet(TenantsIn(7))
  BY <1>1
<1>3. IsFiniteSet(DOMAIN f)
  <2>1. IsFiniteSet(TenantsIn(5) \cup TenantsIn(6))
    BY <1>2, FS_Union
  <2>2. IsFiniteSet((TenantsIn(5) \cup TenantsIn(6)) \cup TenantsIn(7))
    BY <1>2, <2>1, FS_Union
  <2> QED BY <2>2
<1> DEFINE R == {row \in Rows(i) : row \in Q}
           g == [row \in R |-> ResolveTenant(At(row))]
<1>4. IsFiniteSet(R)
  BY <1>1, FS_Subset
<1>5. \A r \in R : g[r] \in DOMAIN f
  BY DEF TenantsIn
<1>6. ASSUME NEW t \in DOMAIN f PROVE f[t] = Cardinality({r \in R : g[r] = t})
  <2>1. {r \in R : g[r] = t} = {row \in Rows(i) : ResolveTenant(At(row)) = t /\ row \in Q}
    OBVIOUS
  <2> QED BY <2>1
<1> HIDE DEF R, g
<1>7. SumFunction(f) = Cardinality(R)
  BY <1>3, <1>4, <1>5, <1>6, SumOfParts
<1> QED BY <1>7 DEF R

\* The samples of a field that counts the rows in Q add up to the number of these.
LEMMA FieldAddsUp ==
    ASSUME MetricsInv, Exported, NEW i \in 5..7, NEW Q, NEW field,
           \A t \in DOMAIN PerTenant :
               PerTenant[t][field] = Cardinality({row \in Rows(i) : ResolveTenant(At(row)) = t /\ row \in Q})
    PROVE  Sums(PerTenant, field) = Cardinality({row \in Rows(i) : row \in Q})
<1> DEFINE f == [t \in DOMAIN PerTenant |-> PerTenant[t][field]]
<1>1. DOMAIN f = TenantsIn(5) \cup TenantsIn(6) \cup TenantsIn(7)
  BY DEF PerTenant
<1>2. \A t \in DOMAIN f : f[t] = Cardinality({row \in Rows(i) : ResolveTenant(At(row)) = t /\ row \in Q})
  OBVIOUS
<1>3. Sums(PerTenant, field) = SumFunction(f)
  BY DEF Sums
<1> HIDE DEF f
<1>4. SumFunction(f) = Cardinality({row \in Rows(i) : row \in Q})
  BY <1>1, <1>2, TenantsAddUp
<1> QED BY <1>3, <1>4

\* The samples per tenant add up to the totals.
LEMMA PerTenantAddsUp ==
    ASSUME MetricsInv, Exported,
           NEW field \in {"tools", "successes", "failures", "accepted", "rejected", "runs", "completed", "failed"}
    PROVE  Sums(PerTenant, field) = Totals[field]
<1>1. CASE field = "tools"
  <2> DEFINE Q == Rows(6)
  <2>1. \A t \in DOMAIN PerTenant :
            PerTenant[t][field] = Cardinality({row \in Rows(6) : ResolveTenant(At(row)) = t /\ row \in Q})
    BY <1>1 DEF PerTenant, CountFor
  <2>2. Totals[field] = Cardinality({row \in Rows(6) : row \in Q})
    BY <1>1 DEF Totals, Count
  <2> HIDE DEF Q
  <2>3. 6 \in 5..7
    OBVIOUS
  <2>4. Sums(PerTenant, field) = Cardinality({row \in Rows(6) : row \in Q})
    BY <2>1, <2>3, FieldAddsUp, Zenon
  <2> QED BY <2>2, <2>4
<1>2. CASE field = "successes"
  <2> DEFINE Q == {row \in Rows(6) : At(row).data.success}
  <2>1. \A t \in DOMAIN PerTenant :
            PerTenant[t][field] = Cardinality({row \in Rows(6) : ResolveTenant(At(row)) = t /\ row \in Q})
    BY <1>2 DEF PerTenant, CountFor
  <2>2. Totals[field] = Cardinality({row \in Rows(6) : row \in Q})
    BY <1>2 DEF Totals, Count
  <2> HIDE DEF Q
  <2>3. 6 \in 5..7
    OBVIOUS
  <2>4. Sums(PerTenant, field) = Cardinality({row \in Rows(6) : row \in Q})
    BY <2>1, <2>3, FieldAddsUp, Zenon
  <2> QED BY <2>2, <2>4
<1>3. CASE field = "failures"
  <2> DEFINE Q == {row \in Rows(6) : ~At(row).data.success}
  <2>1. \A t \in DOMAIN PerTenant :
            PerTenant[t][field] = Cardinality({row \in Rows(6) : ResolveTenant(At(row)) = t /\ row \in Q})
    BY <1>3 DEF PerTenant, CountFor
  <2>2. Totals[field] = Cardinality({row \in Rows(6) : row \in Q})
    BY <1>3 DEF Totals, Count
  <2> HIDE DEF Q
  <2>3. 6 \in 5..7
    OBVIOUS
  <2>4. Sums(PerTenant, field) = Cardinality({row \in Rows(6) : row \in Q})
    BY <2>1, <2>3, FieldAddsUp, Zenon
  <2> QED BY <2>2, <2>4
<1>4. CASE field = "accepted"
  <2> DEFINE Q == {row \in Rows(5) : At(row).data.accepted}
  <2>1. \A t \in DOMAIN PerTenant :
            PerTenant[t][field] = Cardinality({row \in Rows(5) : ResolveTenant(At(row)) = t /\ row \in Q})
    BY <1>4 DEF PerTenant, CountFor
  <2>2. Totals[field] = Cardinality({row \in Rows(5) : row \in Q})
    BY <1>4 DEF Totals, Count
  <2> HIDE DEF Q
  <2>3. 5 \in 5..7
    OBVIOUS
  <2>4. Sums(PerTenant, field) = Cardinality({row \in Rows(5) : row \in Q})
    BY <2>1, <2>3, FieldAddsUp, Zenon
  <2> QED BY <2>2, <2>4
<1>5. CASE field = "rejected"
  <2> DEFINE Q == {row \in Rows(5) : ~At(row).data.accepted}
  <2>1. \A t \in DOMAIN PerTenant :
            PerTenant[t][field] = Cardinality({row \in Rows(5) : ResolveTenant(At(row)) = t /\ row \in Q})
    BY <1>5 DEF PerTenant, CountFor
  <2>2. Totals[field] = Cardinality({row \in Rows(5) : row \in Q})
    BY <1>5 DEF Totals, Count
  <2> HIDE DEF Q
  <2>3. 5 \in 5..7
    OBVIOUS
  <2>4. Sums(PerTenant, field) = Cardinality({row \in Rows(5) : row \in Q})
    BY <2>1, <2>3, FieldAddsUp, Zenon
  <2> QED BY <2>2, <2>4
<1>6. CASE field = "runs"
  <2> DEFINE Q == Rows(7)
  <2>1. \A t \in DOMAIN PerTenant :
            PerTenant[t][field] = Cardinality({row \in Rows(7) : ResolveTenant(At(row)) = t /\ row \in Q})
    BY <1>6 DEF PerTenant, CountFor
  <2>2. Totals[field] = Cardinality({row \in Rows(7) : row \in Q})
    BY <1>6 DEF Totals, Count
  <2> HIDE DEF Q
  <2>3. 7 \in 5..7
    OBVIOUS
  <2>4. Sums(PerTenant, field) = Cardinality({row \in Rows(7) : row \in Q})
    BY <2>1, <2>3, FieldAddsUp, Zenon
  <2> QED BY <2>2, <2>4
<1>7. CASE field = "completed"
  <2> DEFINE Q == {row \in Rows(7) : At(row).data.status = "completed"}
  <2>1. \A t \in DOMAIN PerTenant :
            PerTenant[t][field] = Cardinality({row \in Rows(7) : ResolveTenant(At(row)) = t /\ row \in Q})
    BY <1>7 DEF PerTenant, CountFor
  <2>2. Totals[field] = Cardinality({row \in Rows(7) : row \in Q})
    BY <1>7 DEF Totals, Count
  <2> HIDE DEF Q
  <2>3. 7 \in 5..7
    OBVIOUS
  <2>4. Sums(PerTenant, field) = Cardinality({row \in Rows(7) : row \in Q})
    BY <2>1, <2>3, FieldAddsUp, Zenon
  <2> QED BY <2>2, <2>4
<1>8. CASE field = "failed"
  <2> DEFINE Q == {row \in Rows(7) : At(row).data.status = "failed"}
  <2>1. \A t \in DOMAIN PerTenant :
            PerTenant[t][field] = Cardinality({row \in Rows(7) : ResolveTenant(At(row)) = t /\ row \in Q})
    BY <1>8 DEF PerTenant, CountFor
  <2>2. Totals[field] = Cardinality({row \in Rows(7) : row \in Q})
    BY <1>8 DEF Totals, Count
  <2> HIDE DEF Q
  <2>3. 7 \in 5..7
    OBVIOUS
  <2>4. Sums(PerTenant, field) = Cardinality({row \in Rows(7) : row \in Q})
    BY <2>1, <2>3, FieldAddsUp, Zenon
  <2> QED BY <2>2, <2>4
<1> QED BY <1>1, <1>2, <1>3, <1>4, <1>5, <1>6, <1>7, <1>8

\* The samples per tool add up to the totals of the tools.
LEMMA PerToolAddsUp ==
    ASSUME MetricsInv, Exported
    PROVE  Sums(ToolBreakdown, "total") = Totals.tools /\ Sums(ToolBreakdown, "success") = Totals.successes
<1> DEFINE all == Rows(6)
           label == [row \in all |-> At(row).data.tool]
           total == [tool \in DOMAIN ToolBreakdown |-> ToolBreakdown[tool].total]
           success == [tool \in DOMAIN ToolBreakdown |-> ToolBreakdown[tool].success]
           good == {row \in all : At(row).data.success}
<1>1. IsFiniteSet(all) /\ IsFiniteSet(good)
  BY RowsAreFinite, FS_Subset
<1>2. DOMAIN ToolBreakdown = {label[row] : row \in all}
  BY DEF ToolBreakdown
<1>3. \A tool \in DOMAIN ToolBreakdown :
          /\ total[tool] = Cardinality({row \in all : label[row] = tool})
          /\ success[tool] = Cardinality({row \in good : label[row] = tool})
  <2> TAKE tool \in DOMAIN ToolBreakdown
  <2>1. {row \in all : label[row] = tool} = {row \in all : At(row).data.tool = tool}
    OBVIOUS
  <2>2. {row \in good : label[row] = tool} = {row \in all : At(row).data.tool = tool /\ At(row).data.success}
    OBVIOUS
  <2>3. ToolBreakdown[tool].total = Cardinality({row \in all : At(row).data.tool = tool})
    BY DEF ToolBreakdown, Count
  <2>4. ToolBreakdown[tool].success = Cardinality({row \in all : At(row).data.tool = tool /\ At(row).data.success})
    BY DEF ToolBreakdown, Count
  <2> QED BY <2>1, <2>2, <2>3, <2>4
<1>4. Totals.tools = Cardinality(all) /\ Totals.successes = Cardinality(good)
  BY DEF Totals, Count
<1>5. Sums(ToolBreakdown, "total") = SumFunction(total) /\ Sums(ToolBreakdown, "success") = SumFunction(success)
  BY DEF Sums
<1>6. DOMAIN total = DOMAIN ToolBreakdown /\ DOMAIN success = DOMAIN ToolBreakdown
  OBVIOUS
<1>7. /\ \A row \in all : label[row] \in DOMAIN total
      /\ \A row \in good : label[row] \in DOMAIN success
      /\ \A tool \in DOMAIN total : total[tool] = Cardinality({row \in all : label[row] = tool})
      /\ \A tool \in DOMAIN success : success[tool] = Cardinality({row \in good : label[row] = tool})
  BY <1>2, <1>3, <1>6
<1> HIDE DEF all, label, total, success, good
<1>8. IsFiniteSet(DOMAIN total) /\ IsFiniteSet(DOMAIN success)
  BY <1>1, <1>2, <1>6, ImageIsFinite
<1>9. SumFunction(total) = Cardinality(all)
  BY <1>1, <1>7, <1>8, SumOfParts, Zenon
<1>10. SumFunction(success) = Cardinality(good)
  BY <1>1, <1>7, <1>8, SumOfParts, Zenon
<1> QED BY <1>4, <1>5, <1>9, <1>10

\* The samples per plan type and status add up to the total of the plans.
LEMMA PerTypeAddsUp == ASSUME MetricsInv, Exported PROVE SumFunction(PlanStatus) = Totals.runs
<1> DEFINE label == [row \in Rows(7) |-> <<At(row).data.type, At(row).data.status>>]
<1>1. IsFiniteSet(Rows(7))
  BY RowsAreFinite
<1>2. DOMAIN PlanStatus = {label[row] : row \in Rows(7)}
  BY DEF PlanStatus
<1>3. \A x \in DOMAIN PlanStatus : PlanStatus[x] = Cardinality({row \in Rows(7) : label[row] = x})
  <2> TAKE x \in DOMAIN PlanStatus
  <2>1. {row \in Rows(7) : label[row] = x} = {row \in Rows(7) : <<At(row).data.type, At(row).data.status>> = x}
    OBVIOUS
  <2>2. PlanStatus[x] = Cardinality({row \in Rows(7) : <<At(row).data.type, At(row).data.status>> = x})
    BY DEF PlanStatus, Count
  <2> QED BY <2>1, <2>2
<1>4. Totals.runs = Cardinality(Rows(7))
  BY DEF Totals
<1> HIDE DEF label
<1>5. IsFiniteSet(DOMAIN PlanStatus)
  BY <1>1, <1>2, ImageIsFinite
<1>6. SumFunction(PlanStatus) = Cardinality(Rows(7))
  BY <1>1, <1>2, <1>3, <1>5, SumOfParts
<1> QED BY <1>4, <1>6

\* What the invariant says of the reads is what the report promises.
LEMMA MetricsInvImplies == MetricsInv => ReportAddsUp /\ ScopeHoldsWithTenancy
<1> SUFFICES ASSUME MetricsInv, Exported
             PROVE  /\ \A plan \in {At(row).data.key : row \in Rows(7)} \ (undeleted \cup SharedPlans) : Count(7, LAMBDA d : d.key = plan) = 1
                    /\ withTenancy /\ scope # NoTenant => DOMAIN PerTenant \subseteq {scope, System}
  BY PerTenantAddsUp, PerToolAddsUp, PerTypeAddsUp DEF ReportAddsUp, ScopeHoldsWithTenancy, ScopeHolds
<1>1. Len(lists) = 7
  BY DEF Exported, Spaces
<1>2. ASSUME NEW plan \in {At(row).data.key : row \in Rows(7)} \ (undeleted \cup SharedPlans) PROVE Count(7, LAMBDA d : d.key = plan) = 1
  <2>1. PICK id \in DOMAIN lists[7] : plan = lists[7][id].data.key
    BY DEF Rows, At
  <2>2. ASSUME NEW other \in DOMAIN lists[7], lists[7][other].data.key = plan PROVE other = id
    BY <1>1, <2>1, <2>2 DEF MetricsInv, ListsFit
  <2>3. {row \in Rows(7) : At(row).data.key = plan} = {<<7, id>>}
    BY <2>1, <2>2 DEF Rows, At
  <2> QED BY <2>3, FS_Singleton DEF Count
<1>3. ASSUME withTenancy /\ scope # NoTenant, NEW t \in DOMAIN PerTenant PROVE t \in {scope, System}
  <2>1. PICK i \in 5..7 : \E row \in Rows(i) : t = ResolveTenant(At(row))
    <3>1. t \in TenantsIn(5) \/ t \in TenantsIn(6) \/ t \in TenantsIn(7)
      BY DEF PerTenant
    <3> QED BY <3>1 DEF TenantsIn
  <2>2. PICK id \in DOMAIN lists[i] : t = ResolveTenant(lists[i][id])
    BY <2>1 DEF Rows, At
  <2>3. lists[i][id].tenant \in {scope, NoTenant}
    BY <1>1, <1>3 DEF MetricsInv, ListsFit
  <2> QED BY <2>2, <2>3 DEF ResolveTenant
<1> QED BY <1>2, <1>3

-----------------------------------------------------------------------------
(* Usage of the hosted models.                                              *)

EndOf(part, whole) ==
    /\ Len(part) = IF Len(whole) <= MaxEvents THEN Len(whole) ELSE MaxEvents
    /\ \A i \in 1..Len(part) : part[i] = whole[Len(whole) - Len(part) + i]
OneMore(s, longer, e) ==
    /\ Len(s) \in Nat /\ Len(longer) = Len(s) + 1 /\ longer[Len(s) + 1] = e
    /\ \A i \in 1..Len(s) : longer[i] = s[i]
UsageInv ==
    /\ now \in Nat /\ asked \in [Calls -> Nat]
    /\ events \in Seq(Nat) /\ log \in Seq(Nat) /\ requests = Len(log)
    /\ EndOf(events, log)

\* Nothing was used before the first call.
LEMMA UsageStarts == ASSUME NEW k, NEW r, NEW t, BackendStart(k, r, t) PROVE UsageInv
<1>1. MaxEvents \in Nat
  BY ModelBackendAssumption
<1> QED BY <1>1 DEF BackendStart, UsageInv, EndOf

\* What is cut off the front of a sequence of times that got one more.
LEMMA TrimmedEnds ==
    ASSUME NEW s \in Seq(Nat), s # <<>>
    PROVE  Trimmed(s) \in Seq(Nat) /\ EndOf(Trimmed(s), s)
<1>1. MaxEvents \in Nat /\ MaxEvents >= 1 /\ Len(s) \in Nat /\ Len(s) >= 1
  BY ModelBackendAssumption
<1> DEFINE a == Max({1, Len(s) - MaxEvents + 1})
           first == IF Len(s) <= MaxEvents THEN 1 ELSE Len(s) - MaxEvents + 1
<1>2. a = first
  <2>1. first \in {1, Len(s) - MaxEvents + 1} /\ \A y \in {1, Len(s) - MaxEvents + 1} : first >= y
    BY <1>1
  <2>2. a \in {1, Len(s) - MaxEvents + 1} /\ \A y \in {1, Len(s) - MaxEvents + 1} : a >= y
    BY <2>1, Zenon DEF Max
  <2> QED BY <1>1, <2>1, <2>2
<1> HIDE DEF a
<1>3. first \in 1..Len(s)
  BY <1>1
<1>4. Trimmed(s) = SubSeq(s, first, Len(s))
  BY <1>2 DEF Trimmed, a
<1> HIDE DEF first
<1>5. /\ SubSeq(s, first, Len(s)) \in Seq(Nat) /\ Len(SubSeq(s, first, Len(s))) = Len(s) - first + 1
      /\ \A i \in 1..(Len(s) - first + 1) : SubSeq(s, first, Len(s))[i] = s[first + i - 1]
  BY <1>1, <1>3
<1>6. Len(Trimmed(s)) = Len(s) - first + 1 /\ Len(s) - first + 1 = IF Len(s) <= MaxEvents THEN Len(s) ELSE MaxEvents
  <2>1. Len(s) - first + 1 = IF Len(s) <= MaxEvents THEN Len(s) ELSE MaxEvents
    BY <1>1 DEF first
  <2> QED BY <1>4, <1>5, <2>1
<1>7. ASSUME NEW i \in 1..Len(Trimmed(s)) PROVE Trimmed(s)[i] = s[Len(s) - Len(Trimmed(s)) + i]
  <2>1. Len(s) - Len(Trimmed(s)) + i = first + i - 1
    BY <1>1, <1>3, <1>6
  <2> QED BY <1>4, <1>5, <1>6, <2>1
<1>8. Trimmed(s) \in Seq(Nat)
  BY <1>4, <1>5
<1>9. Len(Trimmed(s)) = IF Len(s) <= MaxEvents THEN Len(s) ELSE MaxEvents
  BY <1>6
<1> QED BY <1>7, <1>8, <1>9 DEF EndOf

\* What appending to a sequence of times makes of it.
LEMMA Appended == ASSUME NEW q \in Seq(Nat), NEW e \in Nat PROVE Append(q, e) \in Seq(Nat) /\ OneMore(q, Append(q, e), e)
<1>1. Append(q, e) \in Seq(Nat) /\ Len(q) \in Nat /\ Len(Append(q, e)) = Len(q) + 1
  OBVIOUS
<1>2. Append(q, e)[Len(q) + 1] = e
  OBVIOUS
<1>3. \A i \in 1..Len(q) : Append(q, e)[i] = q[i]
  OBVIOUS
<1> QED BY <1>1, <1>2, <1>3 DEF OneMore

\* The numbers of rows that are kept, before and after one more.
LEMMA ShiftBounds ==
    ASSUME NEW a \in Nat, NEW b \in Nat, NEW d, NEW M \in Nat, M >= 1, a = (IF b <= M THEN b ELSE M),
           d = (IF a + 1 <= M THEN a + 1 ELSE M)
    PROVE  /\ d = (IF b + 1 <= M THEN b + 1 ELSE M) /\ d \in Nat /\ d <= a + 1 /\ a <= b
OBVIOUS

\* Where a row that is kept was before one more was made.
LEMMA ShiftIndex ==
    ASSUME NEW a \in Nat, NEW b \in Nat, NEW d \in Nat, d <= a + 1, a <= b, NEW i \in 1..d
    PROVE  /\ i = d => (a + 1) - d + i = a + 1 /\ (b + 1) - d + i = b + 1
           /\ i # d => /\ (a + 1) - d + i \in 1..a /\ b - a + ((a + 1) - d + i) \in 1..b
                       /\ (b + 1) - d + i = b - a + ((a + 1) - d + i)
OBVIOUS

\* A list that holds the last of a longer one still does when both get one more and it drops its oldest.
LEMMA TailsShift ==
    ASSUME NEW old, NEW all, NEW s, NEW t, NEW more, NEW e, EndOf(old, all), EndOf(t, s),
           OneMore(old, s, e), OneMore(all, more, e)
    PROVE  EndOf(t, more)
<1> DEFINE M == MaxEvents
<1>0. M \in Nat /\ M >= 1
  BY ModelBackendAssumption
<1> HIDE DEF M
<1>1. PICK a, b, d : a = Len(old) /\ b = Len(all) /\ d = Len(t)
  OBVIOUS
<1>2. Len(s) = a + 1 /\ Len(more) = b + 1 /\ s[a + 1] = e /\ more[b + 1] = e
  BY <1>1 DEF OneMore
<1>11. a \in Nat /\ b \in Nat
  BY <1>1 DEF OneMore
<1>3. a = (IF b <= M THEN b ELSE M) /\ d = (IF a + 1 <= M THEN a + 1 ELSE M)
  BY <1>1, <1>2 DEF EndOf, M
<1>4. d = (IF b + 1 <= M THEN b + 1 ELSE M) /\ d \in Nat /\ d <= a + 1 /\ a <= b
  BY <1>0, <1>3, <1>11, ShiftBounds
<1>12. d \in Nat /\ d <= a + 1 /\ a <= b
  BY <1>4
<1>5. \A i \in 1..a : old[i] = all[b - a + i] /\ s[i] = old[i]
  BY <1>1 DEF EndOf, OneMore
<1>6. \A i \in 1..b : more[i] = all[i]
  BY <1>1 DEF OneMore
<1>7. ASSUME NEW i \in 1..d PROVE t[i] = s[(a + 1) - d + i]
  BY <1>1, <1>2 DEF EndOf
<1>8. ASSUME NEW i \in 1..d PROVE t[i] = more[(b + 1) - d + i]
  <2>1. t[i] = s[(a + 1) - d + i]
    BY <1>7
  <2>2. CASE i = d
    <3>1. (a + 1) - d + i = a + 1 /\ (b + 1) - d + i = b + 1
      BY <1>11, <1>12, <2>2, ShiftIndex
    <3> QED BY <1>2, <2>1, <3>1
  <2>3. CASE i # d
    <3>1. PICK k : k = (a + 1) - d + i
      OBVIOUS
    <3>2. k \in 1..a /\ b - a + k \in 1..b /\ (b + 1) - d + i = b - a + k
      BY <1>11, <1>12, <2>3, <3>1, ShiftIndex
    <3>3. s[k] = old[k] /\ old[k] = all[b - a + k]
      BY <1>5, <3>2
    <3>4. more[b - a + k] = all[b - a + k]
      BY <1>6, <3>2
    <3> QED BY <2>1, <3>1, <3>2, <3>3, <3>4
  <2> QED BY <2>2, <2>3
<1>9. ASSUME NEW i \in 1..Len(t) PROVE t[i] = more[Len(more) - Len(t) + i]
  <2>1. t[i] = more[(b + 1) - d + i]
    BY <1>1, <1>8
  <2> QED BY <1>1, <1>2, <2>1
<1>10. Len(t) = IF Len(more) <= MaxEvents THEN Len(more) ELSE MaxEvents
  BY <1>1, <1>2, <1>4 DEF M
<1> QED BY <1>9, <1>10 DEF EndOf

\* Every call that is answered is counted and kept until newer ones push it out.
LEMMA AnswersCounts ==
    ASSUME UsageInv, NEW created \in Nat, events' = Trimmed(Append(events, created)), log' = Append(log, created),
           requests' = requests + 1, UNCHANGED <<now, asked>>
    PROVE  UsageInv'
<1>1. events \in Seq(Nat) /\ log \in Seq(Nat) /\ EndOf(events, log) /\ requests = Len(log)
  BY DEF UsageInv
<1>2. PICK s : s = Append(events, created)
  OBVIOUS
<1>3. s \in Seq(Nat) /\ OneMore(events, s, created)
  BY <1>1, <1>2, Appended
<1>4. PICK more : more = Append(log, created)
  OBVIOUS
<1>5. more \in Seq(Nat) /\ OneMore(log, more, created)
  BY <1>1, <1>4, Appended
<1>6. PICK t : t = Trimmed(s)
  OBVIOUS
<1>7. s # <<>>
  BY <1>1, <1>2
<1>8. t \in Seq(Nat) /\ EndOf(t, s)
  BY <1>3, <1>6, <1>7, TrimmedEnds
<1>9. EndOf(t, more)
  BY <1>1, <1>3, <1>5, <1>8, TailsShift
<1>10. events' = t /\ log' = more /\ requests' = Len(more)
  BY <1>1, <1>2, <1>4, <1>5, <1>6 DEF OneMore
<1>11. now' \in Nat /\ asked' \in [Calls -> Nat]
  BY DEF UsageInv
<1> QED BY <1>5, <1>8, <1>9, <1>10, <1>11 DEF UsageInv, EndOf

\* A step that leaves what was counted alone, whatever else it does.
LEMMA UsageStays ==
    ASSUME UsageInv, UNCHANGED <<events, requests, log>>, now' \in Nat, asked' \in [Calls -> Nat] PROVE UsageInv'
BY DEF UsageInv, EndOf

\* Only an answer is counted.
LEMMA UsageStepKeeps == ASSUME UsageInv, BackendStep PROVE UsageInv'
<1>0. now \in Nat /\ asked \in [Calls -> Nat]
  BY DEF UsageInv
<1>1. CASE Boots \/ KeyRevoked
  BY <1>0, <1>1, UsageStays DEF Boots, KeyRevoked
<1>2. CASE Ticks
  BY <1>0, <1>2, UsageStays DEF Ticks
<1>3. ASSUME NEW c \in Calls, Begins(c) \/ Lists(c) \/ Schedules(c) PROVE UsageInv'
  BY <1>0, <1>3, UsageStays DEF Begins, Lists, Schedules
<1>4. ASSUME NEW c \in Calls, Reaches(c) PROVE UsageInv'
  <2>1. UNCHANGED <<now, events, requests, log>> /\ (asked' = asked \/ asked' = [asked EXCEPT ![c] = now])
    BY <1>4 DEF Reaches, Asks
  <2> QED BY <1>0, <2>1, UsageStays
<1>5. ASSUME NEW c \in Calls, Hears(c) PROVE UsageInv'
  <2>1. UNCHANGED <<now, events, requests, log>> /\ asked' = [asked EXCEPT ![c] = now]
    BY <1>5 DEF Hears, Asks
  <2> QED BY <1>0, <2>1, UsageStays
<1>6. ASSUME NEW c \in Calls, Answers(c) PROVE UsageInv'
  <2>1. CASE UNCHANGED <<events, log, requests>>
    BY <1>0, <1>6, <2>1, UsageStays DEF Answers
  <2>2. CASE ~UNCHANGED <<events, log, requests>>
    <3>1. PICK created \in asked[c]..now : events' = Trimmed(Append(events, created)) /\ log' = Append(log, created)
      BY <1>6, <2>2 DEF Answers
    <3>2. requests' = requests + 1 /\ UNCHANGED <<now, asked>>
      BY <1>6, <2>2 DEF Answers
    <3>3. created \in Nat
      BY <1>0, <3>1
    <3> QED BY <3>1, <3>2, <3>3, AnswersCounts
  <2> QED BY <2>1, <2>2
<1> QED BY <1>1, <1>2, <1>3, <1>4, <1>5, <1>6 DEF BackendStep, CallStep

\* What is kept are the newest calls, and what is counted of them were made within the window.
LEMMA UsageInvImplies == ASSUME UsageInv PROVE UsageIsCounted
<1> DEFINE n == Len(events)
           m == Len(log)
<1>1. /\ events \in Seq(Nat) /\ log \in Seq(Nat) /\ n \in Nat /\ m \in Nat /\ now \in Nat
      /\ n = (IF m <= MaxEvents THEN m ELSE MaxEvents) /\ MaxEvents \in Nat /\ Window \in Nat /\ requests = m
      /\ DOMAIN events = 1..n /\ \A i \in 1..n : events[i] \in Nat
  BY ModelBackendAssumption DEF UsageInv, EndOf
<1>0. \A i \in 1..n : events[i] = log[m - n + i]
  BY DEF UsageInv, EndOf
<1>2. IsSuffix(events, log)
  <2> DEFINE r == Reverse(events)
             q == Reverse(log)
  <2>1. r = [i \in 1..n |-> events[n - i + 1]] /\ q = [i \in 1..m |-> log[m - i + 1]]
    BY DEF Reverse
  <2> HIDE DEF r, q
  <2>2. r \in Seq(Nat) /\ Len(r) = n /\ q \in Seq(Nat) /\ Len(q) = m
    <3>3. /\ \A i \in 1..n : events[i] \in Nat
          /\ \A i \in 1..m : log[i] \in Nat
      BY <1>1
    <3>4. n \in Nat /\ m \in Nat
      BY <1>1
    <3>5. /\ \A i \in 1..n : n - i + 1 \in 1..n
          /\ \A i \in 1..m : m - i + 1 \in 1..m
      <4> HIDE DEF n, m
      <4> QED BY <3>4
    <3>1. /\ \A i \in 1..n : events[n - i + 1] \in Nat
          /\ \A i \in 1..m : log[m - i + 1] \in Nat
      <4> HIDE DEF n, m
      <4> QED BY <3>3, <3>5
    <3>2. r \in [1..n -> Nat] /\ q \in [1..m -> Nat]
      BY <2>1, <3>1
    <3> HIDE DEF n, m
    <3> QED BY <1>1, <2>1, <3>2
  <2> HIDE DEF n, m
  <2>3. ASSUME NEW i \in 1..n PROVE r[i] = q[i]
    <3>1. n - i + 1 \in 1..n /\ m - n + (n - i + 1) = m - i + 1 /\ i \in 1..m
      BY <1>1
    <3>2. events[n - i + 1] = log[m - n + (n - i + 1)]
      BY <1>0, <3>1
    <3> QED BY <2>1, <3>1, <3>2
  <2>4. SubSeq(r, 1, n) = SubSeq(q, 1, n)
    <3>1. SubSeq(r, 1, n) = [i \in 1..n |-> r[i]] /\ SubSeq(q, 1, n) = [i \in 1..n |-> q[i]]
      BY <1>1, <2>2
    <3> QED BY <2>3, <3>1
  <2>5. n <= m
    BY <1>1
  <2> QED BY <2>2, <2>4, <2>5 DEF IsSuffix, IsPrefix, r, q
<1> HIDE DEF n, m
<1>3. n = Min({m, MaxEvents})
  <2>1. n \in {m, MaxEvents} /\ \A y \in {m, MaxEvents} : n <= y
    BY <1>1
  <2>2. PICK x \in {m, MaxEvents} : x = Min({m, MaxEvents}) /\ \A y \in {m, MaxEvents} : x <= y
    BY <2>1, Zenon DEF Min
  <2> QED BY <1>1, <2>1, <2>2
<1> DEFINE old == {i \in DOMAIN events : events[i] < now - Window}
           fresh == {i \in DOMAIN events : events[i] >= now - Window}
           w == IF old = {} THEN 0 ELSE Max(old)
<1>4. old \subseteq 1..n /\ fresh \subseteq 1..n /\ IsFiniteSet(fresh)
      /\ \A i \in 1..n : i \in fresh <=> i \notin old
  <2>2. old \subseteq 1..n /\ fresh \subseteq 1..n /\ \A i \in 1..n : i \in fresh <=> i \notin old
    BY <1>1
  <2>3. IsFiniteSet(1..n)
    BY <1>1, FS_Interval
  <2> QED BY <2>2, <2>3, FS_Subset
<1> HIDE DEF old
<1>5. w \in 0..n /\ (w # 0 => w \in old) /\ \A i \in old : i <= w
  <2>1. CASE old = {}
    BY <1>1, <2>1
  <2>2. CASE old # {}
    <3> DEFINE B == {k \in Nat : \A i \in old : i <= k}
    <3>1. n \in B
      BY <1>1, <1>4
    <3>2. PICK k \in B : \A y \in B : k <= y
      BY <3>1, NatHasLeast
    <3>3. k \in old
      <4> SUFFICES ASSUME k \notin old PROVE FALSE
        OBVIOUS
      <4>1. PICK i \in old : TRUE
        BY <2>2
      <4>2. k >= 1 /\ k - 1 \in Nat
        BY <1>1, <1>4, <3>2, <4>1
      <4>3. \A j \in old : j <= k - 1
        BY <1>1, <1>4, <3>2, <4>2
      <4> QED BY <3>2, <4>2, <4>3
    <3>4. \A i \in old : k >= i
      BY <1>4, <3>2
    <3>5. PICK x \in old : x = Max(old) /\ \A i \in old : x >= i
      BY <3>3, <3>4, Zenon DEF Max
    <3> QED BY <1>1, <1>4, <2>2, <3>5
  <2> QED BY <2>1, <2>2
<1> HIDE DEF w, fresh
<1>6. WindowRequests = n - w
  BY DEF WindowRequests, w, old, n
<1>7. InWindow(events) = Cardinality(fresh)
  BY DEF InWindow, fresh
<1>8. IsFiniteSet((w + 1)..n) /\ Cardinality((w + 1)..n) = n - w
  <2>1. w + 1 \in Int /\ n \in Int
    BY <1>1, <1>5
  <2>2. IsFiniteSet((w + 1)..n) /\ Cardinality((w + 1)..n) = IF w + 1 > n THEN 0 ELSE n - (w + 1) + 1
    BY <2>1, FS_Interval
  <2> QED BY <1>1, <1>5, <2>2
<1>9. (w + 1)..n \subseteq fresh
  BY <1>1, <1>4, <1>5
<1>10. n - w <= Cardinality(fresh)
  <2>1. Cardinality((w + 1)..n) <= Cardinality(fresh)
    BY <1>4, <1>9, FS_Subset
  <2> QED BY <1>8, <2>1
<1>11. ASSUME InOrder(events) PROVE n - w = Cardinality(fresh)
  <2>1. ASSUME NEW i \in fresh PROVE i \in (w + 1)..n
    <3> SUFFICES ASSUME i <= w PROVE FALSE
      BY <1>1, <1>4, <1>5
    <3>1. i \in 1..n /\ i \notin old
      BY <1>4
    <3>2. w \in old /\ w \in 1..n
      BY <1>1, <1>4, <1>5, <3>1
    <3>3. i < w /\ events[i] \in Nat /\ events[w] \in Nat
      BY <1>1, <3>1, <3>2
    <3>4. events[i] <= events[w]
      <4>1. i \in DOMAIN events /\ w \in DOMAIN events /\ i < w
        BY <1>1, <3>1, <3>2, <3>3
      <4> QED BY <1>11, <4>1 DEF InOrder
    <3> QED BY <1>1, <3>1, <3>2, <3>3, <3>4 DEF old
  <2>2. fresh = (w + 1)..n
    BY <1>9, <2>1
  <2> QED BY <1>8, <2>2
<1> QED BY <1>1, <1>2, <1>3, <1>6, <1>7, <1>10, <1>11 DEF UsageIsCounted, n, m

-----------------------------------------------------------------------------
(* The theorems.                                                            *)

\* What sendMessage reports is what happened at the other end, for any messages and retries, whatever
\* is lost, late, refused or cut off (src/bridging/mcp-bridge.ts).
THEOREM ReportStaysTrue == OutboundSpec => []ReportIsTrue
<1>1. OutboundInit => BridgeInv
  BY BridgeStarts DEF OutboundInit
<1>2. BridgeInv /\ [OutboundNext]_outboundVars => BridgeInv'
  <2> SUFFICES ASSUME BridgeInv, [OutboundNext]_outboundVars PROVE BridgeInv'
    OBVIOUS
  <2>1. CASE BridgeStep
    BY <2>1, BridgeStepKeeps
  <2>2. CASE UNCHANGED bridgeVars
    BY <2>2 DEF bridgeVars, BridgeInv, BridgeTypeOK, CountedAt, HandledAt, ReportedAt, Backed
  <2>3. BridgeStep \/ UNCHANGED bridgeVars
    BY DEF OutboundNext, On, outboundVars
  <2> QED BY <2>1, <2>2, <2>3
<1> QED BY <1>1, <1>2, BridgeInvImplies, PTL DEF OutboundSpec

\* The newest attempt of a client of the GUI never waits without a timer, for any requests, retries
\* and clients (src/gui/api-client.ts).
THEOREM NewestStaysTimed == OutboundSpec => []NewestIsTimed
<1>1. OutboundInit => GuiInv
  BY GuiStarts DEF OutboundInit
<1>2. GuiInv /\ [OutboundNext]_outboundVars => GuiInv'
  <2> SUFFICES ASSUME GuiInv, [OutboundNext]_outboundVars PROVE GuiInv'
    OBVIOUS
  <2>1. CASE GuiStep
    BY <2>1, GuiStepKeeps
  <2>2. CASE UNCHANGED guiVars
    BY <2>2 DEF guiVars, GuiInv, GuiTypeOK, NewestIsTimed
  <2>3. GuiStep \/ UNCHANGED guiVars
    BY DEF OutboundNext, On, outboundVars
  <2> QED BY <2>1, <2>2, <2>3
<1>3. GuiInv => NewestIsTimed
  BY DEF GuiInv
<1> QED BY <1>1, <1>2, <1>3, PTL DEF OutboundSpec

\* A model is only asked for that the API offered no earlier than the installed list says, as long as
\* it offered any of the chain: for any calls, timelines and time to live of the list, however lists
\* overtake one another (src/openai/model-router.ts).
THEOREM AskedStaysOffered == OutboundSpec => AskedForOffered
<1> DEFINE Step == \A c \in Calls :
         (inventory' # {} /\ call'[c] = "asked" /\ call[c] # "asked") =>
            \E t \in lastRefresh'..now :
                \/ ModelAvailable(routing, offered[t], model'[c][1])
                \/ \A id \in Range(CandidateChain(routing, Preferred(routing, PromptOf[c]))) :
                       ~ModelAvailable(routing, offered[t], id)
<1>1. OutboundInit => BackendInv
  BY BackendStarts DEF OutboundInit, BackendInit, BackendRests
<1>2. BackendInv /\ [OutboundNext]_outboundVars => BackendInv' /\ [Step]_backendVars
  <2> SUFFICES ASSUME BackendInv, [OutboundNext]_outboundVars PROVE BackendInv' /\ [Step]_backendVars
    OBVIOUS
  <2>1. CASE BackendStep
    <3>1. BackendInv' /\ Chosen
      BY <2>1, BackendStepKeeps
    <3>2. Step
      BY <3>1 DEF Chosen, ChosenWell
    <3> QED BY <3>1, <3>2
  <2>2. CASE UNCHANGED backendVars
    <3>1. BackendInv'
      BY <2>2 DEF backendVars, BackendInv
    <3> QED BY <2>2, <3>1
  <2>3. BackendStep \/ UNCHANGED backendVars
    BY DEF OutboundNext, On, outboundVars
  <2> QED BY <2>1, <2>2, <2>3
<1> QED BY <1>1, <1>2, PTL DEF OutboundSpec, AskedForOffered

\* A process that is up decides by settings that were validated, and every variable of its environment
\* has the value of the first source that sets it: for any processes, contents of the files, updates
\* and edits (src/core/config.ts, src/cli/env-bootstrap.ts).
THEOREM SettingsStaySound == OutboundSpec => []SettingsAreSound
<1>1. OutboundInit => SettingsInv
  <2>1. (CHOOSE files \in EnvFiles : TRUE) \in EnvFiles
    BY SettingsAssumption
  <2> QED BY <2>1, SettingsStarts DEF OutboundInit, SettingsRests
<1>2. SettingsInv /\ [OutboundNext]_outboundVars => SettingsInv'
  <2> SUFFICES ASSUME SettingsInv, [OutboundNext]_outboundVars PROVE SettingsInv'
    OBVIOUS
  <2>1. CASE SettingsStep
    BY <2>1, SettingsStepKeeps
  <2>2. CASE UNCHANGED settingsVars
    <3>1. SettingsTypeOK'
      BY <2>2 DEF settingsVars, SettingsInv, SettingsTypeOK
    <3>2. ASSUME NEW q \in Processes PROVE SettingsAtProcess(q)'
      <4>1. Untouched(q)
        BY <2>2 DEF settingsVars, Untouched
      <4> QED BY <4>1, UntouchedKept DEF SettingsInv, SettingsAtProcess
    <3> QED BY <3>1, <3>2 DEF SettingsInv, SettingsAtProcess
  <2>3. SettingsStep \/ UNCHANGED settingsVars
    BY DEF OutboundNext, On, outboundVars
  <2> QED BY <2>1, <2>2, <2>3
<1> QED BY <1>1, <1>2, SettingsInvImplies, PTL DEF OutboundSpec

\* A command that had the files to itself names only files that hold what it wrote, and every command
\* an executable none of those installed is newer than: for any terminals, installations and changes
\* of them, whatever cannot be written (src/cli/codex-passthrough.ts).
THEOREM InstructionsStaySound == OutboundSpec => InstructionsAreSound
<1>1. OutboundInit => PassthroughInv
  <2>1. (CHOOSE x \in Installations : TRUE) \in Installations
    BY PassthroughAssumption
  <2> QED BY <2>1, PassthroughStarts DEF OutboundInit, PassthroughRests
<1>2. PassthroughInv /\ [OutboundNext]_outboundVars => PassthroughInv' /\ [Instructs]_passthroughVars
  <2> SUFFICES ASSUME PassthroughInv, [OutboundNext]_outboundVars
      PROVE  PassthroughInv' /\ [Instructs]_passthroughVars
    OBVIOUS
  <2>1. CASE PassthroughStep
    BY <2>1, PassthroughStepKeeps
  <2>2. CASE UNCHANGED passthroughVars
    <3>1. PassthroughInv'
      BY <2>2 DEF passthroughVars, PassthroughInv, PassthroughTypeOK, TerminalAt, AtWork
    <3> QED BY <2>2, <3>1
  <2>3. PassthroughStep \/ UNCHANGED passthroughVars
    BY DEF OutboundNext, On, outboundVars
  <2> QED BY <2>1, <2>2, <2>3
<1> QED BY <1>1, <1>2, PTL DEF OutboundSpec, InstructionsAreSound, Instructs, Ends

\* What a workflow or a hive-mind command says at its end is what happened: for any prompts, spawns,
\* configurations of the vote and crews, whenever the model's key is refused, agents are retired or
\* the timer fires (src/core/workflow-helpers.ts, src/cli/index.ts).
THEOREM OutcomesStayTrue == OutboundSpec => []OutcomesAreTrue
<1>1. OutboundInit => FlowInv /\ HiveInv
  <2> SUFFICES ASSUME OutboundInit PROVE FlowInv /\ HiveInv
    OBVIOUS
  <2>1. FlowInv
    BY FlowStarts DEF OutboundInit
  <2>2. (CHOOSE t \in Reviews : TRUE) \in Reviews
    BY ReviewsAssumption
  <2>3. HiveInv
    <3>1. CASE errand = "hive"
      BY <3>1, HiveStarts DEF OutboundInit, HiveInit
    <3>2. CASE errand # "hive"
      BY <2>2, <3>2, HiveStarts DEF OutboundInit, HiveRests
    <3> QED BY <3>1, <3>2
  <2> QED BY <2>1, <2>3
<1>2. FlowInv /\ [OutboundNext]_outboundVars => FlowInv'
  <2> SUFFICES ASSUME FlowInv, [OutboundNext]_outboundVars PROVE FlowInv'
    OBVIOUS
  <2>1. CASE PipelineStep
    BY <2>1, PipelineStepKeeps
  <2>2. CASE UNCHANGED pipelineVars
    BY <2>2 DEF pipelineVars, FlowInv, FlowTypeOK, FlowAt, AgendaAt, ResultsFit, Stage
  <2>3. PipelineStep \/ UNCHANGED pipelineVars
    BY DEF OutboundNext, On, outboundVars
  <2> QED BY <2>1, <2>2, <2>3
<1>3. HiveInv /\ [OutboundNext]_outboundVars => HiveInv'
  <2> SUFFICES ASSUME HiveInv, [OutboundNext]_outboundVars PROVE HiveInv'
    OBVIOUS
  <2>1. CASE HiveStep
    BY <2>1, HiveStepKeeps
  <2>2. CASE UNCHANGED hiveVars
    BY <2>2 DEF hiveVars, HiveInv, CrewIsNamed, ReviewReflectsOutcome
  <2>3. HiveStep \/ UNCHANGED hiveVars
    BY DEF OutboundNext, On, outboundVars
  <2> QED BY <2>1, <2>2, <2>3
<1>4. FlowInv /\ HiveInv => OutcomesAreTrue
  BY FlowInvImplies DEF HiveInv, OutcomesAreTrue
<1> QED BY <1>1, <1>2, <1>3, <1>4, PTL DEF OutboundSpec

\* What the metrics and the usage monitor count is what was recorded: an export's counts add up to its
\* records and one tenant is told nothing of another (from a memory opened with tenancy), and the
\* monitor keeps the newest calls and counts those of its window (collectMetrics, UsageMonitor.getSummary).
THEOREM CountsStayTrue == OutboundSpec => []CountsAreTrue
<1>1. OutboundInit => UsageInv /\ MetricsInv
  <2> SUFFICES ASSUME OutboundInit PROVE UsageInv /\ MetricsInv
    OBVIOUS
  <2>1. UsageInv
    <3>1. CASE errand = "models"
      BY <3>1, UsageStarts DEF OutboundInit, BackendInit
    <3>2. CASE errand # "models"
      BY <3>2, UsageStarts DEF OutboundInit, BackendRests
    <3> QED BY <3>1, <3>2
  <2>2. MetricsInv
    <3>1. CASE errand = "metrics"
      BY <3>1, MetricsStarts DEF OutboundInit
    <3>2. CASE errand # "metrics"
      BY <3>2, MetricsStarts DEF OutboundInit, MetricsRests
    <3> QED BY <3>1, <3>2
  <2> QED BY <2>1, <2>2
<1>2. UsageInv /\ [OutboundNext]_outboundVars => UsageInv'
  <2> SUFFICES ASSUME UsageInv, [OutboundNext]_outboundVars PROVE UsageInv'
    OBVIOUS
  <2>1. CASE BackendStep
    BY <2>1, UsageStepKeeps
  <2>2. CASE UNCHANGED backendVars
    BY <2>2 DEF backendVars, UsageInv, EndOf
  <2>3. BackendStep \/ UNCHANGED backendVars
    BY DEF OutboundNext, On, outboundVars
  <2> QED BY <2>1, <2>2, <2>3
<1>3. MetricsInv /\ [OutboundNext]_outboundVars => MetricsInv'
  <2> SUFFICES ASSUME MetricsInv, [OutboundNext]_outboundVars PROVE MetricsInv'
    OBVIOUS
  <2>1. CASE MetricsStep
    BY <2>1, MetricsStepKeeps
  <2>2. CASE UNCHANGED metricsVars
    BY <2>2 DEF metricsVars, MetricsInv, MetricsTypeOK, JournalsFit, EntriesFit, OneRow, Cleared, ListsFit, SamePlan,
                Replaces, Same, IsPlan
  <2>3. MetricsStep \/ UNCHANGED metricsVars
    BY DEF OutboundNext, On, outboundVars
  <2> QED BY <2>1, <2>2, <2>3
<1>4. UsageInv /\ MetricsInv => CountsAreTrue
  BY UsageInvImplies, MetricsInvImplies DEF CountsAreTrue
<1> QED BY <1>1, <1>2, <1>3, <1>4, PTL DEF OutboundSpec
=============================================================================
