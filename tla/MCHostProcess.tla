--------------------------- MODULE MCHostProcess ---------------------------
\* Instances of HostProcess: two systems and a crew; one server with two tenants.
EXTENDS HostProcess

CONSTANTS c1, c2, daemon, t1, t2, k1

TwoSystems == 1..2
SmallCrew == [k \in Kinds |-> IF k = "helper" THEN 2 ELSE 1]
Alternating == <<"worker", "helper">>
\* Two callers race while boots fail and the session is shut down; or one crew grows and
\* shrinks under load, with scaling and healing on or off.
Session == [scaling |-> FALSE, healing |-> FALSE, maxAgents |-> 4, maxActive |-> 9,
            min |-> 2, max |-> 3, grows |-> FALSE, faults |-> TRUE, users |-> {c1, c2},
            boots |-> 2, stops |-> 2, memory |-> {20, 100}, seconds |-> {0}]
Crew(b) == [scaling |-> b, healing |-> TRUE, maxAgents |-> 4, maxActive |-> 4,
            min |-> 3, max |-> 4, grows |-> TRUE, faults |-> FALSE, users |-> {c1},
            boots |-> 1, stops |-> 1, memory |-> {20, 82, 90, 100}, seconds |-> {0, 70}]
Mixed == {Session, Crew(TRUE),
          [Crew(FALSE) EXCEPT !.memory = {20, 82, 100}, !.seconds = {0}]}

Ask(op, t) ==
    [server |-> daemon, via |-> "api", op |-> op, tenant |-> t, header |-> NoTenant,
     token |-> k1, valid |-> TRUE, parses |-> TRUE, quota |-> Keep]

SetTo(q) == [Ask("setQuota", t1) EXCEPT !.quota = q]

\* One request of every kind that ends without a write.
Harmless ==
    {[Ask("health", NoTenant) EXCEPT !.token = NoToken, !.header = t1],
     [Ask("list", NoTenant) EXCEPT !.header = t2],
     [Ask("create", t1) EXCEPT !.valid = FALSE],
     [SetTo(1) EXCEPT !.valid = FALSE],
     [SetTo(1) EXCEPT !.parses = FALSE],
     Ask("other", NoTenant)}

OneServer == Harmless \cup {Ask("create", t1), Ask("createFresh", t2), Ask("getQuota", t1),
                            SetTo(1), SetTo(NoQuota), SetTo(Keep)}

=============================================================================
