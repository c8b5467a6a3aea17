---------------------------- MODULE RoutingPolicy ----------------------------
(***************************************************************************)
(* `codex-synaptic router ...` and `tools ...` (src/router/router.ts,      *)
(* src/tools/optimizer/index.ts).  Every command is a process of its own   *)
(* that builds a RoutingPolicyService: it loads policies.json, changes its *)
(* copy and writes the whole file back, in place.  An evaluation picks an  *)
(* agent by the rules, ranks tools by the calls recorded in the memory     *)
(* database, and is appended to the day's history file.                    *)
(* Prompts are the sets of topics they mention; scores are thousandths.    *)
(***************************************************************************)
EXTENDS Sorting, FiniteSetsExt, SequencesExt, Functions

CONSTANTS
    Shells,          \* terminals commands are typed into
    Menus,           \* each a set of commands that are typed in one behaviour
    MaxTyped,        \* how many of them
    FirstPolicies,   \* contents policies.json may have at first
    DefaultRules,    \* the rules of initializeDefaultRules
    HistoryLimit,    \* evaluations kept per day (1000)
    UsageLimit,      \* calls looked back at (200)
    Priorities       \* agents preferred for a topic, in order

VARIABLES
    policies,   \* policies.json: [state, rules]; "torn" while it is being written
    history,    \* the day's history file: [state, entries]
    usage,      \* tool_usage rows, oldest first
    shell,      \* the command each shell runs
    menu,       \* the commands that are typed in this behaviour
    typed,      \* how many have been
    settled,    \* what the acknowledged changes make of the rules they are about
    spoilt      \* rules whose acknowledged change another command has undone since

routerVars == <<policies, history, usage, shell, menu, typed, settled, spoilt>>

RouterCommands == UNION Menus
Idle == [pc |-> "idle"]
WritingPlaces == {"open", "write", "openHistory", "writeHistory"}
KnownRules == Range(DefaultRules) \cup (UNION {Range(f.rules) : f \in FirstPolicies})
              \cup {c.rule : c \in {d \in RouterCommands : d.kind = "add"}}
Ids == {r.id : r \in KnownRules}

ASSUME RoutingAssumption ==
    /\ DefaultRules \in Seq(KnownRules)
    /\ \A f \in FirstPolicies : f.rules \in Seq(KnownRules)
    /\ \A r \in KnownRules : {"id", "precedence", "enabled"} \subseteq DOMAIN r /\ r.precedence \in Int
    /\ \A c \in RouterCommands : c.kind = "enable" => c.on \in BOOLEAN
    /\ \A c \in RouterCommands : c.kind = "record" => c.call.success \in BOOLEAN /\ c.call.latency \in Nat
    /\ \A c \in RouterCommands : c.kind \in {"score", "evaluate"} => \A tool \in Range(c.tools) : tool.cost \in Nat
    /\ "code" \in DOMAIN Priorities /\ IsFiniteSet(DOMAIN Priorities)
    /\ \A topic \in DOMAIN Priorities : Priorities[topic] \in Seq(Range(Priorities[topic]))
    /\ UsageLimit \in Nat \ {0}

-----------------------------------------------------------------------------
(* Rules.  A rule is sound when it has conditions and dated when it has     *)
(* metadata; a command adds it with metadata, whatever else it lacks.       *)
Find(rules, id) == {r \in Range(rules) : r.id = id}
\* Map.set: a new id goes to the end, a known one stays where it is.
Put(rules, rule) ==
    IF Find(rules, rule.id) = {} THEN Append(rules, rule)
    ELSE [k \in DOMAIN rules |-> IF rules[k].id = rule.id THEN rule ELSE rules[k]]
\* The Map that all of them have been put into, one after the other.
ById(rules) ==
    LET latest(id) == rules[Max({k \in DOMAIN rules : rules[k].id = id})]
        firsts == {k \in DOMAIN rules : \A j \in 1..(k - 1) : rules[j].id # rules[k].id}
    IN InOrder([k \in DOMAIN rules |-> latest(rules[k].id)], firsts)
\* An entry without metadata ends the load; what came before it stays.
Undated(rules) == {k \in DOMAIN rules : ~rules[k].dated}
Readable(rules) == SubSeq(rules, 1, Min(Undated(rules) \cup {Len(rules) + 1}) - 1)
Complete(file) == file.state = "whole" /\ Undated(file.rules) = {}
Loaded_Enabled(file) == ById(InOrder(file.rules, {k \in DOMAIN file.rules : file.rules[k].enabled}))
Loaded(file) ==
    IF Complete(file) THEN ById(file.rules)
    ELSE ById((IF file.state = "whole" THEN Readable(file.rules) ELSE <<>>) \o DefaultRules)

Meets(topics, prompt) == topics = {} \/ topics \cap prompt # {}
RuleMatches(rule, request) ==
    /\ Meets(rule.keywords, request.prompt)
    /\ Meets(rule.patterns, request.prompt)
    /\ rule.min # 0 => Cardinality(request.prompt) >= rule.min
    /\ rule.max # 0 => Cardinality(request.prompt) <= rule.max
    /\ rule.excludes \cap request.exclude = {}
ByPrecedence(rules, places) == Ranked(rules, [k \in places |-> rules[k].precedence])
ApplicableRules(rules, request) ==
    ByPrecedence(rules, {k \in DOMAIN rules : rules[k].enabled /\ RuleMatches(rules[k], request)})

Heuristics == <<[topics |-> {"code"}, agent |-> "code_worker"], [topics |-> {"data"}, agent |-> "data_worker"],
                [topics |-> {"test"}, agent |-> "validation_worker"],
                [topics |-> {"coordinate"}, agent |-> "swarm_coordinator"]>>
DefaultAgent(prompt) ==
    LET hits == {k \in DOMAIN Heuristics : Heuristics[k].topics \cap prompt # {}}
    IN IF hits = {} THEN "code_worker" ELSE Heuristics[Min(hits)].agent
Evaluation(rules, request) ==
    LET applicable == ApplicableRules(rules, request)
    IN IF applicable = <<>>
       THEN [agent |-> DefaultAgent(request.prompt), alternatives |-> <<"code_worker">>, rules |-> <<>>]
       ELSE [agent |-> applicable[1].target,
             alternatives |-> [k \in 1..Min({3, Len(applicable) - 1}) |-> applicable[k + 1].target],
             rules |-> [k \in DOMAIN applicable |-> applicable[k].id]]
\* A rule without conditions makes every evaluation that reaches it fail.
EvaluationThrows(rules) == \E r \in Range(rules) : r.enabled /\ ~r.sound
Fallback == [agent |-> "code_worker", alternatives |-> <<>>, rules |-> <<>>]

-----------------------------------------------------------------------------
(* Tools.                                                                   *)
Latest(rows, n) == SubSeq(rows, Max({1, Len(rows) - n + 1}), Len(rows))
\* The calls of a tool among the latest ones, by their places in the table.
CallsOf(rows, tool) == {k \in DOMAIN rows : k > Len(rows) - UsageLimit /\ rows[k].tool = tool.id}
Successes(rows, calls) == Cardinality({k \in calls : rows[k].success})
BaseScore_Inverted(rows, calls) ==
    IF calls = {} THEN 350
    ELSE 300 + (500 * (Cardinality(calls) - Successes(rows, calls))) \div Cardinality(calls)
BaseScore(rows, calls) ==
    IF calls = {} THEN 350 ELSE 300 + (500 * Successes(rows, calls)) \div Cardinality(calls)
\* Weight of each topic of a prompt; a prompt without topics counts as a little code.
Intents(prompt) == IF prompt \cap DOMAIN Priorities = {} THEN {"code"} ELSE prompt \cap DOMAIN Priorities
Weight(prompt) == IF prompt \cap DOMAIN Priorities = {} THEN 25 ELSE 55
TopicBoost(tool, topic, weight) ==
    LET places == {k \in DOMAIN Priorities[topic] : Priorities[topic][k] = tool.agent}
    IN IF places = {} THEN 0 ELSE (weight * Max({0, 250 - 80 * (Min(places) - 1)})) \div 100
IntentBoost(tool, prompt) ==
    SumFunction([topic \in Intents(prompt) |-> TopicBoost(tool, topic, Weight(prompt))])
\* The average latency is Spent over Timed; the estimate stands in for it where nothing was called.
Spent(rows, tool, calls) ==
    IF calls = {} THEN tool.cost ELSE SumFunction([k \in calls |-> rows[k].latency])
Timed(calls) == IF calls = {} THEN 1 ELSE Cardinality(calls)
LatencyAdjustment(ms, n) ==
    IF ms = 0 THEN 0 ELSE IF ms <= 100 * n THEN 50
    ELSE IF ms >= 2000 * n THEN -150 ELSE -((ms - 100 * n) \div (10 * n))
Score(rows, tool, prompt) ==
    LET calls == CallsOf(rows, tool)
        raw == BaseScore(rows, calls) + IntentBoost(tool, prompt)
               + LatencyAdjustment(Spent(rows, tool, calls), Timed(calls))
    IN Min({1000, Max({0, raw})})
Ranking(rows, tools, prompt) == Ranked(tools, [k \in DOMAIN tools |-> Score(rows, tools[k], prompt)])

-----------------------------------------------------------------------------
(* Commands.                                                                *)
RouterStart(file, commands) ==
    /\ policies = file
    /\ history = [state |-> "absent", entries |-> <<>>]
    /\ usage = <<>>
    /\ shell = [s \in Shells |-> Idle]
    /\ menu = commands
    /\ typed = 0
    /\ settled = [id \in Ids |-> Find(ById(policies.rules), id)]
    /\ spoilt = {}

RouterInit == \E file \in FirstPolicies, commands \in Menus : RouterStart(file, commands)

Moves(s, pc) == shell' = [shell EXCEPT ![s].pc = pc]
files == <<policies, history, usage>>
ghosts == <<menu, typed, settled, spoilt>>

\* `router evaluate` brings the agent system up first; the service is built afterwards.
Types(s, command) ==
    /\ shell[s] = Idle
    /\ typed < MaxTyped
    /\ typed' = typed + 1
    /\ shell' = [shell EXCEPT ![s] = [pc |-> IF command.kind \in {"record", "score"} THEN "act" ELSE "load",
                                      command |-> command]]
    /\ UNCHANGED <<files, menu, settled, spoilt>>

\* The constructor: what cannot be loaded is replaced by the default rules, and saved.
Loads(s) ==
    /\ shell[s].pc = "load"
    /\ shell' = [shell EXCEPT ![s] =
          [pc |-> IF Complete(policies) THEN "act" ELSE "open", then |-> "act",
           command |-> shell[s].command, rules |-> Loaded(policies),
           stale |-> IF Complete(policies) THEN {} ELSE Ids]]
    /\ UNCHANGED <<files, ghosts>>

\* saveRoutingRules: the file is truncated and written in place; an error is only logged.
Opens(s) ==
    /\ shell[s].pc = "open"
    /\ policies' = [state |-> "torn", rules |-> <<>>]
    /\ Moves(s, "write")
    /\ UNCHANGED <<history, usage, ghosts>>
\* The rule a command changes, and what it makes of it; the command reports success also when
\* the save fails.
About(s) == IF shell[s].then = "answer" THEN {shell[s].about} ELSE {}
Settled(s) == [id \in Ids |-> IF id \in About(s) THEN Find(shell[s].rules, id) ELSE settled[id]]
\* Whoever has read the file before does not know of the change.
Outdates(s) == [t \in Shells |-> IF t # s /\ "stale" \in DOMAIN shell[t]
                                 THEN [shell[t] EXCEPT !.stale = @ \cup About(s)] ELSE shell[t]]
Writes(s) ==
    /\ shell[s].pc = "write"
    /\ policies' = [state |-> "whole", rules |-> shell[s].rules]
    /\ settled' = Settled(s)
    /\ spoilt' = (spoilt \cup shell[s].stale) \ About(s)
    /\ shell' = [Outdates(s) EXCEPT ![s].pc = shell[s].then]
    /\ UNCHANGED <<history, usage, menu, typed>>
SaveFails(s) ==
    /\ shell[s].pc = "open"
    /\ settled' = Settled(s)
    /\ spoilt' = spoilt \cup About(s)
    /\ Moves(s, shell[s].then)
    /\ UNCHANGED <<files, menu, typed>>

\* addRule, updateRule and deleteRule change the loaded rules and save them.
Saves(s, rules, id) ==
    /\ shell' = [shell EXCEPT ![s] = [pc |-> "open", then |-> "answer", command |-> @.command,
                                      rules |-> rules, stale |-> @.stale, about |-> id]]
    /\ UNCHANGED <<files, ghosts>>
Answers(s, answer) ==
    shell' = [shell EXCEPT ![s] = [pc |-> "over", command |-> @.command, answer |-> answer]]
Adds(s) ==
    /\ shell[s].pc = "act" /\ shell[s].command.kind = "add"
    /\ LET rule == shell[s].command.rule IN Saves(s, Put(shell[s].rules, rule), rule.id)
Deletes(s) ==
    /\ shell[s].pc = "act" /\ shell[s].command.kind = "delete"
    /\ LET id == shell[s].command.id IN
       /\ Find(shell[s].rules, id) # {}
       /\ Saves(s, InOrder(shell[s].rules, {k \in DOMAIN shell[s].rules : shell[s].rules[k].id # id}), id)
\* The metadata of the rule is merged with the update's.
Enables(s) ==
    /\ shell[s].pc = "act" /\ shell[s].command.kind = "enable"
    /\ LET id == shell[s].command.id IN
       \E rule \in Find(shell[s].rules, id) :
          Saves(s, Put(shell[s].rules, [rule EXCEPT !.enabled = shell[s].command.on]), id)
FindsNoRule(s) ==
    /\ shell[s].pc = "act" /\ shell[s].command.kind \in {"delete", "enable"}
    /\ Find(shell[s].rules, shell[s].command.id) = {}
    /\ Answers(s, "not found")
    /\ UNCHANGED <<files, ghosts>>
Acknowledges(s) ==
    /\ shell[s].pc = "answer"
    /\ Answers(s, "done")
    /\ UNCHANGED <<files, ghosts>>
Lists(s) ==
    /\ shell[s].pc = "act" /\ shell[s].command.kind = "list"
    /\ Answers(s, ByPrecedence(shell[s].rules, DOMAIN shell[s].rules))
    /\ UNCHANGED <<files, ghosts>>

\* evaluateRouting.
Evaluates(s) ==
    /\ shell[s].pc = "act" /\ shell[s].command.kind = "evaluate"
    /\ IF EvaluationThrows(shell[s].rules) THEN Answers(s, Fallback)
       ELSE shell' = [shell EXCEPT ![s] = [pc |-> "recommend", command |-> @.command, rules |-> @.rules,
                                           stale |-> @.stale, answer |-> Evaluation(@.rules, @.command)]]
    /\ UNCHANGED <<files, ghosts>>
\* attachToolRecommendations; its failures are tolerated.
Recommends(s) ==
    /\ shell[s].pc = "recommend"
    /\ \E ranking \in {<<>>, Ranking(usage, shell[s].command.tools, shell[s].command.prompt)} :
          shell' = [shell EXCEPT ![s] = [pc |-> "recall", command |-> @.command, answer |-> @.answer,
                                         tools |-> ranking]]
    /\ UNCHANGED <<files, ghosts>>
\* persistEvaluationHistory: a file that does not parse is left as it is.
Recalls(s) ==
    /\ shell[s].pc = "recall"
    /\ shell' = IF history.state = "torn" THEN [shell EXCEPT ![s].pc = "over"]
                ELSE [shell EXCEPT ![s] = [pc |-> "openHistory", command |-> @.command, answer |-> @.answer,
                         entries |-> Latest(Append(history.entries, @.answer.agent), HistoryLimit)]]
    /\ UNCHANGED <<files, ghosts>>
OpensHistory(s) ==
    /\ shell[s].pc = "openHistory"
    /\ history' = [state |-> "torn", entries |-> <<>>]
    /\ Moves(s, "writeHistory")
    /\ UNCHANGED <<policies, usage, ghosts>>
WritesHistory(s) ==
    /\ shell[s].pc = "writeHistory"
    /\ history' = [state |-> "whole", entries |-> shell[s].entries]
    /\ Moves(s, "over")
    /\ UNCHANGED <<policies, usage, ghosts>>

\* `tools record`, `tools score` and `tools history`, within the agent system.
Records(s) ==
    /\ shell[s].pc = "act" /\ shell[s].command.kind = "record"
    /\ usage' = Append(usage, shell[s].command.call)
    /\ Answers(s, "done")
    /\ UNCHANGED <<policies, history, ghosts>>
Scores(s) ==
    /\ shell[s].pc = "act" /\ shell[s].command.kind = "score"
    /\ Answers(s, Ranking(usage, shell[s].command.tools, shell[s].command.prompt))
    /\ UNCHANGED <<files, ghosts>>

Ends(s) ==
    /\ shell[s].pc = "over"
    /\ shell' = [shell EXCEPT ![s] = Idle]
    /\ UNCHANGED <<files, ghosts>>
\* The process dies; a file it was writing stays torn.
Dies(s) ==
    /\ shell[s].pc \in WritingPlaces
    /\ shell' = [shell EXCEPT ![s] = Idle]
    /\ UNCHANGED <<files, ghosts>>

RouterStep(s) ==
    \/ \E c \in menu : Types(s, c)
    \/ Loads(s) \/ Opens(s) \/ Writes(s) \/ SaveFails(s) \/ Adds(s) \/ Deletes(s) \/ Enables(s)
    \/ FindsNoRule(s) \/ Acknowledges(s) \/ Lists(s) \/ Evaluates(s) \/ Recommends(s) \/ Recalls(s)
    \/ OpensHistory(s) \/ WritesHistory(s) \/ Records(s) \/ Scores(s) \/ Ends(s) \/ Dies(s)

RouterSpec == RouterInit /\ [][\E s \in Shells : RouterStep(s)]_routerVars

-----------------------------------------------------------------------------
\* What a command reported to have done to a rule is what the file says of that rule, until
\* another command that had read the file before wrote it after; or had read it while it was
\* being written and put the default rules in its place; or the save itself had failed.
RulesStay ==
    policies.state = "whole" =>
        \A id \in Ids \ spoilt : Find(ById(policies.rules), id) = settled[id]

\* An evaluation answers with the target of an enabled, matching rule of the highest precedence
\* among the rules the acknowledged changes have made, and by its heuristics only without one.
RulesMade == UNION {settled[id] : id \in Ids}
VerdictFollowsRules ==
    \A s \in Shells :
        shell[s].pc = "recommend" /\ shell[s].stale = {} /\ spoilt = {} =>
            LET hits == {r \in RulesMade : r.enabled /\ RuleMatches(r, shell[s].command)}
                best == {r \in hits : \A q \in hits : q.precedence <= r.precedence}
            IN shell[s].answer.agent \in IF hits = {} THEN {DefaultAgent(shell[s].command.prompt)}
                                         ELSE {r.target : r \in best}

\* No rule a command was told it stored is lost or changed but by commands that overlap it, and every
\* verdict is the one the rules it read call for (src/router/router.ts).
RoutingIsSound == RulesStay /\ VerdictFollowsRules

\* One more call of a tool that was fast and succeeded never lowers the tool's score, although the call
\* may push an older one out of the window; unless that one was faster, or the tool's calls took two
\* seconds on average: at that point computeLatencyAdjustment stops counting, so that an average of 1999
\* costs more than one of 2000, and a tool is punished for having become faster (evaluateTools).
ToolsScored == UNION {Range(c.tools) : c \in {d \in RouterCommands : d.kind \in {"score", "evaluate"}}}
PromptsScored == {c.prompt : c \in {d \in RouterCommands : d.kind \in {"score", "evaluate"}}}
SuccessNeverHurts ==
    [][\A tool \in ToolsScored, prompt \in PromptsScored :
          LET call == Last(usage')
              calls == CallsOf(usage, tool)
          IN  /\ usage' # usage /\ call.tool = tool.id /\ call.success /\ call.latency \in 1..100
              /\ calls # {} => Spent(usage, tool, calls) < 2000 * Timed(calls)
              /\ \A k \in calls \ CallsOf(usage', tool) : usage[k].latency >= call.latency
              => Score(usage', tool, prompt) >= Score(usage, tool, prompt)]_usage
=============================================================================
