---------------------------- MODULE MCCliCommands ----------------------------
(***************************************************************************)
(* Instances of the commands of src/cli/index.ts that need no agent system  *)
(* of their own: `router` and `tools` (RoutingPolicy), `instructions` and   *)
(* `--codex` (CodexContext), the strategies of `hive-mind spawn`            *)
(* (Strategies).  No file, table or cache of one is used by another, so     *)
(* that each behaviour exercises the commands of one of them while the      *)
(* others rest.                                                             *)
(***************************************************************************)
EXTENDS RoutingPolicy, CodexContext, Strategies

VARIABLE family    \* the commands this behaviour is about

RouterRests == RouterStart(CHOOSE f \in FirstPolicies : TRUE, CHOOSE m \in Menus : TRUE)
CodexRests == CodexStart(CHOOSE sc \in Scenes : TRUE)
StrategiesRest == StrategiesStart(CHOOSE r \in Requests : TRUE, CHOOSE l \in Libraries : TRUE,
                                  CHOOSE s \in Statuses : TRUE, CHOOSE f \in GoapFolders : TRUE)
CliInit ==
    \/ family = "router" /\ RouterInit /\ CodexRests /\ StrategiesRest
    \/ family = "codex" /\ RouterRests /\ CodexInit /\ StrategiesRest
    \/ family = "strategies" /\ RouterRests /\ CodexRests /\ StrategiesInit

CliNext ==
    \/ family = "router" /\ (\E s \in Shells : RouterStep(s)) /\ UNCHANGED <<family, codexVars, strategiesVars>>
    \/ family = "codex" /\ CodexStep /\ UNCHANGED <<family, routerVars, strategiesVars>>
    \/ family = "strategies" /\ StrategiesNext /\ UNCHANGED <<family, routerVars, codexVars>>

CliSpec == CliInit /\ [][CliNext]_<<family, routerVars, codexVars, strategiesVars>>

-----------------------------------------------------------------------------
(* Rules, prompts and tools; guides and edits.                              *)

CONSTANTS s1, s2, t1, t2, con

RuleOf(id, precedence, keywords, patterns, target) ==
    [id |-> id, precedence |-> precedence, keywords |-> keywords, patterns |-> patterns, min |-> 0, max |-> 0,
     excludes |-> {}, target |-> target, enabled |-> TRUE, sound |-> TRUE, dated |-> TRUE]
MCDefaults == <<RuleOf("code", 3, {"code"}, {"code"}, "code_worker"), RuleOf("data", 2, {"data"}, {}, "data_worker")>>
Mine == [RuleOf("mine", 3, {}, {"data"}, "mine_worker") EXCEPT !.excludes = {"code_worker"}, !.max = 2]
Odd == [RuleOf("odd", 1, {}, {}, "code_worker") EXCEPT !.sound = FALSE]
Old == [RuleOf("old", 5, {"test"}, {}, "old_worker") EXCEPT !.min = 2]
Off == [Old EXCEPT !.enabled = FALSE]
Whole(rules) == [state |-> "whole", rules |-> rules]
MCFirst == {[state |-> "absent", rules |-> <<>>], Whole(MCDefaults), Whole(<<MCDefaults[2], Mine, Off>>),
            Whole(<<Old, [Off EXCEPT !.id = "mine", !.dated = FALSE], Mine>>)}
MCTools == <<[id |-> "grep", agent |-> "code_worker", cost |-> 0], [id |-> "etl", agent |-> "data_worker", cost |-> 3000]>>
Evaluate(prompt, exclude) == [kind |-> "evaluate", prompt |-> prompt, exclude |-> exclude, tools |-> MCTools]
Call(tool, success, latency) == [kind |-> "record", call |-> [tool |-> tool, success |-> success, latency |-> latency]]
Add(rule) == [kind |-> "add", rule |-> rule]
Delete(id) == [kind |-> "delete", id |-> id]
Enable(id, on) == [kind |-> "enable", id |-> id, on |-> on]
List == [kind |-> "list"]
ScoreAll(prompt) == [kind |-> "score", tools |-> MCTools, prompt |-> prompt]
MCMenus == {{Add(Mine), Delete("code"), Enable("old", TRUE), List},
            {Delete("mine"), Enable("data", FALSE), Evaluate({"data", "test"}, {}), Evaluate({"coordinate"}, {})},
            {Add(Odd), Evaluate({"data"}, {"code_worker"})},
            {Call("grep", TRUE, 50), Call("grep", FALSE, 50), Call("grep", TRUE, 3000), Call("etl", TRUE, 0), Call("etl", TRUE, 20),
             ScoreAll({"code", "data"}), ScoreAll({}), Evaluate({"data"}, {})}}
MCPriorities == [code |-> <<"code_worker", "data_worker">>, data |-> <<"data_worker">>]

Text(mark, size, flaws) == [mark |-> mark, size |-> size, flaws |-> flaws]
MCTexts == {Text(2, 2, {}), Text(3, 3, {"plain"})}
MCDepth == [root |-> 0, deep |-> 3]
MCByPath == <<"deep", "root">>
Holding(root, deep, readme) == [f \in {"root", "deep", "readme", "db"} |->
    CASE f = "root" -> root [] f = "deep" -> deep [] f = "readme" -> readme [] OTHER -> Text(1, 2, {})]
Scene(first, edited, kinds) == [first |-> first, edited |-> edited, typed |-> kinds]
MCScenes == {Scene(Holding(Text(1, 2, {}), Absent, Absent), {"root"}, {"cached"}),
             Scene(Holding(Text(1, 2, {}), Text(3, 3, {"plain"}), Absent), {"deep"}, {"codex", "fresh"}),
             Scene(Holding(Absent, Text(1, 2, {}), Absent), {"root"}, {"cached", "clear"}),
             Scene(Holding(Text(1, 2, {}), Text(1, 2, {}), Text(1, 2, {})), {"root", "deep"}, {"prompt"}),
             Scene(Holding(Text(1, 2, {}), Absent, Absent), {"deep", "readme", "db"}, {"prompt"})}
Perms == Permutations({t1, t2})

-----------------------------------------------------------------------------
(* The manifests of the five formalisms, small ones and the ones shipped.   *)

Fact(n) == [parses |-> TRUE, negated |-> FALSE, all |-> n]
Not(n) == [parses |-> TRUE, negated |-> TRUE, all |-> n]
Garbled == [parses |-> FALSE, negated |-> FALSE, all |-> {}]
Always == Fact({})

\* Behaviour trees: a root over two inner nodes over checks, one of them unknown.
Inner(type, children, threshold) ==
    [type |-> type, children |-> children, evaluation |-> "", threshold |-> threshold]
Leaf(id) == [type |-> "task", children |-> <<>>, evaluation |-> id, threshold |-> <<>>]
Tree(rootType, rootThreshold, leftType, leftThreshold) ==
    [root |-> "root",
     nodes |-> [root |-> Inner(rootType, <<"left", "mesh", "swarm">>, rootThreshold),
                left |-> Inner(leftType, <<"system", "goap">>, leftThreshold),
                mesh |-> Leaf("meshHealth"), swarm |-> Leaf("swarmReadiness"),
                system |-> Leaf("systemHealth"), goap |-> Leaf("goapCoverage")]]
NodeTypes == {"sequence", "selector", "parallel"}
Trees == {Tree(r, <<>>, l, <<1>>) : r \in NodeTypes, l \in NodeTypes}
         \cup {Tree("parallel", <<n>>, l, <<n>>) : n \in {0, 2}, l \in NodeTypes}
         \cup {[Tree("sequence", <<>>, "selector", <<>>) EXCEPT !.nodes["goap"] = Leaf("gaop")],
               [Tree("sequence", <<>>, "selector", <<>>) EXCEPT !.root = "roto"]}

\* State machines: boot audits one fact, then another, and accepts or asks for remediation.
Enters(onEnter, transitions) == [onEnter |-> onEnter, transitions |-> transitions]
Machine(maxSteps, condition, terminal) ==
    [initial |-> "boot", terminal |-> terminal, maxSteps |-> maxSteps,
     states |-> [boot |-> Enters(<<"systemHealth">>, <<[to |-> "mesh", condition |-> Fact({"systemHealth"})],
                                                      [to |-> "lost", condition |-> condition]>>),
                 mesh |-> Enters(<<"meshHealth">>, <<[to |-> "ready", condition |-> Fact({"meshHealth"})],
                                                    [to |-> "boot", condition |-> condition]>>),
                 ready |-> Enters(<<"swarmReadiness", "consensusHealth">>, <<>>)]]
Machines == {Machine(n, c, t) : n \in {0, 1, 2, 4}, c \in {Always, Not({"goapCoverage"}), Garbled},
                                         t \in {{"ready"}, {"ready", "lost"}, {}}}

\* STRIPS: operators over two facts and two variables of their own.
Operator(name, pre, effects) == [name |-> name, pre |-> pre, effects |-> effects]
Operators == <<Operator("heal", [systemHealth |-> FALSE], [systemHealth |-> TRUE]),
               Operator("link", [systemHealth |-> TRUE], "meshHealth" :> TRUE @@ "warm" :> FALSE),
               Operator("warm", [meshHealth |-> TRUE], [warm |-> TRUE]),
               Operator("rush", [swarmReadiness |-> TRUE], "meshHealth" :> TRUE @@ "systemHealth" :> FALSE)>>
Goals == {"meshHealth" :> TRUE @@ "systemHealth" :> TRUE, "warm" :> TRUE @@ "systemHealth" :> TRUE,
          "warm" :> FALSE @@ "meshHealth" :> TRUE}
Problems == {[initial |-> i, goal |-> g, operators |-> o, maxDepth |-> n] :
    i \in {<<>>, [warm |-> FALSE]}, g \in Goals, n \in {1, 2, 3}, o \in {Operators, SubSeq(Operators, 1, 3)}}

\* SHOP: a method whose guard is a fact, one of subtasks, and operators.
Method(guard, subtasks) == [guard |-> guard, subtasks |-> subtasks]
Networks == {
    [tasks |-> t, maxDepth |-> n,
     methods |-> [start |-> Method(g, <<"heal", "connect">>), connect |-> Method(Always, <<"link", last>>)],
     operators |-> [heal |-> [pre |-> [systemHealth |-> FALSE], effects |-> [systemHealth |-> TRUE]],
                    link |-> [pre |-> [systemHealth |-> TRUE], effects |-> [meshHealth |-> TRUE]],
                    check |-> [pre |-> "meshHealth" :> TRUE @@ "goapCoverage" :> TRUE, effects |-> [linked |-> TRUE]],
                    mark |-> [pre |-> <<>>, effects |-> [marked |-> TRUE]]]] :
    t \in {<<"start">>, <<"connect">>, <<"connect", "start">>, <<"heal", "connect", "chekc">>, <<"link", "start">>},
    g \in {Always, Not({"systemHealth"})}, n \in {0, 1, 3}, last \in {"check", "mark"}}

\* MDPs of two or three states; the last one has no action.
To(to, halves, reward) == [to |-> to, halves |-> halves, reward |-> reward]
Act(state, name, transitions) == [state |-> state, name |-> name, transitions |-> transitions]
DecisionProblems == {
    [reward |-> [a |-> 0, b |-> rb, c |-> rc], iterations |-> n,
     actions |-> <<Act("a", "stay", <<To("a", 2, 1)>>), Act("a", "try", <<To("b", 1, 0), To("a", 1, ra)>>),
                   Act("b", "back", <<To("a", 2, rk)>>), Act("b", "on", <<To("c", 1, 0), To("b", 1, 0)>>)>>] :
    ra \in {0, 1}, rk \in {0, 2}, rc \in {4, 12}, rb \in {-1, 0, 1}, n \in {0, 1, 2}}

File(name, id, def) == [yaml |-> TRUE, name |-> name, id |-> id, parses |-> TRUE, body |-> def]
Broken == [File("audit", "", <<>>) EXCEPT !.parses = FALSE]
PlainNotes == [File("notes", "", <<>>) EXCEPT !.yaml = FALSE]
With(strategy, bodies, before, after) ==
    {strategy :> (before \o <<File("audit", "activation", <<b>>)>> \o after) : b \in bodies}
MCLibraries ==
    With("behavior-tree", Trees, <<>>, <<>>)
    \cup With("fsm", Machines, <<Broken>>, <<>>)
    \cup With("strips", Problems, <<File("draft", "", <<>>)>>, <<>>)
    \cup With("shop", Networks, <<>>, <<PlainNotes>>)
    \cup With("mdp", DecisionProblems, <<>>, <<>>)
    \cup {"fsm" :> <<PlainNotes>>}

MCRequests == {[strategy |-> s, id |-> "activation", target |-> 5, mechanism |-> "raft"] : s \in Supported}
              \cup {[strategy |-> s, id |-> i, target |-> t, mechanism |-> "bft"] :
                      s \in {"fsm", "strips"}, i \in {"", "draft"}, t \in {0, 10}}

Healthy == [registry |-> TRUE, scheduler |-> TRUE, errorAgents |-> 0, mesh |-> TRUE, nodes |-> 4, links |-> 2,
            mechanism |-> "raft", proposals |-> 0, swarm |-> TRUE, particles |-> 4, available |-> 3,
            cpu |-> 10, headroom |-> 256, active |-> 4]
MCStatuses == {Healthy,
               [Healthy EXCEPT !.errorAgents = 1, !.proposals = 1],
               [Healthy EXCEPT !.nodes = 2, !.particles = 2],
               [Healthy EXCEPT !.scheduler = FALSE, !.links = 1, !.cpu = 81],
               [Healthy EXCEPT !.errorAgents = 1, !.mesh = FALSE, !.swarm = FALSE, !.active = 2]}
MCGoapFolders == {<<[id |-> "release", yaml |-> TRUE, goals |-> 1], [id |-> "release", yaml |-> TRUE, goals |-> 2]>>,
                  <<[id |-> "", yaml |-> TRUE, goals |-> 1], [id |-> "release", yaml |-> FALSE, goals |-> 1]>>}
=============================================================================
