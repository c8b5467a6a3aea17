----------------------------- MODULE Strategies -----------------------------
(***************************************************************************)
(* `hive-mind spawn --strategy <s>` (src/reasoning/strategies/index.ts):   *)
(* a manifest is looked up, the state of the system is condensed into six  *)
(* facts, and a behaviour tree, a state machine, a STRIPS planner, a SHOP  *)
(* planner or a value iteration is run over them.  The module models the   *)
(* look-up, the facts and the five formalisms; what the strategies print   *)
(* and Q-learning, which is random sampling in floating point, are left    *)
(* out.                                                                    *)
(***************************************************************************)
EXTENDS Naturals, Integers, Sequences, FiniteSets, TLC, FiniteSetsExt, SequencesExt

CONSTANTS
    Requests,    \* [strategy, id, target, mechanism] of a command; id is "" without --strategy-profile
    Libraries,   \* contents of config/strategies: directories with their files, in readdir's order
    Statuses,    \* what CodexSynapticSystem.getStatus may report
    GoapFolders  \* contents of config/goap: files, in readdir's order

FactIds == {"systemHealth", "meshHealth", "consensusHealth", "swarmReadiness", "goapCoverage",
            "autoscalerBalance"}
Supported == {"behavior-tree", "fsm", "strips", "shop", "mdp"}

ASSUME StrategiesAssumption ==
    /\ \A r \in Requests : r.strategy \in Supported /\ r.target \in Nat
    /\ \A l \in Libraries : DOMAIN l # {}

VARIABLES
    request, library, status, folder,   \* the inputs
    at,        \* "load", "facts", a strategy, "over" or "threw"
    next,      \* the file loadStrategyManifest reads next
    found,     \* the definition in it, or <<>>
    facts,
    checked,   \* evaluations that were run (visitedStages)
    place,     \* state of the FSM, root task of SHOP or iteration of the MDP it is at
    steps,     \* transitions the FSM has taken
    queue, visited,  \* search of STRIPS
    plan,      \* plan found (STRIPS), steps pushed (SHOP) or policy (MDP)
    ok,        \* verdict so far
    world,     \* facts as the planned steps change them (SHOP)
    values     \* of the MDP's states

inputs == <<request, library, status, folder>>
strategiesVars == <<inputs, at, next, found, facts, checked, place, steps, queue, visited, plan, ok, world,
          values>>
body == found[1]

-----------------------------------------------------------------------------
(* Facts (activation-helpers.ts).                                           *)
MeshQuorum(target) == Max({3, (6 * target) \div 10})
FactsOf(s, r, goaps) ==
    [systemHealth |-> s.registry /\ s.scheduler /\ s.errorAgents = 0,
     meshHealth |-> s.mesh /\ s.nodes >= MeshQuorum(r.target) /\ s.links >= 2,
     consensusHealth |-> s.mechanism = r.mechanism /\ s.proposals = 0,
     swarmReadiness |-> s.swarm /\ s.particles >= Max({1, s.available}),
     goapCoverage |-> goaps # {},
     autoscalerBalance |-> /\ s.cpu >= 10 /\ s.cpu <= 80
                           /\ s.headroom >= 256
                           /\ s.active >= Min({r.target, 3})]

\* GoapRegistry.ensureLoaded keeps the well-formed manifests, by id; a later file replaces an
\* earlier one of the same id.
GoapManifests(files) == {f.id : f \in {g \in Range(files) : g.yaml /\ g.id # "" /\ g.goals > 0}}

-----------------------------------------------------------------------------
(* Partial truth assignments: states, preconditions, effects and goals.     *)
Satisfied(s, wanted) == \A k \in DOMAIN wanted : k \in DOMAIN s /\ s[k] = wanted[k]
Effect(s, effects) == effects @@ s
\* evaluateCondition: an unknown fact counts as false, a condition that does not parse is false.
Holds(condition) ==
    /\ condition.parses
    /\ condition.negated # \A k \in condition.all : k \in FactIds /\ facts[k]

-----------------------------------------------------------------------------
(* Behaviour tree: verdict, evaluations run and whether an unknown node or  *)
(* evaluation is met, for each node; trees are finite.                      *)
RECURSIVE Eval(_, _), EvalAll(_, _, _)
Bad == [ok |-> FALSE, stages |-> {}, throws |-> TRUE]
\* Children in order, up to the first verdict in stop.
EvalAll(nodes, children, stop) ==
    IF children = <<>> THEN [oks |-> 0, last |-> <<>>, stages |-> {}, throws |-> FALSE]
    ELSE LET c == Eval(nodes, Head(children))
             rest == IF c.throws \/ c.ok \in stop
                     THEN [oks |-> 0, last |-> <<>>, stages |-> {}, throws |-> c.throws]
                     ELSE EvalAll(nodes, Tail(children), stop)
         IN [oks |-> rest.oks + IF c.ok THEN 1 ELSE 0,
             last |-> IF rest.last = <<>> THEN <<c.ok>> ELSE rest.last,
             stages |-> c.stages \cup rest.stages, throws |-> rest.throws]
\* `threshold ?? children.length`
Threshold(node) == IF node.threshold = <<>> THEN Len(node.children) ELSE node.threshold[1]
Enough(oks, threshold) == oks >= threshold
Eval(nodes, id) ==
    IF id \notin DOMAIN nodes THEN Bad
    ELSE LET n == nodes[id] IN
         CASE n.type = "task" ->
                IF n.evaluation \notin FactIds THEN Bad
                ELSE [ok |-> facts[n.evaluation], stages |-> {n.evaluation}, throws |-> FALSE]
           [] n.type = "sequence" ->
                LET e == EvalAll(nodes, n.children, {FALSE})
                IN [ok |-> e.last # <<FALSE>>, stages |-> e.stages, throws |-> e.throws]
           [] n.type = "selector" ->
                LET e == EvalAll(nodes, n.children, {TRUE})
                IN [ok |-> e.last = <<TRUE>>, stages |-> e.stages, throws |-> e.throws]
           [] n.type = "parallel" ->
                LET e == EvalAll(nodes, n.children, {})
                IN [ok |-> Enough(e.oks, Threshold(n)), stages |-> e.stages, throws |-> e.throws]

-----------------------------------------------------------------------------
(* SHOP: what a task adds to the plan and makes of the state.  The steps a  *)
(* method pushed before one of its subtasks failed stay in the plan.        *)
RECURSIVE ApplyTask(_, _, _), ApplyAll(_, _, _)
Failed(s) == [ok |-> FALSE, state |-> s, plan |-> <<>>]
ApplyAll(tasks, s, depth) ==
    IF tasks = <<>> THEN [ok |-> TRUE, state |-> s, plan |-> <<>>]
    ELSE LET r == ApplyTask(Head(tasks), s, depth) IN
         IF ~r.ok THEN r
         ELSE LET q == ApplyAll(Tail(tasks), r.state, depth) IN [q EXCEPT !.plan = r.plan \o @]
ApplyTask(task, s, depth) ==
    IF depth > body.maxDepth THEN Failed(s)
    ELSE IF task \in DOMAIN body.methods THEN
        LET m == body.methods[task] IN
        IF ~Holds(m.guard) THEN Failed(s)
        ELSE LET r == ApplyAll(m.subtasks, s, depth + 1)
             IN IF r.ok THEN r ELSE [r EXCEPT !.state = s]
    ELSE IF task \in DOMAIN body.operators /\ Satisfied(s, body.operators[task].pre)
    THEN [ok |-> TRUE, state |-> Effect(s, body.operators[task].effects), plan |-> <<task>>]
    ELSE Failed(s)

-----------------------------------------------------------------------------
(* MDP: values are scaled by Scale(i) after i iterations, probabilities are *)
(* halves and the discount is one half.                                     *)
Scale(i) == 4 ^ i
ActionsOf(mdp, s) == SelectSeq(mdp.actions, LAMBDA a : a.state = s)
ValueIn(v, s) == IF s \in DOMAIN v THEN v[s] ELSE 0
\* Scale(i + 1) times the value of an action whose outcomes are worth v, scaled by Scale(i).
ActionValue(a, v, i) ==
    FoldSeq(LAMBDA t, sum : sum + t.halves * (2 * Scale(i) * t.reward + ValueIn(v, t.to)),
            0, a.transitions)
Improved(mdp, v, i) ==
    [s \in DOMAIN mdp.reward |->
        LET acts == ActionsOf(mdp, s) IN
        Scale(i + 1) * mdp.reward[s]
          + IF acts = <<>> THEN 0 ELSE Max({ActionValue(a, v, i) : a \in Range(acts)})]
\* The first action of the highest value.
Greedy(mdp, v, i, s) ==
    LET acts == ActionsOf(mdp, s)
        best == Max({ActionValue(a, v, i) : a \in Range(acts)})
    IN acts[Min({k \in DOMAIN acts : ActionValue(acts[k], v, i) = best})]

-----------------------------------------------------------------------------
StrategiesStart(r, l, st, fo) ==
    /\ request = r /\ library = l /\ status = st /\ folder = fo
    /\ at = "load" /\ next = 1 /\ found = <<>>
    /\ facts = [f \in FactIds |-> FALSE]
    /\ checked = {} /\ place = 0 /\ steps = 0
    /\ queue = <<>> /\ visited = {} /\ plan = <<>>
    /\ ok = FALSE /\ world = <<>> /\ values = <<>>
StrategiesInit == \E r \in Requests, l \in Libraries, st \in Statuses, fo \in GoapFolders :
                    StrategiesStart(r, l, st, fo)

work == <<checked, place, steps, queue, visited, plan, ok, world, values>>

\* The manifests of a strategy are looked for in a directory of its name.
Folder(strategy) == strategy
Files == SelectSeq(library[Folder(request.strategy)], LAMBDA f : f.yaml)
Fits(f) == request.id \in {"", f.name} \cup {IF f.id = "" THEN f.name ELSE f.id}

\* loadStrategyManifest reads file after file; one that does not parse is skipped.
FindsManifest ==
    /\ at = "load"
    /\ IF Folder(request.strategy) \notin DOMAIN library THEN at' = "threw" /\ UNCHANGED <<next, found>>
       ELSE IF next > Len(Files) THEN at' = "threw" /\ UNCHANGED <<next, found>>
       ELSE IF Files[next].parses /\ Fits(Files[next])
       THEN found' = Files[next].body /\ at' = "facts" /\ UNCHANGED next
       ELSE next' = next + 1 /\ UNCHANGED <<at, found>>
    /\ UNCHANGED <<inputs, facts, work>>

\* buildActivationSnapshot, and what the strategy does before its loop.
TakesSnapshot ==
    /\ at = "facts"
    /\ facts' = FactsOf(status, request, GoapManifests(folder))
    /\ at' = IF found = <<>> THEN "threw" ELSE request.strategy
    /\ IF found = <<>> THEN UNCHANGED work
       ELSE /\ place' = CASE request.strategy = "fsm" -> body.initial
                          [] request.strategy \in {"shop", "mdp"} -> 1
                          [] OTHER -> 0
            /\ queue' = IF request.strategy = "strips"
                        THEN <<[state |-> facts' @@ body.initial, plan |-> <<>>]>> ELSE <<>>
            /\ world' = IF request.strategy = "shop" THEN facts' ELSE <<>>
            /\ ok' = (request.strategy = "shop")
            /\ values' = IF request.strategy = "mdp" THEN [s \in DOMAIN body.reward |-> 0] ELSE <<>>
            /\ UNCHANGED <<checked, steps, visited, plan>>
    /\ UNCHANGED <<inputs, next, found>>

\* executeBehaviorTreeStrategy.
WalksTree ==
    /\ at = "behavior-tree"
    /\ \E e \in {Eval(body.nodes, body.root)} :
          /\ ok' = e.ok
          /\ checked' = e.stages
          /\ at' = IF e.throws THEN "threw" ELSE "over"
    /\ UNCHANGED <<inputs, next, found, facts, place, steps, queue, visited, plan, world, values>>

\* One round of executeFsmStrategy: the entry checks, then the first transition that holds.
EntryChecks(s) == body.states[s].onEnter
Verdict(s) == s \in body.terminal
Transitions(s) == SelectSeq(body.states[s].transitions, LAMBDA t : Holds(t.condition))
FsmEnds(s) == at' = "over" /\ ok' = Verdict(s) /\ UNCHANGED <<place, steps>>
FsmTurns ==
    /\ at = "fsm"
    /\ IF steps = body.maxSteps \/ place \notin DOMAIN body.states
       THEN FsmEnds(place) /\ UNCHANGED checked
       ELSE IF \E id \in Range(EntryChecks(place)) : id \notin FactIds
       THEN at' = "threw" /\ UNCHANGED <<ok, place, steps, checked>>
       ELSE /\ checked' = checked \cup Range(EntryChecks(place))
            /\ IF Verdict(place) \/ Transitions(place) = <<>> THEN FsmEnds(place)
               ELSE /\ place' = Transitions(place)[1].to
                    /\ steps' = steps + 1
                    /\ UNCHANGED <<at, ok>>
    /\ UNCHANGED <<inputs, next, found, facts, queue, visited, plan, world, values>>

\* One round of the search of executeStripsStrategy.
Applicable(s) == SelectSeq(body.operators, LAMBDA o : Satisfied(s, o.pre))
Signature(s) == [k \in DOMAIN s \cup DOMAIN body.goal |-> k \in DOMAIN s /\ s[k]]
Successors(c) ==
    [k \in DOMAIN Applicable(c.state) |->
        [state |-> Effect(c.state, Applicable(c.state)[k].effects),
         plan |-> Append(c.plan, Applicable(c.state)[k].name)]]
TooDeep_OffByOne(c) == Len(c.plan) >= body.maxDepth
TooDeep(c) == Len(c.plan) > body.maxDepth
StripsExplores ==
    /\ at = "strips"
    /\ IF queue = <<>> THEN at' = "over" /\ ok' = FALSE /\ UNCHANGED <<queue, visited, plan>>
       ELSE LET c == Head(queue) IN
            IF Signature(c.state) \in visited \/ TooDeep(c)
            THEN queue' = Tail(queue) /\ UNCHANGED <<at, ok, visited, plan>>
            ELSE /\ visited' = visited \cup {Signature(c.state)}
                 /\ IF Satisfied(c.state, body.goal)
                    THEN plan' = c.plan /\ ok' = TRUE /\ at' = "over" /\ queue' = Tail(queue)
                    ELSE queue' = Tail(queue) \o Successors(c) /\ UNCHANGED <<at, ok, plan>>
    /\ UNCHANGED <<inputs, next, found, facts, checked, place, steps, world, values>>

\* executeShopStrategy, a root task at a time; a failure does not stop it.
ShopApplies ==
    /\ at = "shop"
    /\ \E r \in {ApplyTask(body.tasks[place], world, 0)} :
          /\ world' = r.state
          /\ plan' = plan \o r.plan
          /\ ok' = (ok /\ r.ok)
    /\ IF place = Len(body.tasks) THEN at' = "over" /\ UNCHANGED place
       ELSE place' = place + 1 /\ UNCHANGED at
    /\ UNCHANGED <<inputs, next, found, facts, checked, steps, queue, visited, values>>

\* executeMdpStrategy, an iteration at a time; the policy is greedy for the last values.
MdpIterates ==
    /\ at = "mdp"
    /\ IF place > body.iterations
       THEN /\ plan' = [s \in {a.state : a \in Range(body.actions)} |->
                           Greedy(body, values, body.iterations, s).name]
            /\ at' = "over" /\ ok' = TRUE /\ UNCHANGED <<place, values>>
       ELSE /\ values' = Improved(body, values, place - 1)
            /\ place' = place + 1
            /\ UNCHANGED <<at, ok, plan>>
    /\ UNCHANGED <<inputs, next, found, facts, checked, steps, queue, visited, world>>

StrategiesNext == \/ FindsManifest \/ TakesSnapshot \/ WalksTree \/ FsmTurns \/ StripsExplores
        \/ ShopApplies \/ MdpIterates


-----------------------------------------------------------------------------
\* The states reachable from s by plans of exactly n operators, and the operator of a name.
StartState == facts @@ body.initial
RECURSIVE After(_)
After(n) == IF n = 0 THEN {StartState}
            ELSE UNION {{Effect(s, o.effects) : o \in Range(Applicable(s))} : s \in After(n - 1)}
Named(n) == CHOOSE o \in Range(body.operators) : o.name = n
RECURSIVE Runs(_, _, _)
Runs(steps_, op(_), s) ==
    \/ steps_ = <<>>
    \/ /\ Satisfied(s, op(Head(steps_)).pre)
       /\ Runs(Tail(steps_), op, Effect(s, op(Head(steps_)).effects))
RECURSIVE Final(_, _, _)
Final(steps_, op(_), s) ==
    IF steps_ = <<>> THEN s ELSE Final(Tail(steps_), op, Effect(s, op(Head(steps_)).effects))

\* "A bounded breadth-first search": a STRIPS plan can be executed from the facts, reaches the
\* goal and is no longer than any other; and when every variable of the goal has a value to
\* start with, one is found if a plan of at most maxDepth operators exists.
StripsPlanIsShortest ==
    request.strategy = "strips" /\ at = "over" =>
        LET Good(n) == \E s \in After(n) : Satisfied(s, body.goal) IN
        /\ ok => /\ Runs(plan, Named, StartState)
                 /\ Satisfied(Final(plan, Named, StartState), body.goal)
                 /\ \A n \in 0..(Len(plan) - 1) : ~Good(n)
        /\ ~ok /\ DOMAIN body.goal \subseteq DOMAIN StartState =>
              \A n \in 0..body.maxDepth : ~Good(n)

\* When SHOP reports success the steps it lists, whatever was tried and undone before, can be
\* executed one after the other from the facts and lead to the state it ended in.
ShopPlanRuns ==
    request.strategy = "shop" /\ at = "over" /\ ok =>
        LET op(n) == body.operators[n] IN Runs(plan, op, facts) /\ Final(plan, op, facts) = world

\* A verdict is backed by checks: a tree that fails, and could have succeeded, has run a check
\* that failed; one that succeeds, and could have failed, has run a check that passed; a state
\* machine that accepts has run the entry checks of the state it ends in, or had no step left
\* to, or ended in a state its manifest does not define.
Leaves(n) == n.type = "task" \/ n.children # <<>>
Attainable(n) == n.type = "parallel" => Threshold(n) \in 1..Len(n.children)
TreeIsBacked ==
    (\A n \in Range(body.nodes) : Leaves(n) /\ Attainable(n)) =>
        \E id \in checked : facts[id] = ok
MachineIsBacked ==
    ok => \/ steps = body.maxSteps
          \/ place \notin DOMAIN body.states
          \/ Range(EntryChecks(place)) \subseteq checked
VerdictIsBacked ==
    at = "over" => /\ request.strategy = "behavior-tree" => TreeIsBacked
                   /\ request.strategy = "fsm" => MachineIsBacked

\* The policy of a value iteration is optimal for as many steps as it iterated, and one more:
\* it begins a course of action, which may choose anew at every step, that no other excels
\* from any state.  (Courses are compared by their exact returns, not by the iteration's values.)
Decisions(mdp) == [{a.state : a \in Range(mdp.actions)} -> Range(mdp.actions)]
Legal(mdp, c) == \A s \in DOMAIN c : c[s].state = s
Courses(mdp, n) == [1..n -> {c \in Decisions(mdp) : Legal(mdp, c)}]
\* Scale(n) times the expected return of the last n steps of a course.
RECURSIVE Return(_, _, _)
Return(mdp, course, n) ==
    IF n = 0 THEN [s \in DOMAIN mdp.reward |-> 0]
    ELSE LET rest == Return(mdp, course, n - 1)
         IN [s \in DOMAIN mdp.reward |->
                Scale(n) * mdp.reward[s]
                  + IF s \in DOMAIN course[n] THEN ActionValue(course[n][s], rest, n - 1) ELSE 0]
PolicyIsOptimal ==
    request.strategy = "mdp" /\ at = "over" =>
        LET n == body.iterations + 1
            returns == [c \in Courses(body, n) |-> Return(body, c, n)]
        IN \E c \in DOMAIN returns :
               /\ \A s \in DOMAIN plan : c[n][s].name = plan[s]
               /\ \A d \in DOMAIN returns : \A s \in DOMAIN body.reward :
                      returns[d][s] <= returns[c][s]

\* What each strategy answers is right by its own terms: the STRIPS plan is a shortest one, the steps
\* of a SHOP plan can be run, a verdict of a tree or an automaton has checks that support it, and the
\* policy is the greedy one of the values (src/reasoning/strategies/index.ts).
StrategiesAreSound == StripsPlanIsShortest /\ ShopPlanRuns /\ VerdictIsBacked /\ PolicyIsOptimal
=============================================================================
