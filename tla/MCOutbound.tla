----------------------------- MODULE MCOutbound -----------------------------
\* Instances of the outbound parts: two prompts and three models, one message, the crews of the
\* documented defaults with an abridged list of worker types, two terminals, two requests of the GUI,
\* two writers and an export, two processes with two of the environment files' variables, two workflows.
EXTENDS Outbound, TLC

CONSTANTS c1, c2, m1, t1, t2

MCPrompts == c1 :> [topics |-> {"video"}, complex |-> FALSE] @@ c2 :> [topics |-> {}, complex |-> TRUE]
Route(stage, dynamic) ==
    [stage |-> stage, keywords |-> <<[topic |-> "video", model |-> "sora"]>>, heavy |-> "pro",
     default |-> "codex", baseline |-> "codex", dynamic |-> dynamic]
MCRoutings == {Route(<<"codex">>, TRUE), Route(<<>>, TRUE), Route(<<>>, FALSE)}
MCCatalog == "pro" :> <<"codex">> @@ "sora" :> <<"pro">>
MCDefaultModels == <<"mini">>
MCAlike == {<<"sora-dated", "sora">>}
MCTimelines == {<<{"codex", "pro"}, {"pro", "mini"}, {"mini"}>>, <<{"codex"}, {"sora-dated"}, {"sora", "codex"}>>}
FromZero(s) == [t \in 0..(Len(s) - 1) |-> s[t + 1]]
MCOffers == {FromZero(s) : s \in MCTimelines}

Order(type, n) == <<type, n>>
MCWorkers == <<"research_worker", "code_worker", "planning_worker", "review_worker">>
MCReinforcement == <<"research_worker", "code_worker", "review_worker">>
MCTypes == Range(MCWorkers) \cup
    {"swarm_coordinator", "topology_coordinator", "consensus_coordinator", "mcp_bridge", "a2a_bridge",
     "data_worker", "validation_worker"}
MCCrew == <<Order("code_worker", 2), Order("swarm_coordinator", 1), Order("consensus_coordinator", 2),
            Order("review_worker", 1), Order("planning_worker", 1)>>
Spawn(kind, agents, workers) ==
    [kind |-> kind, agents |-> agents, maxWorkers |-> workers, queen |-> FALSE, mcp |-> FALSE,
     bound |-> kind = "classic", attach |-> FALSE, manifest |-> <<>>, dry |-> FALSE,
     mechanism |-> "bft", mentioned |-> FALSE]
Doing(type) == [type |-> type, agents |-> <<Order("code_worker", 1), Order("data_worker", 20)>>]
Goap == [Spawn("goap", 0, 0) EXCEPT !.manifest = <<Doing("deploy_agents"), Doing("task"), Doing("files")>>]
MCSpawns == {[Spawn("classic", 4, 7) EXCEPT !.attach = TRUE, !.queen = TRUE],
             [Spawn("classic", 8, 7) EXCEPT !.mcp = TRUE],
             [Spawn("classic", 5, 7) EXCEPT !.mechanism = "raft", !.mentioned = TRUE],
             [Spawn("classic", 3, 7) EXCEPT !.mechanism = "raft"],
             Spawn("quick", 6, 0), Spawn("follow", 0, 0),
             Goap, [Goap EXCEPT !.dry = TRUE], [Goap EXCEPT !.manifest = <<Doing("deploy_agents"), Doing("deploy_agents")>>]}
MCReviews == {[mechanism |-> "raft", minVotes |-> 3, num |-> 1, den |-> 2, faultTolerance |-> NoValue, percent |-> 67],
              [mechanism |-> "bft", minVotes |-> 2, num |-> 2, den |-> 5, faultTolerance |-> 1, percent |-> 67],
              [mechanism |-> "pos", minVotes |-> 1, num |-> 1, den |-> 2, faultTolerance |-> NoValue, percent |-> 75]}
MCArtifacts == [validation : {"passed", "failed"}, lint : {"clean", "error"}]

Binaries(path, npx, strategy) == [path |-> path, npx |-> npx, strategy |-> strategy]
Several == Binaries(<<<<1, 2, 0>>, <<1, 10, 0>>, <<>>>>, <<<<1, 3, 0>>>>, "auto")
Behind == Binaries(<<<<>>, <<1, 2, 0>>>>, <<<<1, 3, 0>>>>, "auto")
Chosen == Binaries(<<<<2, 0, 0>>>>, <<<<1, 3, 0>>>>, "npx")
Nothing == Binaries(<<>>, <<>>, "auto")
MCInstallations == {Several, Behind, Chosen, Nothing}
MCChanges == {<<Behind, Several>>, <<Chosen, Nothing>>}

Tool(tenant, agent, success) ==
    [space |-> "tool_usage", tenant |-> tenant,
     data |-> [key |-> "use", tool |-> "planner", agent |-> agent, success |-> success]]
Plan(plan, tenant, status) ==
    [space |-> "reasoning_runs", tenant |-> tenant, data |-> [key |-> plan, type |-> "tot", status |-> status]]
Vote(tenant, accepted) ==
    [space |-> "consensus_events", tenant |-> tenant, data |-> [key |-> "vote", accepted |-> accepted]]
Scaled(n) == [space |-> "autoscaler_events", tenant |-> NoTenant, data |-> [key |-> "scale", change |-> n]]
Branch == [space |-> "tot_runs", tenant |-> "t", data |-> [key |-> "best", label |-> "branch"]]
MCJournals ==
    {[w1 |-> <<Plan("p", NoTenant, "running"), Plan("p", "t", "completed"), Tool("t", "coder", TRUE)>>,
      w2 |-> <<Plan("q", "u", "running"), Tool("u", "reviewer", FALSE), Vote("u", FALSE)>>],
     [w1 |-> <<Scaled(1), Plan("p", "t", "failed"), Vote("t", TRUE)>>,
      w2 |-> <<Branch, Tool(NoTenant, "coder", TRUE), Vote(NoTenant, FALSE)>>],
     [w1 |-> <<Plan("r", "t", "running")>>, w2 |-> <<Plan("r", "t", "completed")>>]}

Leaf(c) == [leaf |-> c, stakes |-> <<>>]
MCContents == {Leaf([minVotes |-> 2, timeout |-> 2000]), Leaf([minVotes |-> 0]), Leaf([scaleMax |-> 2])}
Sets(name, value) == name :> value
MCEnvFiles ==
    {<<Sets("OPENAI_API_KEY", "a"), Sets("OPENAI_API_KEY", "b") @@ Sets("TORCH_USE_MPS", "0"), <<>>>>,
     <<Sets("CUDA_VISIBLE_DEVICES", ""), Sets("CODEX_CONFIG_SKIP_DISK_IO", "1"), Sets("OPENAI_API_KEY", "c")>>}
MCOwnEnvs == {Sets("CUDA_VISIBLE_DEVICES", "1"), Sets("CODEX_CLI_ENV_AUTOLOAD", "0")}
Machine(smi, mac, profiler) == [smi |-> smi, mac |-> mac, ci |-> FALSE, profiler |-> profiler]
MCMachines == {Machine(<<2>>, FALSE, <<>>), Machine(<<>>, TRUE, <<1, TRUE>>)}
MCModes == {[timeout |-> 500], [mechanism |-> "bft", timeout |-> 2000]}
MCStakes == {"a" :> 2}

MCFlowPrompts == {{}, {"repository", "untidy"}, {"react", "long"}, {"testing"}, {"docs", "architecture"}}
=============================================================================
