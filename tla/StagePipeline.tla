---------------------------- MODULE StagePipeline ----------------------------
(*****************************************************************************)
(* The stages of a workflow: CodexSynapticSystem.executeTask behind its      *)
(* gate (src/core/system.ts).  The prompt chooses the stages, each is given  *)
(* what it reads of the results before it, an agent or a hosted model        *)
(* answers, and the results become the outcome and the rows kept of it       *)
(* (src/core/workflow-helpers.ts, src/agents).  When an agent serves a stage *)
(* is module TaskScheduler.  A result is the set of its fields that have     *)
(* something in them: nothing else of it is asked about.                     *)
(*****************************************************************************)
EXTENDS Naturals, Sequences, FiniteSets

CONSTANTS
    Flows,        \* the executeTask calls
    FlowPrompts   \* prompts: which topics they mention; "untidy" if the linter minds their
                  \* text, "long" if it has five parts or more

Topics == {"repository", "docs", "react", "research", "architecture", "knowledge", "analysis",
           "code", "testing"}
ASSUME FlowPromptsAssumption == \A p \in FlowPrompts : p \subseteq Topics \cup {"untidy", "long"}

VARIABLES
    asking,    \* the prompt of a flow
    agenda,    \* its stages that are not finished
    at,        \* "idle", "next", "agent" or "model" (who works at the stage), "over", "failed"
    yields,    \* its finished stages, with the fields of their results
    usable,    \* isReady of the OpenAI client
    kept       \* rows <<namespace, flow>> of the memory

pipelineVars == <<asking, agenda, at, yields, usable, kept>>

-----------------------------------------------------------------------------
(* The stages.                                                              *)

\* buildWorkflow, in its order.
Stages == <<"research-scan", "data-analysis", "react-plan", "architecture-blueprint", "code-generation",
            "code-lint", "validation", "knowledge-distillation", "insight-summary", "openai-synthesis">>
StageIds == {Stages[i] : i \in DOMAIN Stages}
Turn == [id \in StageIds |-> CHOOSE i \in DOMAIN Stages : Stages[i] = id]

\* The topics that call for a stage.
Coding == {"code", "repository", "react"}
TopicsOf == [id \in StageIds \ {"insight-summary", "openai-synthesis"} |->
    CASE id = "research-scan" -> {"research", "react", "docs"}
      [] id = "data-analysis" -> {"analysis", "repository", "docs", "react"}
      [] id = "react-plan" -> {"react"}
      [] id = "architecture-blueprint" -> {"architecture", "react"}
      [] id \in {"code-generation", "code-lint"} -> Coding
      [] id = "validation" -> Coding \cup {"testing"}
      [] id = "knowledge-distillation" -> {"docs", "knowledge", "react"}]
Called(p) == {id \in DOMAIN TopicsOf : TopicsOf[id] \cap p # {}}

\* The summary ends every workflow, a synthesis follows it when the client is ready.
BuildWorkflow(p, ready) ==
    Called(p) \cup {"insight-summary"} \cup {id \in {"openai-synthesis"} : ready}

\* payloadBuilder: a stage is given an input when the result it comes from is there and, where
\* it names a field, has that field.
From(reader, input, stage, field) == [reader |-> reader, input |-> input, stage |-> stage, field |-> field]
Reads ==
    {From("research-scan", "context", "data-analysis", "all"),
     From("react-plan", "analysis", "data-analysis", "all"),
     From("architecture-blueprint", "requirements", "react-plan", "actions"),
     From("architecture-blueprint", "constraints", "data-analysis", "insights"),
     From("code-lint", "code", "code-generation", "generatedCode"),
     From("validation", "code", "code-generation", "generatedCode"),
     From("knowledge-distillation", "plan", "react-plan", "tot"),
     From("knowledge-distillation", "research", "research-scan", "all"),
     From("knowledge-distillation", "architecture", "architecture-blueprint", "all")}
Offers(y, stage, field) == stage \in DOMAIN y /\ (field = "all" \/ field \in y[stage])
Given(id, y) == {r.input : r \in {x \in Reads : x.reader = id /\ Offers(y, x.stage, x.field)}}

-----------------------------------------------------------------------------
(* What the agents answer.                                                  *)

ResearchScan(given) == {"summary", "insights"} \cup {x \in {"contextEcho"} : "context" \in given}

\* DataWorker: the plan of the tree of thought, its actions and its run within it, is one field.
DataWork(id, p) ==
    CASE id = "data-analysis" -> {"statistics"} \cup (IF "long" \in p THEN {} ELSE {"insights"})
      [] id = "react-plan" -> {"objective", "plan", "summary"}
      [] id = "insight-summary" -> {"objective", "summary"}

\* The payload has its lists whether there is something in them or not: the defaults are not used.
ArchitecturePlan(given) == {"summary", "components", "recommendations"} \cup given

\* performStaticLint minds a missing text, a long one and debug output.
CodeWork(id, given, p) ==
    CASE id = "code-generation" -> {"generatedCode", "summary"}
      [] id = "code-lint" -> {"status"} \cup (IF "code" \in given /\ "untidy" \notin p THEN {} ELSE {"issues"})

\* Mutated form: that the code is missing is not a finding.
ValidateCode_Missing(given) == {"status", "findings", "passed"}
ValidateCode(given) == {"status", "findings"} \cup {x \in {"passed"} : "code" \in given}

\* The knowledge updates, by where they come from.
Distilled(given) == {"summary", "documentationDraft"} \cup given

AgentAnswer(id, given, p) ==
    CASE id = "research-scan" -> ResearchScan(given)
      [] id \in {"data-analysis", "react-plan", "insight-summary"} -> DataWork(id, p)
      [] id = "architecture-blueprint" -> ArchitecturePlan(given)
      [] id \in {"code-generation", "code-lint"} -> CodeWork(id, given, p)
      [] id = "validation" -> ValidateCode(given)
      [] id = "knowledge-distillation" -> Distilled(given)
      [] id = "openai-synthesis" -> {}    \* any agent: none knows this task, or has a summary of it

\* normalizeOpenAIResponse: the fields of the JSON asked for, or the text as the summary; each may be empty.
ModelAnswers == SUBSET {"summary", "finalAnswer"}

-----------------------------------------------------------------------------
(* The outcome.                                                             *)

\* buildWorkflowSummary, as what it says of the workflow.
Told == {"research-scan", "react-plan", "architecture-blueprint", "knowledge-distillation",
         "insight-summary", "openai-synthesis"}
Summary(y) ==
    {s \in Told : Offers(y, s, "summary")}
    \cup {x \in {"scaffold"} : Offers(y, "code-generation", "generatedCode")}
    \cup {x \in {"lint passed"} : ~Offers(y, "code-lint", "issues")}
    \cup {x \in {"gates satisfied"} : Offers(y, "validation", "passed")}

\* persistWorkflowArtifacts, with queueTotFollowUps.
TotRows(f) ==
    IF Offers(yields[f], "react-plan", "tot") THEN {"tot_runs", "tot_followups"} \X {f} ELSE {}

-----------------------------------------------------------------------------
PipelineStart(ready) ==
    /\ asking = [f \in Flows |-> {}]
    /\ agenda = [f \in Flows |-> {}]
    /\ at = [f \in Flows |-> "idle"]
    /\ yields = [f \in Flows |-> <<>>]
    /\ usable = ready
    /\ kept = {}

PassesGate(f, p) ==
    /\ at[f] = "idle"
    /\ asking' = [asking EXCEPT ![f] = p]
    /\ agenda' = [agenda EXCEPT ![f] = BuildWorkflow(p, usable)]
    /\ at' = [at EXCEPT ![f] = "next"]
    /\ UNCHANGED <<yields, usable, kept>>

\* The stage whose turn it is.
Stage(f) == CHOOSE id \in agenda[f] : \A other \in agenda[f] : Turn[id] <= Turn[other]

\* shouldExecuteStageWithOpenAI asks again whether the client is ready.
TakesStage(f) ==
    /\ at[f] = "next" /\ agenda[f] # {}
    /\ at' = [at EXCEPT ![f] = IF Stage(f) = "openai-synthesis" /\ usable THEN "model" ELSE "agent"]
    /\ UNCHANGED <<asking, agenda, yields, usable, kept>>

With(y, id, fields) == [s \in DOMAIN y \cup {id} |-> IF s = id THEN fields ELSE y[s]]
StageEndsWith(f, fields) ==
    /\ yields' = [yields EXCEPT ![f] = With(@, Stage(f), fields)]
    /\ agenda' = [agenda EXCEPT ![f] = @ \ {Stage(f)}]
    /\ at' = [at EXCEPT ![f] = "next"]
    /\ UNCHANGED <<asking, usable>>
StageAnswers(f) ==
    \/ /\ at[f] = "agent"
       /\ StageEndsWith(f, AgentAnswer(Stage(f), Given(Stage(f), yields[f]), asking[f]))
       /\ UNCHANGED kept
    \/ /\ at[f] = "model"
       /\ \E fields \in ModelAnswers : StageEndsWith(f, fields)
       /\ kept' \in {kept, kept \cup {<<"openai_responses", f>>}}    \* storing it may fail

\* The task fails or times out, or the call of the model does.
StageThrows(f) ==
    /\ at[f] \in {"agent", "model"}
    /\ at' = [at EXCEPT ![f] = "failed"]
    /\ UNCHANGED <<asking, agenda, yields, usable, kept>>

Concludes(f) ==
    /\ at[f] = "next" /\ agenda[f] = {}
    /\ kept' = kept \cup TotRows(f)
    /\ at' = [at EXCEPT ![f] = "over"]
    /\ UNCHANGED <<asking, agenda, yields, usable>>

\* disableForSession, when the API refuses the key.
KeyRefused ==
    /\ usable /\ usable' = FALSE
    /\ UNCHANGED <<asking, agenda, at, yields, kept>>

FlowStep(f) == TakesStage(f) \/ StageAnswers(f) \/ StageThrows(f) \/ Concludes(f)
PipelineStep == KeyRefused \/ \E f \in Flows : FlowStep(f) \/ \E p \in FlowPrompts : PassesGate(f, p)

FlowsAtRest == \A f \in Flows : at[f] \in {"idle", "over", "failed"}

-----------------------------------------------------------------------------
(* Properties.                                                              *)

\* A workflow that ends without an error has done what its prompt calls for, and its summary is
\* true of it: code was written where it was called for, it passed the gates, and the linter was
\* content exactly where it had nothing to mind (buildWorkflow, buildWorkflowSummary).
SummaryIsTrue ==
    \A f \in Flows : at[f] = "over" =>
        LET coding == asking[f] \cap Coding # {}
        IN /\ Called(asking[f]) \subseteq DOMAIN yields[f]
           /\ coding <=> "scaffold" \in Summary(yields[f])
           /\ coding <=> "gates satisfied" \in Summary(yields[f])
           /\ coding => ("lint passed" \in Summary(yields[f]) <=> "untidy" \notin asking[f])

\* "The outputs are automatically persisted to the Codex memory store under the `tot_runs` namespace":
\* of every workflow that planned with the tree of thought. The plan is looked for beside, not in, the
\* field the DataWorker puts it in, so that nothing is ever stored.
TotRunsAreKept ==
    \A f \in Flows : at[f] = "over" /\ "react-plan" \in DOMAIN yields[f] => <<"tot_runs", f>> \in kept
=============================================================================
