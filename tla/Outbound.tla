------------------------------ MODULE Outbound ------------------------------
(*****************************************************************************)
(* The parts at the edge of the system: hosted models, bridged messages,     *)
(* hive-mind commands, the instructions for the Codex CLI, the GUI's client, *)
(* the metric exporter, the settings a process starts with, and what a       *)
(* workflow makes of its prompt (which asks hosted models too).  None of     *)
(* them uses the state of another, so that each behaviour exercises one,     *)
(* its errand, while the others rest.                                        *)
(*****************************************************************************)
EXTENDS ModelBackend, McpBridge, HiveMind, CodexPassthrough, GuiClient, Metrics, Settings,
        StagePipeline

CONSTANT Errands    \* the errands looked at

VARIABLE errand    \* which of them this behaviour is about

outboundVars == <<errand, backendVars, bridgeVars, hiveVars, passthroughVars, guiVars, metricsVars, settingsVars,
                  pipelineVars>>

BackendRests == BackendStart("none", CHOOSE r \in Routings : TRUE, CHOOSE t \in Timelines : TRUE)
HiveRests == HiveStart(CHOOSE s \in Spawns : TRUE, CHOOSE t \in Reviews : TRUE, FALSE)
PassthroughRests == PassthroughStart(CHOOSE x \in Installations : TRUE)
MetricsRests == MetricsStart([w \in Writers |-> <<>>], NoTenant, FALSE)
SettingsRests == SettingsStart(NoFile, CHOOSE files \in EnvFiles : TRUE)

OutboundInit ==
    /\ errand \in Errands
    /\ IF errand = "models" THEN BackendInit ELSE BackendRests
    /\ IF errand = "bridge" THEN \E known \in BOOLEAN : BridgeStart(known) ELSE BridgeStart(FALSE)
    /\ IF errand = "hive" THEN HiveInit ELSE HiveRests
    /\ IF errand = "codex" THEN \E x \in Installations : PassthroughStart(x) ELSE PassthroughRests
    /\ GuiStart
    /\ IF errand = "metrics"
       THEN \E j \in Journals, s \in Scopes, mode \in TenancyModes : MetricsStart(j, s, mode)
       ELSE MetricsRests
    /\ IF errand = "settings" THEN \E files \in EnvFiles : SettingsStart(NoFile, files) ELSE SettingsRests
    /\ IF errand = "workflow" THEN \E ready \in BOOLEAN : PipelineStart(ready) ELSE PipelineStart(FALSE)

\* A step of one errand: nothing else moves.
On(e) ==
    /\ errand = e /\ UNCHANGED errand
    /\ IF e = "models" THEN TRUE ELSE UNCHANGED backendVars
    /\ IF e = "bridge" THEN TRUE ELSE UNCHANGED bridgeVars
    /\ IF e = "hive" THEN TRUE ELSE UNCHANGED hiveVars
    /\ IF e = "codex" THEN TRUE ELSE UNCHANGED passthroughVars
    /\ IF e = "gui" THEN TRUE ELSE UNCHANGED guiVars
    /\ IF e = "metrics" THEN TRUE ELSE UNCHANGED metricsVars
    /\ IF e = "settings" THEN TRUE ELSE UNCHANGED settingsVars
    /\ IF e = "workflow" THEN TRUE ELSE UNCHANGED pipelineVars

OutboundNext ==
    \/ On("models") /\ BackendStep
    \/ On("bridge") /\ BridgeStep
    \/ On("hive") /\ HiveStep
    \/ On("codex") /\ PassthroughStep
    \/ On("gui") /\ GuiStep
    \/ On("metrics") /\ MetricsStep
    \/ On("settings") /\ SettingsStep
    \/ On("workflow") /\ PipelineStep

\* Requests and reads end because of their time-outs, timers fire, and statements are executed.
\* Nothing is assumed of agents, operators or the other systems.
OutboundSpec ==
    /\ OutboundInit /\ [][OutboundNext]_outboundVars
    /\ \A c \in Calls : WF_outboundVars(On("models") /\ CallStep(c))
    /\ \A m \in Messages : WF_outboundVars(On("bridge") /\ MessageStep(m))
    /\ WF_outboundVars(On("hive") /\ HiveWork)
    /\ \A t \in Terminals : WF_outboundVars(On("codex") /\ TerminalStep(t))
    /\ \A r \in Requests : WF_outboundVars(On("gui") /\ RequestStep(r))
    /\ WF_outboundVars(On("metrics") /\ MetricsStep)
    /\ \A p \in Processes : WF_outboundVars(On("settings") /\ ProcessStep(p))
    /\ \A f \in Flows : WF_outboundVars(On("workflow") /\ FlowStep(f))

\* What is counted is what was recorded: the metrics add up and, from a memory opened with tenancy,
\* tell one tenant nothing of another, and the usage monitor counts every call of its window
\* (collectMetrics, UsageMonitor.getSummary).
CountsAreTrue == ReportAddsUp /\ ScopeHoldsWithTenancy /\ UsageIsCounted

\* What a workflow or a hive-mind command says at its end is what happened (buildWorkflowSummary,
\* orchestrateConsensus).
OutcomesAreTrue == SummaryIsTrue /\ ReviewReflectsOutcome

\* Whatever was begun ends (nothing is begun twice): a call has an answer or an error, a message a
\* report, a workflow its outcome, a hive-mind command its end and the end of its workflow and its timer, a passthrough its
\* exit code, a request of the GUI an answer, an error or nothing but the server to wait for, an export
\* its report, and a process its settings or its error (createResponse, sendMessage, useSystem,
\* executeCodexPassthrough, request, collectMetrics, load).
EveryErrandEnds ==
    <>[](/\ CallsAtRest /\ MessagesAtRest /\ TerminalsAtRest /\ RequestsAtRest /\ ProcessesAtRest
         /\ FlowsAtRest
         /\ errand = "hive" => HiveAtRest
         /\ errand = "metrics" => MetricsAtRest)
=============================================================================
