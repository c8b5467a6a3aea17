------------------------------ MODULE Settings ------------------------------
(***************************************************************************)
(* What a process runs with: environment files (src/cli/env-bootstrap.ts),  *)
(* config/system.json (ConfigurationManager, src/core/config.ts), the GPU    *)
(* hints (src/core/gpu.ts), and the `consensus` commands that change the      *)
(* settings in memory (src/cli/index.ts).  A configuration is a record of     *)
(* its leaves and its stake table; fractions are percentages.                  *)
(***************************************************************************)
EXTENDS Naturals, FiniteSets, Sequences

CONSTANTS
    Processes,
    Shells,        \* processes whose user gives `consensus` commands
    Contents,      \* what an operator may write into system.json: [leaf, stakes], partial
    EnvFiles,      \* sequences of three: .env, .env.local, src/cli/.env; each what it sets
    OwnEnvs,       \* environments a process is started with
    Machines,      \* [smi, mac, ci, profiler]
    Modes,         \* what `consensus mode` may be told: [mechanism, timeout, quorum], partial
    StakeTables,        \* what `consensus stake --set` may be told
    MaxTrouble     \* crashes, I/O errors and edits

ASSUME SettingsAssumption ==
    /\ MaxTrouble \in Nat /\ Shells \subseteq Processes
    /\ EnvFiles # {} /\ \A files \in EnvFiles : files = [i \in 1..3 |-> files[i]]
    /\ \A u \in Modes : DOMAIN u \subseteq {"mechanism", "timeout", "quorum"}

\* getDefaultConfiguration: the leaves that are validated or that consensus uses.
DefaultConfiguration ==
    [leaf |-> [
        maxAgents |-> 100, heartbeatInterval |-> 30000, healingCooldown |-> 15000,
        meshRun |-> 3600000, meshHealing |-> 15000, swarmRun |-> 3600000,
        defaultPort |-> 8080, apiPort |-> 4242,
        mechanism |-> "raft", timeout |-> 10000, minVotes |-> 3, quorum |-> 50, stakeThreshold |-> 67,
        scaleMin |-> 4, scaleMax |-> 40, scaleUp |-> 75, scaleDown |-> 35, scaleCooldown |-> 45000,
        probeCacheTtl |-> 300000, engine |-> "local", dimensions |-> 32, backend |-> "native",
        sampleRate |-> 100, handoffDepth |-> 3, requestTimeout |-> 60000, tenantTasks |-> 10,
        mode |-> "cli", tuiTheme |-> "dark", refreshInterval |-> 1000, tier |-> "intermediate",
        windowWidth |-> 1200, windowHeight |-> 800, guiPort |-> 4242, guiTheme |-> "system"],
     stakes |-> <<>>]
ConsensusLeaves == {"mechanism", "timeout", "minVotes", "quorum", "stakeThreshold"}

\* mergeConfiguration: objects are merged key by key, at every depth.
Over(f, g) == [k \in DOMAIN f \cup DOMAIN g |-> IF k \in DOMAIN f THEN f[k] ELSE g[k]]
Merge(c, d) == [leaf |-> Over(d.leaf, c.leaf), stakes |-> Over(d.stakes, c.stakes)]

AtLeast ==
    [maxAgents |-> 1, heartbeatInterval |-> 1000, healingCooldown |-> 5000, meshRun |-> 0,
     meshHealing |-> 5000, swarmRun |-> 0, defaultPort |-> 1, apiPort |-> 1, timeout |-> 1000,
     minVotes |-> 1, stakeThreshold |-> 1, scaleMin |-> 1, scaleCooldown |-> 5000]
AtLeastOptional ==
    [probeCacheTtl |-> 0, dimensions |-> 1, sampleRate |-> 0, handoffDepth |-> 0,
     requestTimeout |-> 0, tenantTasks |-> 0]
AtLeastInterface == [refreshInterval |-> 100, windowWidth |-> 400, windowHeight |-> 300, guiPort |-> 1]
AtMost == [defaultPort |-> 65535, apiPort |-> 65535, guiPort |-> 65535, stakeThreshold |-> 100, sampleRate |-> 100]
OneOf ==
    [engine |-> {"local", "qdrant", "redis"},
     backend |-> {"native", "openai-responses", "openai-agents-sdk"},
     mode |-> {"cli", "tui", "gui"}, tier |-> {"beginner", "intermediate", "advanced"},
     tuiTheme |-> {"dark", "light", "high-contrast"}, guiTheme |-> {"dark", "light", "system"}]
\* validateConfiguration; mechanism and quorum are not looked at.
Valid(c) ==
    /\ \A bounds \in {AtLeast, AtLeastOptional, AtLeastInterface} :
           \A k \in DOMAIN bounds : c.leaf[k] >= bounds[k]
    /\ \A k \in DOMAIN AtMost : c.leaf[k] <= AtMost[k]
    /\ \A k \in DOMAIN OneOf : c.leaf[k] \in OneOf[k]
    /\ c.leaf.scaleMax >= c.leaf.scaleMin
    /\ c.leaf.scaleUp > c.leaf.scaleDown

-----------------------------------------------------------------------------
(* GPU detection *)

\* smi: <<>> if it is absent, fails or times out, or <<GPUs>> that it lists.
CudaDevices(m) == IF m.smi = <<>> THEN 0 ELSE m.smi[1]
\* profiler: <<>> if it fails, or <<GPUs, whether Metal is reported as supported>>.
MpsDevices(m) ==
    IF ~m.mac \/ m.ci \/ m.profiler = <<>> \/ ~m.profiler[2] THEN 0 ELSE m.profiler[1]
Probe(m) ==
    LET available == (IF CudaDevices(m) > 0 THEN {"cuda"} ELSE {}) \cup (IF MpsDevices(m) > 0 THEN {"mps"} ELSE {})
    IN  [backends |-> available, devices |-> CudaDevices(m) + MpsDevices(m),
         selected |-> IF "cuda" \in available THEN "cuda" ELSE IF "mps" \in available THEN "mps" ELSE "cpu"]

\* applyEnvironmentHints: the backend and the devices are always set, the rest only where nobody set it;
\* a variable that is set to nothing counts as not set.
Hints(env, status) ==
    LET always == [CODEX_GPU_BACKEND |-> status.selected, CODEX_GPU_DEVICES |-> status.devices]
        set == IF status.selected = "mps" THEN Over([MPS_AVAILABLE |-> "1"], always) ELSE always
        hinted == CASE status.selected = "cuda" -> [CUDA_VISIBLE_DEVICES |-> "0"]
                    [] status.selected = "mps" -> [TORCH_USE_MPS |-> "1"]
                    [] OTHER -> <<>>
        taken == {k \in DOMAIN hinted : k \in DOMAIN env => env[k] = ""}
    IN  Over(set, Over([k \in taken |-> hinted[k]], env))
HintNames == {"CODEX_GPU_BACKEND", "CODEX_GPU_DEVICES", "MPS_AVAILABLE"}
DeviceHints == {"CUDA_VISIBLE_DEVICES", "TORCH_USE_MPS"}

-----------------------------------------------------------------------------
VARIABLES
    file,          \* config/system.json: [state |-> "missing", "torn" or "whole", text]
    envFiles,
    settingsAt,    \* [Processes -> "off", "env", "load", "read", "truncate", "write", "probe", "up", "failed"]
    nextEnv,       \* [Processes -> environment file it comes to]
    own, env,      \* [Processes -> environment it was started with, process.env]
    heldEnv,       \* [Processes -> what the environment files held when they were read]
    settings,      \* [Processes -> config of its ConfigurationManager]
    consensus,     \* [Processes -> config of its ConsensusManager: [leaf, stakes]]
    cleared,       \* [Processes -> agents whose stake was cleared and not set since]
    trouble

settingsVars == <<file, envFiles, settingsAt, nextEnv, own, env, heldEnv, settings, consensus, cleared, trouble>>
processVars == <<settingsAt, nextEnv, own, env, heldEnv, settings, consensus, cleared>>

NoFile == [state |-> "missing", text |-> [leaf |-> <<>>, stakes |-> <<>>]]
ConsensusOf(c) == [leaf |-> [k \in ConsensusLeaves |-> c.leaf[k]], stakes |-> c.stakes]

SettingsStart(f, files) ==
    /\ file = f /\ envFiles = files
    /\ settingsAt = [p \in Processes |-> "off"] /\ nextEnv = [p \in Processes |-> 1]
    /\ own = [p \in Processes |-> <<>>] /\ env = [p \in Processes |-> <<>>]
    /\ heldEnv = [p \in Processes |-> <<>>]
    /\ settings = [p \in Processes |-> DefaultConfiguration]
    /\ consensus = [p \in Processes |-> ConsensusOf(DefaultConfiguration)]
    /\ cleared = [p \in Processes |-> {}]
    /\ trouble = 0

Enters(p, place) == settingsAt' = [settingsAt EXCEPT ![p] = place]
Hit == trouble < MaxTrouble /\ trouble' = trouble + 1
Holds(e, k, v) == k \in DOMAIN e /\ e[k] = v

\* shouldAutoLoadCliEnv; a process that is no CLI does not load the files either.
AutoLoads(e) ==
    "CODEX_CLI_ENV_AUTOLOAD" \in DOMAIN e => e["CODEX_CLI_ENV_AUTOLOAD"] \notin {"0", "false", "no", "off"}

Starts(p, e) ==
    /\ settingsAt[p] = "off"
    /\ own' = [own EXCEPT ![p] = e] /\ env' = [env EXCEPT ![p] = e]
    /\ heldEnv' = [heldEnv EXCEPT ![p] = <<>>] /\ nextEnv' = [nextEnv EXCEPT ![p] = 1]
    /\ Enters(p, IF AutoLoads(e) THEN "env" ELSE "load")
    /\ UNCHANGED <<file, envFiles, settings, consensus, cleared, trouble>>

\* bootstrapCliEnv: one file after the other; a variable that is set stays as it is.
LoadsEnvFile(p) ==
    /\ settingsAt[p] = "env"
    /\ env' = [env EXCEPT ![p] = Over(@, envFiles[nextEnv[p]])]
    /\ heldEnv' = [heldEnv EXCEPT ![p] = Append(@, envFiles[nextEnv[p]])]
    /\ nextEnv' = [nextEnv EXCEPT ![p] = @ + 1]
    /\ Enters(p, IF nextEnv[p] = Len(envFiles) THEN "load" ELSE "env")
    /\ UNCHANGED <<file, envFiles, own, settings, consensus, cleared, trouble>>

\* load() ends with the validation of what is then in force.
Takes(p, c) ==
    /\ settings' = [settings EXCEPT ![p] = c]
    /\ Enters(p, IF Valid(c) THEN "probe" ELSE "failed")

LooksForFile(p) ==
    /\ settingsAt[p] = "load"
    /\ \/ Holds(env[p], "CODEX_CONFIG_SKIP_DISK_IO", "1") /\ Takes(p, DefaultConfiguration)
       \/ /\ ~Holds(env[p], "CODEX_CONFIG_SKIP_DISK_IO", "1")
          /\ Enters(p, IF file.state = "missing" THEN "truncate" ELSE "read")
          /\ settings' = [settings EXCEPT ![p] = DefaultConfiguration]
    /\ UNCHANGED <<file, envFiles, nextEnv, own, env, heldEnv, consensus, cleared, trouble>>

\* A file that is gone or half written is an error; a read that times out means the defaults.
ReadsFile(p) ==
    /\ settingsAt[p] = "read"
    /\ \/ file.state = "whole" /\ Takes(p, Merge(settings[p], file.text)) /\ UNCHANGED trouble
       \/ file.state # "whole" /\ Enters(p, "failed") /\ UNCHANGED <<settings, trouble>>
       \/ Hit /\ Takes(p, DefaultConfiguration)
    /\ UNCHANGED <<file, envFiles, nextEnv, own, env, heldEnv, consensus, cleared>>

\* save() writes in place: the file is emptied and then filled; an error fails the boot, a time-out
\* means the defaults.
Truncates(p) ==
    /\ settingsAt[p] = "truncate"
    /\ file' = [file EXCEPT !.state = "torn"]
    /\ Enters(p, "write")
    /\ UNCHANGED <<envFiles, nextEnv, own, env, heldEnv, settings, consensus, cleared, trouble>>
Writes(p) ==
    /\ settingsAt[p] = "write"
    /\ \/ /\ file' = [state |-> "whole", text |-> settings[p]]
          /\ Takes(p, settings[p])
          /\ UNCHANGED trouble
       \/ /\ Hit /\ UNCHANGED file
          /\ \/ Enters(p, "failed") /\ UNCHANGED settings
             \/ Takes(p, DefaultConfiguration)
    /\ UNCHANGED <<envFiles, nextEnv, own, env, heldEnv, consensus, cleared>>

\* The rest of initialize: the GPU is looked for, always anew, and the consensus manager gets its settings.
BringsUp(p, m) ==
    /\ settingsAt[p] = "probe"
    /\ env' = [env EXCEPT ![p] = Hints(@, Probe(m))]
    /\ consensus' = [consensus EXCEPT ![p] = ConsensusOf(settings[p])]
    /\ Enters(p, "up")
    /\ UNCHANGED <<file, envFiles, nextEnv, own, heldEnv, settings, cleared, trouble>>

-----------------------------------------------------------------------------
Updates_First(p, next) ==
    /\ settings' = [settings EXCEPT ![p] = Merge(@, next)]
    /\ consensus' = [consensus EXCEPT ![p] = [leaf |-> Over(next.leaf, @.leaf), stakes |-> next.stakes]]

\* configManager.update merges first and validates then: what is refused stays in the settings, and the
\* ConsensusManager never hears of it. It takes the stake table it is given for its own.
Updates(p, next) ==
    LET merged == Merge(settings[p], next)
    IN  /\ settings' = [settings EXCEPT ![p] = merged]
        /\ consensus' = IF Valid(merged)
                        THEN [consensus EXCEPT ![p] = [leaf |-> Over(next.leaf, @.leaf), stakes |-> next.stakes]]
                        ELSE consensus

Unmoved == UNCHANGED <<file, envFiles, settingsAt, nextEnv, own, env, heldEnv, trouble>>

\* `consensus mode`: commander calls the options faultTolerance and stakeThreshold, the command reads
\* other names, so that only the mechanism, the time-out and the quorum ever change.
SetsMode(p, u) ==
    /\ settingsAt[p] = "up"
    /\ LET current == ConsensusOf(settings[p])
       IN  Updates(p, [current EXCEPT !.leaf = Over(u, @)])
    /\ UNCHANGED cleared /\ Unmoved

SetsStakes(p, t) ==
    /\ settingsAt[p] = "up"
    /\ LET current == ConsensusOf(settings[p])
       IN  Updates(p, [current EXCEPT !.stakes = Over(t, @)])
    /\ cleared' = [cleared EXCEPT ![p] = @ \ DOMAIN t]
    /\ Unmoved

ClearsStakes(p) ==
    /\ settingsAt[p] = "up"
    /\ Updates(p, [ConsensusOf(settings[p]) EXCEPT !.stakes = <<>>])
    /\ cleared' = [cleared EXCEPT ![p] = DOMAIN settings[p].stakes]
    /\ Unmoved

\* A process ends or dies wherever it is; what it had written stays.
Dies(p) ==
    /\ settingsAt[p] # "off" /\ Hit
    /\ Enters(p, "off")
    /\ settings' = [settings EXCEPT ![p] = DefaultConfiguration]
    /\ consensus' = [consensus EXCEPT ![p] = ConsensusOf(DefaultConfiguration)]
    /\ cleared' = [cleared EXCEPT ![p] = {}]
    /\ UNCHANGED <<file, envFiles, nextEnv, own, env, heldEnv>>

EditsFile(c) ==
    /\ Hit /\ file' = [state |-> "whole", text |-> c]
    /\ UNCHANGED <<envFiles, processVars>>
EditsEnv(files) ==
    /\ Hit /\ envFiles' = files
    /\ UNCHANGED <<file, processVars>>

ProcessStep(p) ==
    \/ LoadsEnvFile(p) \/ LooksForFile(p) \/ ReadsFile(p) \/ Truncates(p) \/ Writes(p)
    \/ \E m \in Machines : BringsUp(p, m)
SettingsStep ==
    \/ \E p \in Processes : ProcessStep(p)
    \/ \E p \in Processes : Dies(p) \/ \E e \in OwnEnvs : Starts(p, e)
    \/ \E p \in Shells : \/ \E u \in Modes : SetsMode(p, u)
                         \/ \E t \in StakeTables : SetsStakes(p, t)
                         \/ ClearsStakes(p)
    \/ (\E c \in Contents : EditsFile(c)) \/ (\E files \in EnvFiles : EditsEnv(files))

ProcessesAtRest == \A p \in Processes : settingsAt[p] \in {"off", "up", "failed"}

-----------------------------------------------------------------------------
\* The value a variable has by the documented precedence: the process's own, then the first file's.
FirstOf(p, k) ==
    LET sources == <<own[p]>> \o heldEnv[p]
    IN  LET i == CHOOSE i \in DOMAIN sources : k \in DOMAIN sources[i] /\ \A j \in 1..(i - 1) : k \notin DOMAIN sources[j]
        IN  sources[i][k]

\* A process that is up decides by settings that were validated, whatever update was refused since and
\* whoever wrote or edited the file meanwhile; and every environment variable has the value of the
\* first source that sets it, the GPU's own variables apart, and those it sets where they are set to
\* nothing (load, update, bootstrapCliEnv, applyEnvironmentHints).
SettingsAreSound ==
    \A p \in Processes : settingsAt[p] = "up" =>
        /\ Valid([DefaultConfiguration EXCEPT !.leaf = Over(consensus[p].leaf, @)])
        /\ Valid(settings[p]) => consensus[p].leaf = ConsensusOf(settings[p]).leaf
        /\ \A s \in {own[p]} \cup {heldEnv[p][i] : i \in DOMAIN heldEnv[p]} :
               \A k \in DOMAIN s \ HintNames :
                   env[p][k] = FirstOf(p, k) \/ (k \in DeviceHints /\ FirstOf(p, k) = "")

\* "Clear the stake table" (src/cli/index.ts:4571): the stakes that were cleared count no more until
\* they are set again.
ClearedStaysCleared == \A p \in Processes : cleared[p] \cap DOMAIN consensus[p].stakes = {}
=============================================================================
