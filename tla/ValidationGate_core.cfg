SPECIFICATION Spec
CONSTANTS
    Workflows = {w1, w2}
    Gated = {w1}
    Operated = {w1}
    Stages = 2
INVARIANTS
    RecordIsSound
    SoleWriterIsExact
    GateHolds
PROPERTIES
    EveryWorkflowEnds
CHECK_DEADLOCK FALSE
