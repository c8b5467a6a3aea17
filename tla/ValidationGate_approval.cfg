SPECIFICATION Spec
CONSTANTS
    Workflows = {w1}
    Gated = {w1}
    Operated = {}
    Stages = 1
INVARIANTS
    ApprovalIsFiled
CHECK_DEADLOCK FALSE
