CONSTANTS
    Tool <- MCTool
    Path <- MCPath
    Requests <- MCRequests
    Rules <- MCRules
    Presets <- MCPresets
    SkillTools <- MCSkillTools
    Delegable <- MCDelegable
    Hooks = {"PASS", "ASK"}
    MixedIds = FALSE
    Threads = 2
    MaxTurns = 2
    MaxCalls = 2
    MaxIssued = 3
    MaxCrashes = 1
SPECIFICATION Spec
CHECK_DEADLOCK FALSE
INVARIANTS
    TypeOK
    ApprovalCovers
    BoundaryHolds
    TurnLeavesNothing
