SPECIFICATION Spec
CONSTANTS
    MaxTurns = 1
    MaxCalls = 1
    Asking = {1}
    ModelCalls = 1
INVARIANTS
    NoReplay
