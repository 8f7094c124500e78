CONSTANTS
    MaxTurns = 3
    MaxCalls = 2
    MaxChild = 1
    MaxFaults = 2
    MaxCrashes = 1
SPECIFICATION TraceSpec
CHECK_DEADLOCK FALSE
INVARIANTS
    FileSound
    ViewOfFile
    CountedOnce
