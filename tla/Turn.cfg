SPECIFICATION FairSpec
CONSTANTS
    MaxTurns = 2
    MaxCalls = 2
    Asking = {2}
    ModelCalls = 2
INVARIANTS
    TypeOK
    NoBlindReplay
    TurnsAccountedFor
PROPERTIES
    ImplementsLedger
    TurnEnds
