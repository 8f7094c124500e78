SPECIFICATION FairSpec
CONSTANTS
    Clients = {c1, c2}
    MaxItems = 3
    MaxBatch = 2
    MaxAcks = 3
    Tears = {"clean", "partial"}
INVARIANTS
    TypeOK
    LogSound
PROPERTIES
    ImplementsLog
    FlushEnds
