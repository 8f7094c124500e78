SPECIFICATION FairSpec
CONSTANTS
    Agents = {a1, a2}
    Messages = {m1}
    Keys = {}
    None = None
    MaxConcurrent = 1
    MaxTotal = 2
    MaxTurns = 2
    ChildCalls = 2
    GlobalCalls = 4
PROPERTIES
    NobodyWaitsForEver
