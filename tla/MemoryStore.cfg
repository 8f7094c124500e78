CONSTANTS
    Ids = {i1, i2}
    Procs = {run}
    Contents = {"text", "TEXT", "other", "key=1"}
    Hash <- MCHash
    Words <- MCWords
    Queries <- MCQueries
    Keys <- MCKeys
    Kinds = {"user_explicit", "mcp_external"}
    Items = {item}
    Secret = {"key=1"}
    Fts = TRUE
    Limit = 1
    Fits = 1
    Null = Null
    Deleted = Deleted
SPECIFICATION Spec
SYMMETRY Symmetry
CHECK_DEADLOCK FALSE
INVARIANTS
    StoreSound
    OfferedWasActive
