CONSTANTS
    Callers = {root, child}
    Host = host
    Required = FALSE
    MaxPages = 2
    MaxCalls = 1
    MaxVersion = 2
    MaxExpiries = 1
    root = root
    child = child
    host = host
SPECIFICATION Spec
CHECK_DEADLOCK FALSE
INVARIANTS
    TypeOK
    SessionSound
    SentOnce
    ChangeRemembered
PROPERTIES
    SessionShared
    CallsReturn
