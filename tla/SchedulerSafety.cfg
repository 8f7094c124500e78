SPECIFICATION Spec
CONSTANTS
    Agents = {a1, a2, a3}
    Messages = {m1}
    Keys = {k1}
    None = None
    MaxConcurrent = 2
    MaxTotal = 3
    MaxTurns = 2
    ChildCalls = 2
    GlobalCalls = 5
SYMMETRY Symmetry
INVARIANTS
    TypeOK
    SlotAccounting
    NoLostWakeup
    BudgetAccounting
    NoOrphanChild
PROPERTIES
    ImplementsSupervisor
