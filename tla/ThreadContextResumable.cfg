SPECIFICATION Spec
CONSTANTS
  Items <- MCItems
  Cost <- MCCost
  TurnBytes = 3
  Retain = 1
  Recent = 1
  MaxTurns = 3
  MaxCalls = 1
  Widths = {2}
  MaxNotes = 0
  MaxCrashes = 2
INVARIANT ThreadResumable
CHECK_DEADLOCK FALSE
