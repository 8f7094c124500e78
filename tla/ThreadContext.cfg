SPECIFICATION Spec
CONSTANTS
  Items <- MCItems
  Cost <- MCCost
  TurnBytes = 3
  Retain = 1
  Recent = 1
  MaxTurns = 2
  MaxCalls = 1
  Widths = {2}
  MaxNotes = 1
  MaxCrashes = 1
INVARIANTS TypeOK ResultsFollowCalls SelectedKept
PROPERTIES ResumeAgrees
CHECK_DEADLOCK FALSE
