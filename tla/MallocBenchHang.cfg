SPECIFICATION FairSpec
CONSTANTS
  CommandLines <- FairLines
  Loop = 2
  CreateMayFail = FALSE
PROPERTY WaitEnds
CHECK_DEADLOCK FALSE
