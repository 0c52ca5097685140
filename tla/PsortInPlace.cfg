SPECIFICATION Spec
CONSTANTS
  Lines = {1, 2, 3}
  MaxLen = 4
  Controls <- TestControls
  MayFail = FALSE
  MayBeKilled = FALSE
INVARIANT ResultOverwrites
CHECK_DEADLOCK FALSE
