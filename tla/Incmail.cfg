SPECIFICATION FairSpec
CONSTANTS
  Procs = {p1, p2}
  Msgs = {m1, m2, m3}
  NoMsg = NoMsg
  TwoDigits = 2
  ThreeDigits = 3
  MaxNum = 3
  MaxFaults = 2
  Faults = {"crash", "inc", "rm"}
  SlowStart = FALSE
  Attended = TRUE
INVARIANTS
  MutualExclusion
  NoMailLost
  DuplicatesNeedFaults
  EveryMessageTried
CHECK_DEADLOCK FALSE
PROPERTIES
  KeepsCustody
  SpoolDrains
