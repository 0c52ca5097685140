SPECIFICATION Spec
CONSTANTS
  Procs = {p1, p2}
  Msgs = {m1, m2}
  NoMsg = NoMsg
  TwoDigits = 2
  ThreeDigits = 3
  MaxNum = 3
  MaxFaults = 0
  Faults = {}
  SlowStart = TRUE
  Attended = TRUE
INVARIANT MutualExclusion
CHECK_DEADLOCK FALSE
