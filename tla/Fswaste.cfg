SPECIFICATION FairSpec
CONSTANTS
  r = r
  d1 = d1
  d2 = d2
  f1 = f1
  f2 = f2
  Roots = {r}
  Dirs = {d1, d2}
  Files = {f1, f2}
  Top = Top
  Absent = Absent
  ArgLists <- TestArgs
  Trees <- TestTrees
  MaxOpen = 2
  Unstatable <- TestUnstatable
  Unreadable <- TestUnreadable
  MaxChanges = 3
INVARIANTS
  SumsRight
  DiesOfLstat
PROPERTY EveryArgumentPrinted
CHECK_DEADLOCK FALSE
