SPECIFICATION ThreadsSpec
CONSTANTS
  CommandLines <- AllLines
  Loop = 2
  CreateMayFail = TRUE
  Kernels <- AllKernels
  ForkMayFail = TRUE
  Tails = {"zero", "junk"}
  MaxKeys = 5
  ThreadMayFail = TRUE
INVARIANTS
  TypeOK
  ResultsComplete
  NoLostWakeup
  WorkDone
  VerdictsTrue
  NoLineTwice
  TakesTurns
  NoStraySignal
  TogglesInStep
PROPERTIES
  ForksAndJoins
  MainGetsOut
  TerminatesOrMissesSignal
  EveryKeyToggles
  OthersKeepPrinting
CHECK_DEADLOCK FALSE
