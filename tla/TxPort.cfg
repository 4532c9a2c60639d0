SPECIFICATION MCFairSpec
CONSTANTS
  TopPpc = 7
  Ppcs = {0, 3, 7}
  Contents = {1, 2}
  Capacity = 2
  Units = {0, 1}
  MaxPauses = 2
  Faults = {"cut", "shutdown", "crash"}
  Asserts = TRUE
INVARIANT TypeOK
INVARIANT OneRequestOut
INVARIANT SafeWhileUp
INVARIANT TimerFitsState
INVARIANT PassedAtMostOnce
INVARIANT PauseAfterOneFrame
PROPERTY HighestServed
PROPERTY ServesByPriority
CHECK_DEADLOCK FALSE
