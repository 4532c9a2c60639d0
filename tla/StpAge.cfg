SPECIFICATION AgeSpec
CONSTANTS
  Links <- Square
  MaxAge = 3
  ForwardDelay = 2
  Faults = {"stop"}
  MaxFaults = 1
  Skew = 1
  MaxReturns = 1
  MaxCalm = 7
INVARIANT OldNewsDiscarded
