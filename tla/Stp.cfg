SPECIFICATION FairSpec
CONSTANTS
  Links <- Triangle
  MaxAge = 3
  ForwardDelay = 2
  Faults = {"cut", "mend", "stop", "start"}
  MaxFaults = 2
  Skew = 1
  MaxReturns = 1
INVARIANTS
  TypeOK
  LoopFree
PROPERTIES
  OnlyImproves
  Heals
  Reported
