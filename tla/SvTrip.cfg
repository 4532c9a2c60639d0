SPECIFICATION SubscriberSpec
CONSTANTS
  First = 0
  Last = 3
  None = none
  Rate = 3
  Dangers = {TRUE, FALSE}
  Delays = {2, 3}
  MaxSum = 12
  TestPacket = 3
  TestEvery = 6
INVARIANT TypeOK
INVARIANT VerdictPublished
INVARIANT DangerHiddenOnce
