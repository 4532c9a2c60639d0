SPECIFICATION FairSpec
CONSTANTS
  IedType = "inter"
  StartTime = 2
  StopTimes <- MCStopTimes
  Burst = 1
  TicksPerMs = 1
  TtlRange = 64
  CounterRange = 4
  DestAddress = dest
  Unspecified = unspecified
  NoPacket = nopacket
  PcAppID <- MCPc
  InterAppID <- MCInter
  ComAppID <- MCCom
  AppIDs = {1,2,3,9}
INVARIANT TypeOK
INVARIANT TtlIsTimeToNext
INVARIANT NeverSilenced
INVARIANT StNumTellsState
INVARIANT BackoffLadder
INVARIANT NothingDueAfterStop
PROPERTY PublishesChanges
PROPERTY HeartbeatForever
PROPERTY BackoffSettles
