SPECIFICATION Spec
CONSTANTS
  IedType = "pc"
  StartTime = 2
  StopTimes <- MCStopTimes
  Burst = 1
  TicksPerMs = 1
  TtlRange = 64
  CounterRange = 4
  DestAddress = dest
  Unspecified = unspecified
  NoPacket = nopacket
  PcAppID <- MCPc
  InterAppID <- MCInter
  ComAppID <- MCCom
  AppIDs = {2}
INVARIANT SentToDestAddress
