SPECIFICATION FairSpec
CONSTANTS
  AppID <- MCAppID
  PcAppID <- MCPcAppID
  InterAppID <- MCInterAppID
  ComAppID <- MCComAppID
  Links <- MCGroupLinks
  Capacity = 2
  MaxEvents = 3
INVARIANT TypeOK
INVARIANT FramesLeadFollower
PROPERTY NoSpuriousOperation
PROPERTY BreakerFollows
PROPERTY StormsEnd
