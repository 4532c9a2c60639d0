SPECIFICATION FairSpec
CONSTANTS
  Rate = 3
  Settings <- MCSettings
  StartTime = 3
  DestAddress = dest
  Unspecified = unspecified
  Unset = unset
  NoPacket = nopacket
INVARIANT TypeOK
INVARIANT SampleReady
PROPERTY PublishesStream
PROPERTY SendsWithinWindow
PROPERTY StreamGoesOn
