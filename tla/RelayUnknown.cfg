SPECIFICATION Spec
CONSTANTS
  a1 = a1
  a2 = a2
  a3 = a3
  Ports = {0, 1, 2}
  Vids = {0, 1}
  Addrs = {a1, a2, a3}
  Broadcast = Broadcast
  Groups = {}
  Static = {}
  AgingTimes = {2}
  MaxAge = 2
  DefaultAging = 2
  PurgePeriod = 1
  StpCalls = FALSE
  NoTable = NoTable
  NoPort = NoPort
  NoOutput = NoOutput
INVARIANT UnknownGoesEverywhere
