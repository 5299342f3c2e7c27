SPECIFICATION Spec
CONSTANTS
  homeIP = homeIP
  newIP = newIP
  c1 = c1
  c2 = c2
  none = none
  Addrs <- TwoAddrs
  Binds = {1, 2}
  ConfigCalls <- TwoCalls
  Requests <- Edits
  p1 = p1
  p2 = p2
  u1 = u1
  DevPorts <- TwoPorts
  DevUIDs <- OneUID
  MaxAttempts = 2
  RDMEvents = 2
  MaxNews = 3
  f1 = f1
  f2 = f2
  r1 = r1
  r2 = r2
  r3 = r3
  Fixtures <- TwoFixtures
  WalkReqs <- ThreeReqs
  Overlap = 2
  Outcomes = {FALSE}
  noSession = noSession
  g1 = g1
  b1 = b1
  DatagramKinds <- LoggedKinds
  Engines <- OneEngine
  Browsers <- OneBrowser
  InSlots = 1
  EngineSlots = 1
  RingSlots = 2
  BatchSlots = 1
  OpcodeCap = 1
  MaxEntries = 3
INVARIANTS
  OneFlashing
CHECK_DEADLOCK FALSE
