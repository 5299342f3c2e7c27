SPECIFICATION FairSpec
CONSTANTS
  d1 = d1
  d2 = d2
  Devices <- MCDevices
  ProxyBreakerTrip = 1
  SilenceBreakerTrip = 2
  CooldownFactor = 2
  CooldownMax = 1
  MaxAnswers = 3
INVARIANTS
  BreakerInvariant
PROPERTIES
  SilenceHoldEnds
