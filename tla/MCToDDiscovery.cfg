SPECIFICATION FairSpec
CONSTANTS
  u1 = u1
  u2 = u2
  None = None
  Ids = {1, 2}
  Tables <- MCTables
  Binds = {1, 2}
  FirstBind = 1
  PerBlock = 1
  MaxArrivals = 3
INVARIANTS
  RegistrationInvariant
  CompleteIsTheTable
PROPERTIES
  EveryDiscoveryEnds
