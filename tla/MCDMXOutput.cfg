SPECIFICATION FairSpec
CONSTANTS
  show = show
  c1 = c1
  c2 = c2
  cmd = cmd
  None = None
  Shows <- MCShows
  Mapped <- MCShows
  Edited = {"programmer"}
  Written = {1}
  Lit = 1
  CommandLevel = 2
  IsolateLevel = 3
  Routings <- MCRoutings
  Identities <- MCIdentities
  Clients = {c1, c2}
  Commands = {cmd}
  MaxChains = 2
INVARIANTS
  OutputInvariant
  HeldLookIsNotTransient
  TransientsLeaveTheWire
PROPERTIES
  ImplementsMasterArm
  LeaseLossSettles
