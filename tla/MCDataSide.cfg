SPECIFICATION Spec
CONSTANTS
  spot = spot
  wash = wash
  MakerNames <- Makers
  ModelNames <- Models
  Maps = {1, 2}
  unstamped = unstamped
  MaxRecords = 2
  h = h
  z = z
  x1 = x1
  x2 = x2
  y = y
  Root = Root
  Instances = {h, z, x1, x2, y}
  PartKeyOf <- KeyOf
  RootKey = ""
  BodyKeys <- Bodies
  NoTree = NoTree
  Carried <- AllCarried
  Trees <- AllTrees
  r1 = r1
  r2 = r2
  own = own
  u1 = u1
  Uids = {u1, u2}
  Editors = {r1, r2}
  ManufacturerPids = {own}
  SpecKnownPids = {p2}
  OpaquePids = {}
  FieldPids = {}
  none = none
  ByteSize = 4
  Descriptors <- AllDescriptors
  FirstSeen <- FirstLayouts
  Inputs <- AllInputs
  Responders = {d1}
  Readers = {r1, r2}
  Probes = {p1}
  unknown = unknown
  nobody = nobody
  Sizes = {0, 1, 33, 116}
  Padding = 2
SYMMETRY Readers2
INVARIANTS
  ProbeInvariant
  DataSideInvariant
  NeverLoses
  MasterTimesPart
  CellsCanBeSeen
CHECK_DEADLOCK FALSE
