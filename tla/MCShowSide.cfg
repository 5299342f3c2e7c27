SPECIFICATION Spec
CONSTANTS
  f1 = f1
  f2 = f2
  NewShows = {f1, f2}
  default = default
  absent = absent
  damaged = damaged
  MaxSaves = 4
  MaxFaults = 2
  Stores = {"show", "settings", "sacn", "library"}
  s1 = s1
  s2 = s2
  e1 = e1
  e2 = e2
  a = a
  b = b
  c1 = c1
  c2 = c2
  Shows = {s1, s2}
  Clients = {c1, c2}
  Ids = {e1, e2}
  Devices = {a, b}
  Settings = {1, 2}
  Addresses = {1, 2}
  Likeness <- AllAlike
  Writable = {TRUE, FALSE}
  none = none
  untold = untold
  MaxRequests = 4
  MaxDrift = 1
  Holdings <- BothShows
  FirstShow <- TwoFixtures
  ProfileOf <- AllProfiles
  Levels = {0, 1, 2}
  LastSlot = 8
  Presets <- OnePreset
  SelectTargets <- Targets
  Commands = {1}
  Focus <- Focuses
  MaxTouched = 2
  MaxMoved = 2
  MaxEdits = 2
  d1 = d1
  d2 = d2
  n1 = n1
  UniverseSize = 512
  EntryChoices <- Entries
  MaxEntries = 2
  unnumbered = unnumbered
  Rig = {d1, d2}
  OwnFields = {"startAddress"}
  Optional = {"panInvert"}
  Fitted <- FittedIn
  SettingValues = {1, 2}
  Requests = {q1}
  uncommitted = uncommitted
  WalkDevices <- Walks
  MaxWalk = 3
SYMMETRY Alike
INVARIANTS
  ShowSideInvariant
  RestartKeepsShow
  ProgrammerInvariant
PROPERTIES
  DamageIsKept
  EditsOwnShow
  ReadingsBelong
  RevisionTells
CHECK_DEADLOCK FALSE
