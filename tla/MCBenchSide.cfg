SPECIFICATION Spec
CONSTANTS
  a1 = a1
  a2 = a2
  b1 = b1
  A = A
  B = B
  q1 = q1
  none = none
  Entries = {a1, a2, b1}
  Walked <- OwnEntries
  UniverseOf <- Universes
  Footprint <- Footprints
  Tests = {1, 2}
  MaxLate = 1
  Shows = {A, B}
  SeqIds = {q1}
  ShowOf <- OfShow
  FirstPatch <- FirstPatches
  Programs <- TwoSteps
  MaxGen = 3
  TimerInGap = FALSE
  TakeoverInGap = FALSE
  Targets = {"spot", "wash", "cell"}
  Target <- Rig
  Specs <- PatternTests
  Top = 3
  LastSlot = 6
  Pace = 3
  FadeTicks = 2
  MaxNow <- LastTick
  Picks <- PatternPicks
  MaxEdits = 3
  x1 = x1
  x2 = x2
  x3 = x3
  g1 = g1
  nowhere = nowhere
  Fixtures = {x1, x2, x3}
  SavedGroups = {g1}
  MaxCell = 2
  MaxSpan = 3
  MaxLayers = 4
  MaxObjects = 2
  SearchRings = 2
  UnplacedCols = 2
  CellSizes <- TwoCells
  ZGaps <- TwoGaps
  Spots <- TwoSpots
  Outlines <- TwoOutlines
  Ranges <- TwoRanges
  Relocations <- TwoRelocations
  FirstShows <- SomeShows
  MaxLayoutEdits = 2
INVARIANTS
  BenchInvariant
  PatternInvariant
  
  
PROPERTIES
  AdvancesOwnStep
  EditsNeverJump
  HandStays
CHECK_DEADLOCK FALSE
