SPECIFICATION Spec
CONSTANTS
  InitialCapacity = 1
  DefaultName = Layer1
  IdLimit = 10
  OtherName = Layer2
  Scripting = TRUE
  Keys = {}
  Positions = {0}
  Origins = {0}
  Widths = {1}
  Deltas = {0}
  Attributes = {}
  LayerNames = {}
  Files <- MCFiles
  Budget = 2
  MaxId = 3
  MaxLayers = 2
INVARIANTS
  WellFormed
  UndoReturns
  
PROPERTIES
  LockedUntouched
