SPECIFICATION Spec
CONSTANTS
  InitialCapacity = 1
  DefaultName = Layer1
  IdLimit = 10
  OtherName = Layer2
  Scripting = FALSE
  Keys = {}
  Positions = {0}
  Origins = {0}
  Widths = {1}
  Deltas = {1}
  Attributes = {"locked"}
  LayerNames = {Layer2}
  Files <- MCFilesWithoutLayer1
  Budget = 2
  MaxId = 1
  MaxLayers = 2
INVARIANTS
  WellFormed
  UndoReturns
  
  SelectionLive
PROPERTIES
  LockedUntouched
