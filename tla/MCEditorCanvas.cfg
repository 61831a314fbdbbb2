SPECIFICATION Spec
CONSTANTS
  InitialCapacity = 1
  DefaultName = Layer1
  IdLimit = 10
  OtherName = Layer2
  Scripting = FALSE
  Keys = {"x", "width"}
  Positions = {0, 1, 2}
  Origins = {0}
  Widths = {1, 2}
  Deltas <- MCDeltas
  Attributes = {"locked", "visible"}
  LayerNames = {}
  Files = {}
  Budget = 2
  MaxId = 1
  MaxLayers = 1
INVARIANTS
  UndoReturns
  SelectionLive
PROPERTIES
  LockedUntouched
  DirtyTracksContent
