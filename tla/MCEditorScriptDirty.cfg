SPECIFICATION Spec
CONSTANTS
  InitialCapacity = 1
  DefaultName = Layer1
  IdLimit = 10
  OtherName = Layer2
  Scripting = TRUE
  Keys = {}
  Positions = {0}
  Origins = {0}
  Widths = {1}
  Deltas = {}
  Attributes = {}
  LayerNames = {}
  Files = {}
  Budget = 2
  MaxId = 1
  MaxLayers = 1
PROPERTIES
  DirtyTracksContent
