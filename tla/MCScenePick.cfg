SPECIFICATION Spec
CONSTANTS
  DefaultName = Layer1
  IdLimit = 10
  Names = {Layer1}
  CellSize = 3
  MaxAxisCells = 3
  Tolerance = 0
  Files <- MCFiles
  Positions = {1, 3}
  Deltas = {2}
  Views = {}
  Home <- MCHome
  Decors = {light, dark}
  Points = {1, 4}
  MaxId = 3
  MaxRevision = 2
  MaxTouches = 2
  MaxLag = 2
INVARIANTS
  PicksTopmost
