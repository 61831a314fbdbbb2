SPECIFICATION Spec
CONSTANTS
  DefaultName = "Layer 1"
  Paths = {"document.json"}
  Startup = "document.json"
  ForeignFiles <- MCForeignFiles
  Names = {"Layer 1", "bell", "unreadable"}
  ControlNames = {"bell"}
  Infinity = 9
  Shapes <- MCShapes
  IdLimit = 4
  HandedOut = {0, 1, 3}
  MaxObjects = 2
  MaxLayers = 2
INVARIANTS
  SavedSurvives
  NoLitter
  OpenedIsWhole
PROPERTIES
  ReplacedWhole
