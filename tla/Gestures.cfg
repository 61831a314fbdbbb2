SPECIFICATION Spec
CONSTANTS
  DefaultName = Layer1
  IdLimit = 10
  ShapeTools = {"line", "rect"}
  Points = {0, 1, 2}
  Reach = 1
  MaxId = 2
INVARIANTS
  OnlyActiveIsBusy
  QuietWhenReleased
  PreviewIsOfDrag
PROPERTIES
  DragMovesWhole
