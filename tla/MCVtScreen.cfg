CONSTANTS
  Narrow = {"a"}
  Wide = {"w"}
  Combining = {}
  LogCapacity = 1
  Widths = {1, 2}
  Heights = {2, 3}
  Filler = "a"
  Texts = {"p"}
  MaxParameter = 1
  MaxControls = 3
  Read = {"character", "format", "cursor", "erase", "insert", "mode"}
  Frames = TRUE
SPECIFICATION Spec
INVARIANTS
  RowsWhole
  CursorInRegion
  DamageComplete
VIEW Drawn
CHECK_DEADLOCK FALSE
