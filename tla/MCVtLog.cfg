CONSTANTS
  Narrow = {"a", "b"}
  Wide = {}
  Combining = {}
  LogCapacity = 2
  Widths = {1}
  Heights = {2, 3}
  Filler = "a"
  Texts = {}
  MaxParameter = 2
  MaxControls = 6
  Read = {"character", "format", "mode"}
  Frames = FALSE
SPECIFICATION Spec
INVARIANT RowsApart
PROPERTY RowsKept
CHECK_DEADLOCK FALSE
