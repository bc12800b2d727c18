CONSTANTS
  Narrow = {"a"}
  Wide = {"w"}
  Combining = {"c"}
  MaxWidth = 5
SPECIFICATION RowSpec
INVARIANTS
  EditsShow
