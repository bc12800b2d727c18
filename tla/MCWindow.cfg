CONSTANTS
  Outputs <- MCOutputs
  Inset = 1
  Positions = {1}
  DragSizes = {2, 5}
  Cell = 2
  Default = 4
  AppSizes = {6}
  MaxSteps = 3
SPECIFICATION Spec
INVARIANTS
  AcksInOrder
  EdgeStays
PROPERTIES
  PlacedWhole
  ComesToRest
CHECK_DEADLOCK FALSE
