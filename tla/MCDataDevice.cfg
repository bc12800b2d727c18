SPECIFICATION Spec
CONSTANTS
  c1 = c1
  c2 = c2
  Clients <- MCClients
  Sizes <- MCSizes
  Capacity = 1
  MaxPipes = 1
  MaxQueue = 1
INVARIANTS
  SourcesLive
  SourcesEnd
  PasteWhole
PROPERTIES
  DropKept
  PastesEnd
CHECK_DEADLOCK FALSE
