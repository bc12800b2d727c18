CONSTANTS
  t1 = t1  t2 = t2  p1 = p1  l1 = l1  l2 = l2  n1 = n1  u1 = u1
  Toplevels = {t1, t2}
  Popups = {p1}
  Subsurfaces = {u1}
  Layers = {}
  ParentOf <- OneParent
  OutputOf <- OneOutput
  Interactive = {}
  Strangers = {}
  NOutputs = 1
  None = None
  Keys = {"logo", "h", "shift"}
  MaxHeld = 2
SPECIFICATION Spec
INVARIANTS
  HeldExists
  GrabIsWhole
  GrabbingIsHeld
PROPERTIES
  ReleasesFollow
VIEW Standing
CHECK_DEADLOCK FALSE
