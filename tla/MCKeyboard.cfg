CONSTANTS
  t1 = t1  t2 = t2  p1 = p1  l1 = l1  l2 = l2  n1 = n1  u1 = u1
  Toplevels = {t1, t2}
  Popups = {}
  Subsurfaces = {}
  Layers = {l1, l2}
  ParentOf <- NoParents
  OutputOf <- Apart
  Interactive = {l1, l2}
  Strangers = {n1}
  NOutputs = 2
  None = None
  Keys = {"logo", "0", "2", "j", "k", "p", "toggle"}
  MaxHeld = 2
SPECIFICATION KeyboardSpec
INVARIANTS
  WalksAgree
  ActivatedIffFocused
SYMMETRY Alike
CHECK_DEADLOCK FALSE
