CONSTANTS
  i1 = i1  i2 = i2  c1 = c1  c2 = c2  e = e  t1 = t1  p1 = p1  p2 = p2
  Inputs = {i1}
  Clients = {c1}
  Owner <- JustOne
  Texts = {e, t1}
  Empty = e
  Positions = {p1, p2}
  Home = p1
  None = None
  Wild = Wild
  MaxSends = 2
  MaxEvents = 4
  Lifecycle = TRUE
  Restarts = TRUE
SPECIFICATION Spec
PROPERTIES
  ComesToRest
CHECK_DEADLOCK FALSE
