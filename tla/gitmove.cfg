SPECIFICATION Spec
CONSTANTS
  None = None
  x = x
  y = y
  a = a
  b = b
  f = f
  g = g
  Contents = {x, y}
  Size <- MCSize
  Clones = {a, b}
  Movers = {a}
  Files = {f, g}
  MaxFaults = 1
  MaxEdits = 2
SYMMETRY MCSymmetry
CONSTRAINT Bounded
ACTION_CONSTRAINT OneOrOther
INVARIANTS
  NeverNeither
PROPERTIES
  AllOrNothing
  GitAgreesWithDrive
  TrashSparesImported
CHECK_DEADLOCK FALSE
