SPECIFICATION Spec
CONSTANTS
  None = None
  c1 = c1
  c0 = c0
  top = top
  sub = sub
  a = a
  b = b
  Contents = {c1, c0}
  Size <- MCSize
  Dirs = {top, sub}
  Names = {a, b}
  Root = top
  Times = {1}
  Ignored = {}
  Spared = {}
  BatchSize = 2
  MassLimit = 5
  MassFloor = 1
  MassShare = 2
  MaxEdits = 2
  MaxMishaps = 2
  MaxEvents = 3
SYMMETRY MCSymmetry
INVARIANTS RecordsNameNodes StraysAreKnown KilledMovesAreRecorded
PROPERTIES TrashKeepsMovedFiles TrashLeavesSome NothingRidesAlong
CHECK_DEADLOCK FALSE
