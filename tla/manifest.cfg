SPECIFICATION Spec
CONSTANTS
  a = a
  b = b
  f = f
  g = g
  Hosts = {a, b}
  Files = {f, g}
  MaxVersion = 1
  MaxRevisions = 3
  MaxCommands = 4
  SAVE_ATTEMPTS = 2
SYMMETRY MCSymmetry
INVARIANTS
  ReconciledKnowsAll
PROPERTIES
  OnlyRacersAreDropped
  NeverStartedMidHistory
CHECK_DEADLOCK FALSE
