SPECIFICATION TrashSpec
CONSTANTS
  Absent = Absent
  Folders = {d}
  Files = {f}
  MaxIds = 5
  MaxOthers = 1
  MaxCommands = 3
  MaxMishaps = 1
INVARIANTS RemovedIsForgotten
PROPERTIES ForceDeletesItsOwn RestoresTheAskedPath
CHECK_DEADLOCK FALSE
