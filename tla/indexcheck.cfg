SPECIFICATION CheckSpec
CONSTANTS
  None = None
  Contents = {"a", "ab", "xy", "p"}
  Size <- MCSize
  EncSize <- MCEncSize
  Stubs = {"p"}
  Reports = {"full", "size", "nothing"}
INVARIANTS
  LevelIsEarned
  RepairSettles
PROPERTIES
  RepairHidesNoLoss
