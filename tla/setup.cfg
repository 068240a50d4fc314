SPECIFICATION FairSpec
CONSTANTS
  Absent = Absent
  Roots = {"r", "s"}
  Files = {"f"}
  Left = {}
  MaxIds = 2
INVARIANTS
  IndexBelongs
PROPERTIES
  DeviceIdSurvives
  GitGivesUpUploaded
  SetupCompletes
