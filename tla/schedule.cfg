SPECIFICATION Spec
CONSTANTS
  None = None
  a = a
  b = b
  ga = ga
  gab = gab
  Names = {a, b}
  Globs = {ga, gab}
  Matches <- MCMatches
  Ends <- MCEnds
  Anywhere = Anywhere
  Scopes <- MCScopes
  Ids = {j1, j2, j3}
  Foreign = Foreign
  Editors = {e1, e2}
  User = User
  MaxEdits = 2
  MaxMishaps = 1
INVARIANTS ScheduleIsRecorded NoFightingJobs
PROPERTIES JobsTakeTurns JobsEnd
CHECK_DEADLOCK FALSE
