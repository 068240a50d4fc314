SPECIFICATION Spec
CONSTANTS
  None = None
  Contents = {"a", "ab", "xy"}
  Size <- MCSize
  EncSize <- MCEncSize
  Prefixes <- MCPrefixes
  Stubs = {}
  Reports = {"full", "size", "nothing"}
  PushStrategies = {None, "replace", "skip"}
  PullResolves = {None, "remote"}
  SeedSources = {"listing", "manifest"}
  SilentRevisions = TRUE
  SilentDownloads = FALSE
INVARIANTS
  PresentWasOnDrive
  NoFalseDrift
PROPERTIES
  PushReplacesNoOther
CHECK_DEADLOCK FALSE
