SPECIFICATION FairSpec
CONSTANTS
  None = None
  Contents = {"a", "ab"}
  Size <- MCSize
  EncSize <- MCEncSize
  Prefixes <- MCPrefixes
  Stubs = {}
  Reports = {"full", "size", "nothing"}
  PushStrategies = {None, "replace", "skip"}
  PullResolves = {None, "remote"}
  SeedSources = {"listing", "manifest"}
  SilentRevisions = TRUE
  SilentDownloads = TRUE
PROPERTIES
  PushConverges
CHECK_DEADLOCK FALSE
