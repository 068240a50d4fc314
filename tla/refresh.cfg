SPECIFICATION FairSpec
CONSTANTS
  Dirs <- MCDirs
  Top = "top"
  Roots = {"top", "sub"}
  Children <- MCChildren
  Below <- MCBelow
  Files <- MCFiles
  FolderOf <- MCFolderOf
  Local = {}
  Ignored = {}
  MaxGeneration = 1
  MaxFaults = 1
INVARIANTS
  FrontierNeverAhead
  ReconciledIsSeeded
PROPERTIES
  PruneDropsOnlyGone
  ResumeCompletes
