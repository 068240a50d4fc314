SPECIFICATION Spec
CONSTANTS
  None = None
  x = x
  f = f
  g = g
  Contents = {x}
  Size <- MCSize
  Files = {f, g}
  Folders = {f, g}
  FolderOf <- MCFolderOf
  Reports = {"full"}
  Overlap = TRUE
PROPERTY
  TrashSparesOffloaded
