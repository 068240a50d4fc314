SPECIFICATION Spec
CONSTANTS
  None = None
  x = x
  y = y
  f = f
  g = g
  Contents = {x, y}
  Size <- MCSize
  Files = {f, g}
  Folders = {f, g}
  FolderOf <- MCFolderOf
  Reports = {"full", "size"}
  Overlap = FALSE
SYMMETRY MCSymmetry
INVARIANTS
  OffloadedIsNotHeld
PROPERTIES
  TrashSparesOffloaded
  DeletesOnlySynced
  DeletesOnlyCopies
  OffloadKeepsCustody
