SPECIFICATION Spec
CONSTANTS
  i1 = i1
  i2 = i2
  f1 = f1
  f2 = f2
  r1 = r1
  r2 = r2
  Item = {i1, i2}
  Folder = {f1, f2}
  FolderOf <- MCFolderOf
  NamedById = {}
  Driver = {"sharepoint"}
  Run = {r1}
  None = None
  MaxChanges = 3
  MaxTroubles = 0
CHECK_DEADLOCK FALSE
INVARIANT DeletionCovered
