SPECIFICATION FairSpec
CONSTANTS
  i1 = i1
  i2 = i2
  f1 = f1
  f2 = f2
  r1 = r1
  r2 = r2
  Item = {i1, i2}
  Folder = {f1, f2}
  FolderOf <- MCFolderOf
  NamedById = {i1}
  Driver = {"sharepoint", "gdrive", "onedrive"}
  Run = {r1, r2}
  None = None
  MaxChanges = 2
  MaxTroubles = 1
CHECK_DEADLOCK FALSE
INVARIANTS TypeOK CursorCovered
PROPERTIES ChangeCollected
