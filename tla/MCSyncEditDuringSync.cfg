SPECIFICATION Spec
CONSTANTS
  d1 = d1
  d2 = d2
  a = a
  b = b
  F = F
  G = G
  Device = {d1, d2}
  EditorSets <- BothUsers
  None = None
  Folder = Folder
  FileThreshold = 20
  PercentThreshold = 20
  Content = {"v1", "v2", "v3"}
  FilePath <- RootPaths
  FolderPath <- NoPaths
  FolderRenames = FALSE
  Initial <- OneFile
  Recreates = TRUE
  Rebuilds = FALSE
  Reverts = FALSE
  EditDuringSync = TRUE
  Overlap = FALSE
  MaxEdits = 2
  MaxInterrupts = 0
  Offered = {}
  StaleChoices = TRUE
  MaxPreviews = 0
  MaxFiles = 6
CHECK_DEADLOCK FALSE
INVARIANT ContentPreserved
