SPECIFICATION FairSpec
CONSTANTS
  d1 = d1
  d2 = d2
  a = a
  b = b
  F = F
  G = G
  Device = {d1, d2}
  EditorSets <- BothUsers
  None = None
  Folder = Folder
  FileThreshold = 20
  PercentThreshold = 20
  Content = {"v1", "v2", "v3"}
  FilePath <- RootPaths
  FolderPath <- NoPaths
  FolderRenames = FALSE
  Initial <- OneFile
  Recreates = TRUE
  Rebuilds = FALSE
  Reverts = FALSE
  EditDuringSync = FALSE
  Overlap = FALSE
  MaxEdits = 3
  MaxInterrupts = 0
  Offered = {"keep-local", "keep-remote", "manual"}
  StaleChoices = FALSE
  MaxPreviews = 1
  MaxFiles = 6
CHECK_DEADLOCK FALSE
INVARIANTS ContentPreserved ManifestUsable
PROPERTY TombstonesDominate Convergence
