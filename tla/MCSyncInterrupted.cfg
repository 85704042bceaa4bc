SPECIFICATION Spec
CONSTANTS
  d1 = d1
  d2 = d2
  a = a
  b = b
  F = F
  G = G
  Device = {d1, d2}
  EditorSets <- OneUser
  None = None
  Folder = Folder
  FileThreshold = 20
  PercentThreshold = 20
  Content = {"v1", "v2"}
  FilePath <- RootPaths
  FolderPath <- NoPaths
  FolderRenames = FALSE
  Initial <- OneFile
  Recreates = TRUE
  Rebuilds = FALSE
  Reverts = FALSE
  EditDuringSync = FALSE
  Overlap = FALSE
  MaxEdits = 1
  MaxInterrupts = 1
  Offered = {}
  StaleChoices = TRUE
  MaxPreviews = 0
  MaxFiles = 6
CHECK_DEADLOCK FALSE
INVARIANT ManifestUsable
