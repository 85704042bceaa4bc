SPECIFICATION Spec
CONSTANTS
  d1 = d1
  d2 = d2
  a = a
  b = b
  F = F
  G = G
  Device = {d1, d2}
  EditorSets <- OneOrBoth
  None = None
  Folder = Folder
  FileThreshold = 20
  PercentThreshold = 20
  Content = {"v1", "v2"}
  FilePath <- ManyPaths
  FolderPath <- FolderPaths
  FolderRenames = FALSE
  Initial <- FileInFolder
  Recreates = FALSE
  Rebuilds = TRUE
  Reverts = FALSE
  EditDuringSync = TRUE
  Overlap = FALSE
  MaxEdits = 3
  MaxInterrupts = 0
  Offered = {}
  StaleChoices = TRUE
  MaxPreviews = 0
  MaxFiles = 8
CHECK_DEADLOCK FALSE
INVARIANTS FollowerUndisturbed UpToDateIsTrue EntriesBacked ParentsMatchPaths
PROPERTY UserDeletesOnly
