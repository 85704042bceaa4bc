SPECIFICATION Spec
CONSTANTS
  d1 = d1
  d2 = d2
  a = a
  b = b
  F = F
  G = G
  Device = {d1, d2}
  EditorSets <- BothUsers
  None = None
  Folder = Folder
  FileThreshold = 20
  PercentThreshold = 20
  Content = {"v1", "v2", "v3"}
  FilePath <- NestedPaths
  FolderPath <- FolderPaths
  FolderRenames = TRUE
  Initial <- FileInFolder
  Recreates = TRUE
  Rebuilds = FALSE
  Reverts = FALSE
  EditDuringSync = FALSE
  Overlap = TRUE
  MaxEdits = 2
  MaxInterrupts = 1
  Offered = {}
  StaleChoices = TRUE
  MaxPreviews = 0
  MaxFiles = 8
SYMMETRY Symmetry
CHECK_DEADLOCK FALSE
INVARIANTS TypeOK ContentPreserved BaseIsPublished
PROPERTY HistoryGoesOn
