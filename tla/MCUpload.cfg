SPECIFICATION FairSpec
CONSTANTS
  None = None
  Sizes <- ContentSizes
  Chunk = 2
  Threshold = 2
  Attempts = 3
  MaxFaults = 4
INVARIANTS
  TypeOK
  NoGap
  OneFile
PROPERTIES
  UploadEnds
  KeepsPromise
CHECK_DEADLOCK FALSE
