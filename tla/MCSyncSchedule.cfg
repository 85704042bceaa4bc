SPECIFICATION FairSpec
CONSTANTS
  None = None
  Periodic = TRUE
  MaxEdits = 2
  MaxRemote = 1
  MaxFailures = 1
  MaxPauses = 2
  MaxSettings = 1
  MaxRequests = 1
  MaxOverlaps = 0
INVARIANTS TypeOK OnlySettingsForget ActivationSeesRemote GuardedRunIsCurrent
PROPERTIES GuardLifted CatchesUp
