SPECIFICATION Spec
CONSTANTS
  d1 = d1
  d2 = d2
  Device = {d1, d2}
  FileId = {f1, f2}
  None = None
  Unlisted = Unlisted
  Ttl = 4
  Settle = 1
  Skew <- MCSkew
  MaxAttempts = 1
  MaxTime = 2
CHECK_DEADLOCK FALSE
INVARIANT
  ConcurrentCommitAborts
