SPECIFICATION Spec
CONSTANTS
  d1 = d1
  d2 = d2
  Device = {d1, d2}
  FileId = {f1, f2}
  None = None
  Unlisted = Unlisted
  Ttl = 3
  Settle = 2
  Skew <- MCSkew
  MaxAttempts = 1
  MaxTime = 5
CHECK_DEADLOCK FALSE
INVARIANTS
  TypeOK
  OneWriteInFlight
  BaseInChain
PROPERTIES
  NoLostUpdate
  ChainSpec
