SPECIFICATION FairSpec
CONSTANTS
  Device = {d1, d2}
  Vault = {v1, v2}
  None = None
  Closed = Closed
  Invalid = Invalid
  MaxCommands = 4
  MaxFaults = 1
INVARIANTS
  TypeOK
  RegisteredIsComplete
  SetupNotBlocked
  VaultsApart
PROPERTIES
  VaultsKept
  DeviceSyncs
CHECK_DEADLOCK FALSE
