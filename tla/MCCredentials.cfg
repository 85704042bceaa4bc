SPECIFICATION FairSpec
CONSTANTS
  Task = {"t1", "t2"}
  Account = {"alice"}
  Client = {"c1", "c2"}
  FirstClient = "c1"
  Bundles <- TwoBundles
  None = None
  Unknown = Unknown
  Attempts = 2
  Token = {1,2,3,4,5,6,7,8}
  MaxCommands = 2
  MaxFaults = 1
CHECK_DEADLOCK FALSE
INVARIANTS TypeOK LatestCommandWins RetryUsesNewToken TokenOfItsGrant
PROPERTY AccessRestored
