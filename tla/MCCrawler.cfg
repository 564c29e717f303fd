SPECIFICATION FairSpec
CONSTANTS
  Addrs = {"s", "p", "m"}
  Seeder = "s"
  Routable = {"s", "p", "m"}
  Local = {"p"}
  Malformed = {"m"}
  Reachable = {"s"}
  DefaultPort = {"s", "p"}
  MaxAddresses = 2
  MaxFailures = 1
  Stale = 1
  PruneExpire = 2
  MaxClock = 1
  MaxRounds = 1
  MaxRestarts = 1
INVARIANTS
  TypeOK
  
  
PROPERTIES
  RoundsEnd
CHECK_DEADLOCK FALSE
