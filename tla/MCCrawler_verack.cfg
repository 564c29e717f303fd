SPECIFICATION Spec
CONSTANTS
  Addrs = {"s", "p"}
  Seeder = "s"
  Routable = {"s", "p"}
  Local = {}
  Malformed = {}
  Reachable = {"s"}
  DefaultPort = {"s", "p"}
  MaxAddresses = 2
  MaxFailures = 1
  Stale = 1
  PruneExpire = 2
  MaxClock = 1
  MaxRounds = 2
  MaxRestarts = 0
INVARIANTS
  GoodMeansVerack
CHECK_DEADLOCK FALSE
