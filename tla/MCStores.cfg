SPECIFICATION StoresSpec
CONSTANTS
  AnHour = 2
  ADay = 4
  Tables = {"mempool", "pow", "vsp", "snapshot", "version", "location", "propagation", "vote", "block",
            "heartbeat", "exchange_tick", "record", "page", "chart"}
  Sources = {"a", "b"}
  HourStep = 6
  DayStep = 8
  FirstBlock = 3
  OutOfOrder = {"vote"}
  Lateness = 1
  MinTime = 3
  MaxTime = 10
  Reports = {{"a"}, {"a", "b"}}
  MaxErrors = 1
  Votes = {v, w}
  VotingOn <- OneBlock
  Peers <- OnePeer
  PageSize = 3
  VoteWindow = 0
  BlockTimes = {1, 4, 8}
  Skew = 4
  MaxHeight = 4
  MaxDbErrors = 1
  MaxOverlaps = 1
  MaxReboots = 1
  Nodes = {n1, n2}
  Heights = {1}
  SnapshotInterval = 2
  MaxClock = 5
  MaxRestarts = 1
  MaxTakerErrors = 1
  Exchanges = {"bittrex", "poloniex", "binance"}
  Interval = 2
  LookBack = 3
  Window = 4
  MaxNow = 8
  MaxFaults = 1
  Views = {"mempool", "exchanges", "pow", "snapshots", "useragents", "proposals", "nodes", "treasury", "nodespage"}
  DefaultPageSize = 1
  MaxPageSize = 2
  AskedSizes = {0, 3}
  MaxRows = 3
  ChartKinds = {"mempool", "community", "pow", "pow_bin", "vsp", "vsp_bin", "propagation", "versions", "votes", "useragents", "countries"}
  Asked <- TwoSources
  LastDate = 3
  RecTables = {"pow_data", "vsp_tick", "mempool", "reddit", "twitter", "github", "youtube"}
  PoolSets = {{"coinmine", "luxor"}, {"f2pool", "uupool"}}
  Vsps = {"one", "other"}
  Accounts <- TwoAccounts
  LastRecTime = 3
  MaxRecErrors = 1
  MaxRecReboots = 1
SYMMETRY Alike
INVARIANTS
  StoresTypeOK
  
  
  VotesKnowTheirBlock
  RowsHaveNoGap
  BlocksBinnedOnce
  HeartbeatsCounted
  NodesCounted
  ClosedStaysClosed
  TicksHaveNoGap
  RecordsKept
  
  

  
CHECK_DEADLOCK FALSE
