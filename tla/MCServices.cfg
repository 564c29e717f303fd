SPECIFICATION ServicesSpec
CONSTANTS
  Services = {"process", "collectors", "calculator"}
  Lockers = {"pow", "vsp", "exchanges", "commstats"}
  Runners = {"mempool"}
  Enabled <- Pairs
  Conns = 3
  RetryLimit = 1
  Tickers = 1
  Settings <- Copies
  Earlier = {1, 12}
  MaxStarts = 2
  MaxMishaps = 1
  Calcs = {"staking", "attackcost", "charts", "proposals"}
  MaxTip = 3
  MaxLate = 1
  MaxRpcErrors = 1
  BlocksPerDay = 4
  VoteWait = 6
  CoinbaseMaturity = 3
  HeightSpace = 16
  SimDays = {1, 2, 4, 8, 9}
  SimBalances = {0, 5, 10, 23}
  SimPrices = {2, 3, 7}
  SimRewards = {0, 1, 2}
INVARIANTS
  ServicesTypeOK
  RunsAlone
  StuckOnlyAtStartup
  PartsReady
  PagesOfOneRun
PROPERTIES
  KeepsCollecting
  StopsWhenAsked
  EndsWhenAsked
CHECK_DEADLOCK FALSE
