SPECIFICATION FairSpec
CONSTANTS
  Lockers = {"exchanges"}
  Runners = {"mempool"}
  Enabled <- ExchangesOnly
  Conns = 3
  RetryLimit = 1
  Tickers = 1
PROPERTIES
  ExchangesKeepCollecting
CHECK_DEADLOCK FALSE
