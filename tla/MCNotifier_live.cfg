SPECIFICATION FairSpec
CONSTANTS
  Blocks <- LineBlocks
  Genesis = "g"
  Parent <- LineParent
  Height <- LineHeight
  Txs = {"x"}
  BlockGroups <- SoloGroups
  TxGroups <- TxGroup
  QueueCap = 1
  HasWaiters = TRUE
  MaxReorgs = 0
  MaxDrops = 1
  MaxDeadlines = 4
  MayStop = TRUE
PROPERTIES
  CatchesUp
  GroupWaitEnds
  ShutdownEnds
CHECK_DEADLOCK FALSE
