SPECIFICATION Spec
CONSTANTS
  Blocks <- LineBlocks
  Genesis = "g"
  Parent <- LineParent
  Height <- LineHeight
  Txs = {}
  BlockGroups <- SoloGroups
  TxGroups <- TxGroup
  QueueCap = 1
  HasWaiters = FALSE
  MaxReorgs = 0
  MaxDrops = 0
  MaxDeadlines = 0
  MayStop = FALSE
INVARIANT StaysUp
CHECK_DEADLOCK FALSE
