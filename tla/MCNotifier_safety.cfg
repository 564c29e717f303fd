SPECIFICATION Spec
CONSTANTS
  Blocks <- ForkBlocks
  Genesis = "g"
  Parent <- ForkParent
  Height <- ForkHeight
  Txs = {"x"}
  BlockGroups <- TwoGroups
  TxGroups <- TxGroup
  QueueCap = 1
  HasWaiters = TRUE
  MaxReorgs = 1
  MaxDrops = 0
  MaxDeadlines = 1
  MayStop = FALSE
INVARIANTS
  TypeOK
  GroupOrder
  RunsSerial
  RecordedIsHandled
  ConnectedChain
PROPERTIES
  OnlyDeadlineBreaksWait
  Follows
CHECK_DEADLOCK FALSE
