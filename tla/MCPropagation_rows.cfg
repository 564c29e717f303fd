SPECIFICATION PropSpec
CONSTANTS
  AnHour = 2
  ADay = 4
  Votes = {}
  VotingOn <- OneBlock
  Peers <- OnePeer
  PageSize = 3
  VoteWindow = 0
  BlockTimes = {1, 4, 8}
  Skew = 4
  MaxHeight = 3
  MaxDbErrors = 0
  MaxOverlaps = 0
  MaxReboots = 0
PROPERTIES
  AllBlocksCompared
CHECK_DEADLOCK FALSE
