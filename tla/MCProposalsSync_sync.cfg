SPECIFICATION FairSpec
CONSTANTS
  Tokens = {"p", "q"}
  MaxVotes = 1
  MaxFaults = 1
  Reached = {"unauthorized","authorized","started","rejected"}
INVARIANTS
  TypeOK
  OneRecordPerToken
  SyncedIsFinal
PROPERTIES
  FinalResultsArrive
CHECK_DEADLOCK FALSE
