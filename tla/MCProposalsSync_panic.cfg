SPECIFICATION Spec
CONSTANTS
  Tokens = {"p"}
  Reached = {"unauthorized", "authorized", "started", "finished"}
  MaxVotes = 1
  MaxFaults = 1
INVARIANTS
  SystemWorks
CHECK_DEADLOCK FALSE
