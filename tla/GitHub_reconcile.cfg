SPECIFICATION FairSpec
CONSTANTS
  Issue = {i, j}
  None = None
  Handler = {h}
  PageSize = 2
  Window = 0
  MaxRev = 2
  MaxChanges = 4
  MaxTime = 1
  MaxFaults = 0
PROPERTIES OpenIssueGetsTask
CHECK_DEADLOCK FALSE
