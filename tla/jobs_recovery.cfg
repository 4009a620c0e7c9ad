SPECIFICATION FairSpec
CONSTANTS
  Jobs = {j1, j2}
  Users = {u1}
  Questions = {q1}
  Clients = {c1}
  Workers = {w1}
  NoJob = NoJob
  Limit = 2
  RateWindow = 1
  DupWindow = 0
  JobTimeout = 0
  MaxTime = 1
  MaxCrashes = 1
  MaxFaults = 2
INVARIANTS OpenRowsAreOwned
PROPERTY JobsEnd
CHECK_DEADLOCK FALSE
