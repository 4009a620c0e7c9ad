SPECIFICATION Spec
CONSTANTS
  Jobs = {j1, j2}
  Users = {u1}
  Questions = {q1}
  Clients = {c1, c2}
  Workers = {w1, w2}
  NoJob = NoJob
  Limit = 1
  RateWindow = 2
  DupWindow = 2
  JobTimeout = 1
  MaxTime = 2
  MaxCrashes = 1
  MaxFaults = 0
SYMMETRY Symmetry
INVARIANTS QuotaKept OnePlacePerJob DonePdfExists
PROPERTIES ImplementsContract
CHECK_DEADLOCK FALSE
