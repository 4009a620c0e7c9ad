SPECIFICATION AccountsSpec
CONSTANTS
  Emails = {e1}
  Users = {u1, u2}
  Tokens = {k1, k2}
  Handlers = {q1, q2}
  None = None
  SessionTTL = 1
  Window = 2
  Limit = 1
  MaxClock = 3
  w1 = w1
  d1 = d1
  t1 = t1
  Tickers = {t1}
  Ratings = {Buy}
  Sweepers = {w1}
  Digesters = {d1}
  Interval = 1
  MaxReports = 0
  MaxFaults = 0
  MaxCalls = 0
  Windows = {1}
  Prices = {200}
  MaxDay = 0
  MaxOutages = 0
  MaxMoves = 0
SYMMETRY Symmetry
INVARIANTS ResolutionsWithinLimit ErasureHolds
CHECK_DEADLOCK FALSE
