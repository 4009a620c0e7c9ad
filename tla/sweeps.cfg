SPECIFICATION MCSpec
CONSTANTS
  w1 = w1
  d1 = d1
  t1 = t1
  Users = {u1}
  Tickers = {t1, t2}
  Ratings = {Buy, Sell}
  None = None
  Sweepers = {w1, w2}
  Digesters = {d1, d2}
  Interval = 1
  MaxClock = 2
  MaxReports = 2
  MaxFaults = 1
  MaxCalls = 1
  Windows = {1}
  Prices = {200, 220}
  MaxDay = 2
  MaxOutages = 1
  MaxMoves = 1
INVARIANTS NoChangeSkipped OutcomesHold
PROPERTY SweepsCatchUp
CHECK_DEADLOCK FALSE
