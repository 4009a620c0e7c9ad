SPECIFICATION MCSpec
CONSTANTS
  Tickers = {t1}
  Handlers = {h1}
  Sweeps = {s1}
  Proposals = {}
  Alerts = {a1}
  Nobody = Nobody
  MaxLot = 1
  MaxAsked = 2
  MaxFaults = 1
  MaxCrashes = 0
  MaxMoves = 1
  Scenes = {"orders"}
  HistoryLimit = 1
  MaxRows = 0
  MaxNotices = 0
  MaxCrossed = 0
CHECK_DEADLOCK FALSE
INVARIANT AlertFiresOnce
