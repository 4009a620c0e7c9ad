SPECIFICATION MCFairSpec
CONSTANTS
  Tickers = {t1}
  Handlers = {h1}
  Sweeps = {s1, s2}
  Proposals = {}
  Alerts = {a1}
  Nobody = Nobody
  MaxLot = 1
  MaxAsked = 3
  MaxFaults = 2
  MaxCrashes = 1
  MaxMoves = 2
  Scenes = {"orders"}
  HistoryLimit = 1
  MaxRows = 0
  MaxNotices = 0
  MaxCrossed = 0
INVARIANTS AlertsAccounted
PROPERTIES AlertsGetHandled
