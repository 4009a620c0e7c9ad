SPECIFICATION MCSpec
CONSTANTS
  Tickers = {t1, t2}
  Handlers = {h1, h2}
  Sweeps = {}
  Proposals = {p1, p2}
  Alerts = {}
  Nobody = Nobody
  MaxLot = 1
  MaxAsked = 3
  MaxFaults = 1
  MaxCrashes = 0
  MaxMoves = 0
  Scenes = {"orders", "conversation"}
  HistoryLimit = 2
  MaxRows = 5
  MaxNotices = 1
  MaxCrossed = 2
SYMMETRY ChatSymmetry
INVARIANTS OrdersAddUp ProposalsHold ChatHolds
