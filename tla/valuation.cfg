SPECIFICATION MCSpec
CONSTANTS
  Missing = Missing
  NaN = NaN
  Raised = Raised
  Cases <- MCCases
  LiveRates = {3, 5}
  MaxReports = 2
  Tickers = {1, 2}
  LastDay = 7
  Dates <- MCDates
  Worlds <- MCWorlds
  StartingCapital = 3359232
  CostOneIn = 3
  TopN = 1
  FilingLag = 1
  MinReturns = 2
INVARIANTS NumbersOrNothing DegradesHonestly NoLookAhead AccountAddsUp
PROPERTIES ServedForSameInputs
CHECK_DEADLOCK FALSE
