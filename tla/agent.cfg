SPECIFICATION MCSpec
CONSTANTS
  Missing = Missing
  NaN = NaN
  Requests = {q1}
  MaxRetries = 1
  MaxForeign = 1
  MaxFaults = 1
  MaxProposal = 1
  MaxFired = 1
  Upsides <- MCUpsides
  Histories <- MCHistories
  Scores = {80}
  Workers = {w1, w2}
  Sections = {"summary", "thesis"}
  Proximity = 1
  TopK = 2
  MaxChunkChars = 8
  Categories <- MCCategories
  PerCategoryMin = 2
  MaxSelected = 5
  Filings <- MCFilings
  Feeds <- MCFeeds
  Growths <- MCGrowths
  Days = {1, 2}
  Groundings = {0, 100}
  MaxLines = 4
  MaxCached = 1
INVARIANTS RatingsHold UsageIsOwn NarrativeHolds EvidenceHolds
PROPERTIES ImplementsContract RunEnds
CHECK_DEADLOCK FALSE
