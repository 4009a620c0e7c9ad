SPECIFICATION MCSpec
CONSTANTS
  Threads = {r1, r2}
  Requests = {r1, r2}
  UsTitles = {us, other}
  NseTitles = {in}
  Messages <- MCMessages
  SecTickers = {us}
  NseTickers = {in}
  Kinds <- MCKinds
  None = None
  MaxOutages = 1
  MaxCrashes = 1
  MaxReqCrashes = 1
  MaxExhibits = 1
  MaxFilings = 2
  MaxFaults = 1
  MaxExpiries = 1
INVARIANTS FailuresAreNotKept NseOutageConfined FilingsHold
PROPERTIES SourcesRecover
CHECK_DEADLOCK FALSE
