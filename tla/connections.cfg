SPECIFICATION MCSpec
CONSTANTS
  c1 = c1
  s1 = s1
  None = None
  Conns = {c1, c2}
  Tickers = {1, 2}
  Junk = Junk
  NoTick = NoTick
  MaxPerClient = 1
  MaxTotal = 1
  MaxMessage = 2
  MaxMoves = 2
  MaxFaults = 1
  Screens = {s1, s2}
  Interest <- MCInterest
  Attempts = {a1, a2, a3}
  GiveUpAfter = 2
  MaxLinkFaults = 3
  MaxOnline = 1
  Links = {1, 2}
  Timers = {1, 2, 3}
  MaxListenerFaults = 1
  MaxClicks = 2
  MaxWakes = 1
INVARIANTS LatestIsDue StreamHolds ListenerHolds
PROPERTIES NeverBackwards QuotesArrive Recovers
CHECK_DEADLOCK FALSE
