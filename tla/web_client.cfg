SPECIFICATION MCSpec
CONSTANTS
  Turns = {t1, t2}
  Replies = {r1, r2}
  None = None
  MaxRetries = 1
  MaxFaults = 2
  MaxClicks = 2
  Selectable = {"a", "b", "x"}
  Short = "x"
  Reports = {"r", "s"}
  Sliders = {"growth", "wacc"}
  Values = {1, 2, 3}
  First = 1
  Tickers = {"a", "b"}
  Questions = {"p", "q"}
  Recordings = {"m", "n"}
  VoiceQuestions = 2
  MaxSteps = 3
  MaxOpened = 2
  MaxStarts = 3
  MaxStopFaults = 1
SYMMETRY Symmetry
INVARIANTS VoiceHolds PagesHold MicrophoneIsReturned
CHECK_DEADLOCK FALSE
