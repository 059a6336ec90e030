CONSTANTS
  Sessions = {s1, s2}
  NoSession = NoSession
  MaxLines = 0
  MaxFaults = 0
  MaxEvents = 0
  CtrlC = TRUE
SPECIFICATION FairSpec
PROPERTIES
  CtrlCShutsDown
