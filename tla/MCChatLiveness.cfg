CONSTANTS
  Sessions = {s1, s2}
  NoSession = NoSession
  MaxLines = 0
  MaxFaults = 1
  MaxEvents = 1
  CtrlC = TRUE
SPECIFICATION FairSpec
PROPERTIES
  ImplementsBroadcast
  EventuallyWritten
  ShutdownWhenAlone
