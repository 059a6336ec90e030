CONSTANTS
  Sessions = {s1, s2}
  NoSession = NoSession
  MaxLines = 1
  MaxFaults = 0
  MaxEvents = 1
  CtrlC = FALSE
SPECIFICATION Spec
INVARIANTS
  OversizedNoticeSent
