CONSTANTS
  Sessions = {s1, s2}
  NoSession = NoSession
  MaxLines = 2
  MaxFaults = 1
  MaxEvents = 2
  CtrlC = FALSE
SPECIFICATION Spec
SYMMETRY Symmetry
INVARIANTS
  MemberView
  NameAnnounced
  WriteChain
  StoppedLeaves
  DepartureAnnounced
