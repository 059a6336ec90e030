SPECIFICATION FairSpec
CONSTANTS
  MaxLines = 3
  MaxReceived = 1
INVARIANTS SentInOrder QuitSendsAll
PROPERTY Terminates
