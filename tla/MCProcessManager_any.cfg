SPECIFICATION Spec
CONSTANTS
  NumTerminals = 2
  NumProcesses = 4
  BASE_SHELL = 24
  Environment <- AnyEvent
CHECK_DEADLOCK FALSE
INVARIANT TypeOK
INVARIANT ChainsAreSound
