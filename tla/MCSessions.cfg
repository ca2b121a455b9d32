SPECIFICATION FairSpec
CONSTANTS
  NumTerminals = 3
  NumProcesses = 6
  BASE_SHELL = 24
  Environment <- Disciplined
INVARIANT KernelKnowsWhoRuns
INVARIANT SuspendedTerminalsResumable
INVARIANT WaitingParentsIntact
PROPERTY ExecuteReturnsAfterChild
PROPERTY EveryTerminalServed
PROPERTY ImplementsSessions
