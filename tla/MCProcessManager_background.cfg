SPECIFICATION Spec
CONSTANTS
  NumTerminals = 3
  NumProcesses = 6
  BASE_SHELL = 24
  Environment <- BackgroundExecute
CHECK_DEADLOCK FALSE
PROPERTY TickGoesToNewTerminal
