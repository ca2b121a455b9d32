SPECIFICATION Spec
CONSTANTS
  NumTerminals = 2
  MaxDepth = 3
INVARIANT InServiceHasHandler
INVARIANT SharedWorkAlone
INVARIANT SuspendedInScheduler
PROPERTY KeysServed
PROPERTY ClockRunsOn
