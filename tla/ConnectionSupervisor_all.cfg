SPECIFICATION Spec
CONSTANTS
  Failures <- AllKinds
  AttemptCap = 1
  MaxFaults = 2
  MaxOsEvents = 2
  MaxRetries = 1
INVARIANTS StateIsTrue
PROPERTIES TerminalBlocksStay FlapsKeepTheLadder Recovers DeadLinkIsNoticed WakesAreDrained
CHECK_DEADLOCK FALSE
