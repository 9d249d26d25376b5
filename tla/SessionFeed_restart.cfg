CONSTANTS
  MaxEvents = 3
  MaxRestarts = 1
  MaxDrops = 0
SPECIFICATION Spec
INVARIANT RestartIsSurvived
