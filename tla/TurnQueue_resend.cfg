SPECIFICATION Spec
CONSTANTS
  Msgs = {m1, m2}
  Wakes = {}
  NoMsg = none
  Harnesses = {"claude"}
  MaxRestarts = 1
  MaxResends = 2
INVARIANT OnlyUndeliveredRunsAgain
CHECK_DEADLOCK FALSE
