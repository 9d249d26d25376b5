SPECIFICATION Spec
CONSTANTS
  Msgs = {m1, m2, k1}
  Wakes = {k1}
  NoMsg = none
  Harnesses = {"claude", "codex", "other"}
  MaxRestarts = 1
  MaxResends = 1
INVARIANTS StreamingIsAlive RowsMatchQueue HandedOnce
PROPERTIES QueueRunsAlone WaitingEnds
CHECK_DEADLOCK FALSE
