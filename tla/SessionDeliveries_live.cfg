SPECIFICATION FairSpec
CONSTANTS
  Files = {f1}
  Silent = {f1}
  Loops = {w1, w2}
  Call = call
  NoFile = none
  MaxAttempts = 2
  MaxResyncs = 1
  MaxFaults = 2
INVARIANTS NodeCopyIsReal
PROPERTIES CompleteFileIsCarried
CHECK_DEADLOCK FALSE
