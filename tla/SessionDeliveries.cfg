SPECIFICATION Spec
CONSTANTS
  Files = {f1, f2}
  Silent = {}
  Loops = {w1}
  Call = call
  NoFile = none
  MaxAttempts = 1
  MaxResyncs = 0
  MaxFaults = 1
SYMMETRY Symmetry
INVARIANTS FinalPutOnce WriterKeepsItsRow
PROPERTIES CompleteFileIsKept
CHECK_DEADLOCK FALSE
