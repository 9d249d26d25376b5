SPECIFICATION Spec
CONSTANTS
  Sessions = {s1, s2}
  MaxNotes = 2
  MaxAttempts = 3
  MaxStops = 2
SYMMETRY Symmetry
INVARIANTS InputIsNeverReplayed BudgetSurvivesCrashes PauseIsDurable RetriesAreScheduled
