SPECIFICATION Spec
CONSTANTS
  Process = {p1, p2}
  Row = {r1}
  Absent = Absent
  Dialects = {"pg", "mysql", "sqlite"}
  Starts = {"fresh", "legacy", "named", "both", "undone"}
  MaxCrashes = 2
  MaxWrites = 1
INVARIANTS TypeOK CarriedOver RevokedStaysRevoked AloneBootSucceeds OneGetsThrough
PROPERTY WrappedStepsTolerate
CHECK_DEADLOCK FALSE
