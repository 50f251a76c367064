SPECIFICATION Spec
CONSTANTS
  Process = {p1, p2}
  Row = {r1}
  Absent = Absent
  Dialects = {"pg", "mysql", "sqlite"}
  Starts = {"legacy"}
  MaxCrashes = 0
  MaxWrites = 0
INVARIANT ToleratesOthers
CHECK_DEADLOCK FALSE
