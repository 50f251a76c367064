SPECIFICATION Spec
CONSTANTS
  segA = "a"
  segB = "b"
  permX = "x"
  permY = "y"
  Star = "*"
  Null = Null
  Nobody = Nobody
  Mapped = {"n", "m"}
  Role = {"r1", "r2"}
  Perm = {"p1"}
  Subject <- MCSubject
  Tenant = {"", "t"}
  Global = ""
  Source = {"manual", "scim"}
  MaxId = 3
  MaxBatch = 3
INVARIANTS
  MatcherAgrees SharedAgrees BatchAgrees ScopeAgrees PageAgrees
  SubjectsListedOnce SqlNeverWidens SqlExact PlanNeverWidens PlanExact BatchesIndependent
  ReadsAgree MemoryReadsAgree RelationAgrees
CHECK_DEADLOCK FALSE
