SPECIFICATION Spec
CONSTANTS
  Role = {r1}
  Perm = {q1}
  Subject = {u1}
  Tenant = {global, t1}
  Global = global
  Source = {manual}
  MaxId = 4
  Proc = {p1, p2}
  None = None
  Kinds = {"givePermissionToRole", "assignRole", "setSubjectRoles"}
  Isolation = "ReadCommitted"
  HasTransaction = TRUE
  HostTx = TRUE
SYMMETRY Symmetry
INVARIANTS RefIntegrity PermissionsBacked
