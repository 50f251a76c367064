SPECIFICATION Spec
CONSTANTS
  Role = {r1}
  Perm = {q1}
  Subject = {u1}
  Tenant = {global}
  Global = global
  Source = {manual}
  MaxId = 3
  Proc = {p1, p2, p3}
  None = None
  Kinds = {"givePermissionToRole", "assignRole", "deleteRole"}
  Isolation = "ReadCommitted"
  HasTransaction = TRUE
  HostTx = FALSE
INVARIANT PermissionsBacked
