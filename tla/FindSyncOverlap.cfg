SPECIFICATION Spec
CONSTANTS
  Role = {r1}
  Perm = {q1, q2}
  Subject = {u1}
  Tenant = {global}
  Global = global
  Source = {manual}
  MaxId = 5
  Proc = {p1, p2}
  None = None
  Kinds = {"createPermission", "syncRolePermissions"}
  Isolation = "ReadCommitted"
  HasTransaction = TRUE
  HostTx = FALSE
PROPERTY ImplementsContract
