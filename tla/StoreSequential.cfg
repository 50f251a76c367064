SPECIFICATION Spec
CONSTANTS
  Role = {r1, r2}
  Perm = {q1}
  Subject = {u1}
  Tenant = {global, t1}
  Global = global
  Source = {manual, scim}
  MaxId = 3
  Proc = {p1}
  None = None
  Kinds = {"createRole", "createPermission", "givePermissionToRole", "revokePermissionFromRole", "assignRole", "removeRole", "setSubjectRoles", "syncRolePermissions", "deleteRole", "removeSubject", "giveSubjectPermission", "revokeSubjectPermission"}
  Isolation = "ReadCommitted"
  HasTransaction = TRUE
  HostTx = FALSE
SYMMETRY Symmetry
INVARIANT RefIntegrity
PROPERTIES ReturnHasEffect ImplementsContract
