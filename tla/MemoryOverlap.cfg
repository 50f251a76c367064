SPECIFICATION Spec
CONSTANTS
  Role = {r1, r2}
  Perm = {q1}
  Subject = {u1}
  Tenant = {global}
  Global = global
  Source = {manual, scim}
  MaxId = 3
  Proc = {p1, p2}
  None = None
  Kinds = {"createRole", "createPermission", "givePermissionToRole", "revokePermissionFromRole", "assignRole", "removeRole", "setSubjectRoles", "syncRolePermissions", "deleteRole", "removeSubject", "giveSubjectPermission", "revokeSubjectPermission"}
SYMMETRY Symmetry
CHECK_DEADLOCK FALSE
INVARIANT TypeOK
PROPERTIES ReturnHasEffect ImplementsContract
