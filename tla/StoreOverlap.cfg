SPECIFICATION Spec
CONSTANTS
  Role = {r1}
  Perm = {q1}
  Subject = {u1}
  Tenant = {global}
  Global = global
  Source = {manual}
  MaxId = 3
  Proc = {p1, p2}
  None = None
  Kinds = {"givePermissionToRole", "assignRole", "setSubjectRoles", "deleteRole", "syncRolePermissions", "removeSubject"}
  Isolation = "ReadCommitted"
  HasTransaction = TRUE
  HostTx = FALSE
SYMMETRY Symmetry
INVARIANTS TypeOK NamesUnique
PROPERTIES NewNamesStartEmpty ImplementsScopedContract
