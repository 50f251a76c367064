SPECIFICATION Spec
CONSTANTS
  Role = {r1}
  Perm = {}
  Subject = {u1}
  Tenant = {global}
  Global = global
  Source = {manual}
  MaxId = 3
  Proc = {p1, p2}
  None = None
  Kinds = {"createRole", "setSubjectRoles"}
  Isolation = "RepeatableRead"
  HasTransaction = TRUE
  HostTx = FALSE
INVARIANT RefIntegrity
