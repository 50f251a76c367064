SPECIFICATION Spec
CONSTANTS
  Check = {c1, c2}
  Request = {q1}
  None = None
  Unset = Unset
  r = r
  p = p
  t = t
  Tenant = {t}
  Given = {Unset, None}
  Role = {r}
  Perm = {p}
  ContextRoles = {}
  RoleGrants <- MCRoleGrants
  ResolvedTenant = Unset
  ContextTenant <- MCContextTenant
  MaxWrites = 1
  MaxFail = 1
PROPERTY ChecksEnd
INVARIANTS TypeOK OneRead SameAnswers AnswersWithinRequest FailsAfresh
CHECK_DEADLOCK FALSE
