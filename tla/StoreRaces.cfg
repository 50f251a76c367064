SPECIFICATION FairSpec
CONSTANTS
  Role = {r1, r2}
  Perm = {}
  Subject = {u1}
  Tenant = {global}
  Global = global
  Source = {manual}
  MaxId = 4
  Proc = {p1, p2}
  None = None
  Kinds = {"createRole", "assignRole"}
  Isolation = "ReadCommitted"
  HasTransaction = TRUE
  HostTx = TRUE
PROPERTIES ReturnHasEffect CallsEnd
