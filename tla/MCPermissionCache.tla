------------------------- MODULE MCPermissionCache -------------------------
(* One role and one permission, which the configuration grants to the role; *)
(* the request's context names the tenant.                                  *)
EXTENDS PermissionCache

CONSTANTS r, p, t

MCRoleGrants == [x \in {r} |-> {p}]
MCContextTenant == [q \in Request |-> t]
=============================================================================
