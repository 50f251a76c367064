----------------------------- MODULE RbacTables -----------------------------
(***************************************************************************)
(* The tables of the Lucid permission store and the reads it answers from  *)
(* them.  A database is one set of rows: a row of authz_roles or           *)
(* authz_permissions is a "name" row, and the three pivot tables hold      *)
(* "grant" (role -> permission), "assign" (subject -> role, in a tenant,   *)
(* from a source) and "direct" (subject -> permission) rows.  Pivot rows   *)
(* refer to roles and permissions by id, and the schema declares no        *)
(* foreign keys, so nothing here makes a referenced id exist.              *)
(***************************************************************************)
EXTENDS Naturals

CONSTANTS
  Role,      \* role names
  Perm,      \* permission names
  Subject,   \* subject references, a (type, id) pair each
  Tenant,    \* tenant scopes, Global among them
  Global,    \* the tenant '' : the row applies in every tenant
  Source,    \* provenance of an assignment: 'manual', 'scim', ...
  MaxId      \* bound on the number of ids in use at one time

ASSUME TablesAssumption ==
  /\ Role \cap Perm = {}
  /\ Global \in Tenant
  /\ MaxId \in Nat

Name == Role \cup Perm
Id == 1 .. MaxId
NoId == 0

NameRow   == [tab : {"name"}, id : Id, name : Name]
GrantRow  == [tab : {"grant"}, role : Id, perm : Id]
AssignRow == [tab : {"assign"}, subj : Subject, role : Id,
              tenant : Tenant, source : Source]
DirectRow == [tab : {"direct"}, subj : Subject, perm : Id]
Row == NameRow \cup GrantRow \cup AssignRow \cup DirectRow

Named(i, n)           == [tab |-> "name", id |-> i, name |-> n]
Granted(r, p)         == [tab |-> "grant", role |-> r, perm |-> p]
Assigned(u, r, t, s)  == [tab |-> "assign", subj |-> u, role |-> r,
                          tenant |-> t, source |-> s]
Direct(u, p)          == [tab |-> "direct", subj |-> u, perm |-> p]

(* The ids a row mentions: its own for a name row, its references otherwise. *)
IdsIn(r) == CASE r.tab = "name"   -> {r.id}
              [] r.tab = "grant"  -> {r.role, r.perm}
              [] r.tab = "assign" -> {r.role}
              [] r.tab = "direct" -> {r.perm}

(* The ids a pivot row refers to. *)
Refs(r) == IF r.tab = "name" THEN {} ELSE IdsIn(r)

(* Mutant: the UNIQUE constraint on a role's and a permission's name is gone. *)
SameKeyNoUnique(r, x) == r = x

(* Unique keys: the name of a role or permission, the whole row of a pivot. *)
SameKey(r, x) == \/ r = x
                 \/ r.tab = "name" /\ x.tab = "name" /\ r.name = x.name

-----------------------------------------------------------------------------
(* Reads.  D is the database as the reading client sees it. *)

Ids(D, N) == {r.id : r \in {x \in D : x.tab = "name" /\ x.name \in N}}

(* Tenant clause: global rows, and those of the tenant asked for. *)
Visible(t, asked) == t \in {Global, asked}

AssignedTo(D, u, asked) ==
  {a \in D : a.tab = "assign" /\ a.subj = u /\ Visible(a.tenant, asked)}

RolesForSubject(D, u, asked) ==
  {n \in Role : \E a \in AssignedTo(D, u, asked) : a.role \in Ids(D, {n})}

(* Mutant: the query forgets its tenant clause. *)
PermissionsForSubjectAnyTenant(D, u, asked) ==
  {p \in Perm :
     \/ \E a \in D, i \in Ids(D, {p}) :
          a.tab = "assign" /\ a.subj = u /\ Granted(a.role, i) \in D
     \/ \E i \in Ids(D, {p}) : Direct(u, i) \in D}

(* Joins the two pivots on the role id; the roles table takes no part. *)
PermissionsForSubject(D, u, asked) ==
  {p \in Perm :
     \/ \E a \in AssignedTo(D, u, asked) :
          \E i \in Ids(D, {p}) : Granted(a.role, i) \in D
     \/ \E i \in Ids(D, {p}) : Direct(u, i) \in D}

RolePermissions(D, n) ==
  {p \in Perm : \E i \in Ids(D, {n}), j \in Ids(D, {p}) : Granted(i, j) \in D}

DirectPermissions(D, u) ==
  {p \in Perm : \E i \in Ids(D, {p}) : Direct(u, i) \in D}

(* A permission reported for a subject is one it was granted directly, or   *)
(* one of a role reported for it.                                           *)
AllBacked(D) ==
  \A u \in Subject, t \in Tenant :
    PermissionsForSubject(D, u, t) \subseteq
      DirectPermissions(D, u) \cup
      UNION {RolePermissions(D, n) : n \in RolesForSubject(D, u, t)}

(* The ids a row refers to are ids of roles, or of permissions, of D. *)
RefsExist(r, D) ==
  /\ r.tab = "grant"  => r.role \in Ids(D, Role) /\ r.perm \in Ids(D, Perm)
  /\ r.tab = "assign" => r.role \in Ids(D, Role)
  /\ r.tab = "direct" => r.perm \in Ids(D, Perm)

-----------------------------------------------------------------------------
(* The database at the level of names: what the contract speaks of, and all *)
(* the reads can see.                                                       *)

NamesIn(D, N) == {n \in N : Ids(D, {n}) # {}}
Grants(D) == {g \in Role \X Perm : g[2] \in RolePermissions(D, g[1])}
Memberships(D) ==
  {m \in [subj : Subject, role : Role, tenant : Tenant, source : Source] :
     \E i \in Ids(D, {m.role}) : Assigned(m.subj, i, m.tenant, m.source) \in D}
Directs(D) == {d \in Subject \X Perm : d[2] \in DirectPermissions(D, d[1])}
=============================================================================
