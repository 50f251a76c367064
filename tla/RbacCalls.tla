----------------------------- MODULE RbacCalls ------------------------------
(***************************************************************************)
(* The write calls of the PermissionStore contract: what callers of any    *)
(* implementation ask for.                                                 *)
(***************************************************************************)
EXTENDS RbacTables

CONSTANTS
  Proc,    \* concurrent callers: requests, jobs or processes
  None,    \* no subject, no name
  Kinds    \* the kinds of call the callers make

(* Mutant: deleteRole runs its statements one by one. *)
TxKindsWithoutDelete == {"setSubjectRoles", "syncRolePermissions", "removeSubject"}

(* Calls the contract calls atomic: they replace or clear a set of rows.    *)
TxKinds == {"setSubjectRoles", "deleteRole", "syncRolePermissions",
            "removeSubject"}

(* Calls that look names up and never create them. *)
FindOnlyKinds == {"revokePermissionFromRole", "removeRole", "deleteRole",
                  "revokeSubjectPermission"}

AllKinds == TxKinds \cup FindOnlyKinds \cup
            {"createRole", "createPermission", "givePermissionToRole",
             "assignRole", "giveSubjectPermission"}

(* Roles are resolved before permissions; a list in the order it was given. *)
NextNames(W) == IF W \cap Role # {} THEN W \cap Role ELSE W

ASSUME CallsAssumption ==
  /\ None \notin Subject \cup Name
  /\ Kinds \subseteq AllKinds

(* Fields a kind does not use are None, {} or Global; removeRole without a  *)
(* source names every source.                                              *)
CallType == [kind : AllKinds \cup {"none"}, subj : Subject \cup {None},
             roles : SUBSET Role, perms : SUBSET Perm,
             tenant : Tenant, sources : SUBSET Source]

Call(k, u, R, P, t, S) ==
  [kind |-> k, subj |-> u, roles |-> R, perms |-> P, tenant |-> t, sources |-> S]

NoCall == Call("none", None, {}, {}, Global, {})

RoleCalls(k)   == {Call(k, None, {n}, {}, Global, {}) : n \in Role}
PairCalls(k)   == {Call(k, None, {n}, {q}, Global, {}) : n \in Role, q \in Perm}
DirectCalls(k) == {Call(k, u, {}, {q}, Global, {}) : u \in Subject, q \in Perm}

CreatePermissionCalls == {Call("createPermission", None, {}, {q}, Global, {}) : q \in Perm}
SyncCalls == {Call("syncRolePermissions", None, {n}, Q, Global, {}) :
                n \in Role, Q \in SUBSET Perm}
AssignCalls == {Call("assignRole", u, {n}, {}, t, {s}) :
                  u \in Subject, n \in Role, t \in Tenant, s \in Source}
RemoveCalls == {Call("removeRole", u, {n}, {}, t, S) :
                  u \in Subject, n \in Role, t \in Tenant,
                  S \in {Source} \cup {{s} : s \in Source}}
SetCalls == {Call("setSubjectRoles", u, N, {}, t, {s}) :
               u \in Subject, N \in SUBSET Role, t \in Tenant, s \in Source}
RemoveSubjectCalls == {Call("removeSubject", u, {}, {}, Global, {}) : u \in Subject}

AllCalls == UNION {
  RoleCalls("createRole"), RoleCalls("deleteRole"), CreatePermissionCalls,
  PairCalls("givePermissionToRole"), PairCalls("revokePermissionFromRole"),
  DirectCalls("giveSubjectPermission"), DirectCalls("revokeSubjectPermission"),
  SyncCalls, AssignCalls, RemoveCalls, SetCalls, RemoveSubjectCalls}

Calls == {c \in AllCalls : c.kind \in Kinds}

(* The pivot rows a call adds for role ids R and permission ids P. *)
RowsToAdd(c, R, P) ==
  CASE c.kind \in {"givePermissionToRole", "syncRolePermissions"} ->
         {Granted(i, j) : i \in R, j \in P}
    [] c.kind \in {"assignRole", "setSubjectRoles"} ->
         {Assigned(c.subj, i, c.tenant, s) : i \in R, s \in c.sources}
    [] c.kind = "giveSubjectPermission" -> {Direct(c.subj, j) : j \in P}
    [] OTHER -> {}

(* What a call that returns must have achieved, on the database D its       *)
(* caller sees.                                                             *)
Effect(c, D) ==
  LET listed == {[subj |-> c.subj, role |-> n, tenant |-> c.tenant, source |-> s] :
                   n \in c.roles, s \in c.sources}
      scope  == {m \in Memberships(D) : /\ m.subj = c.subj /\ m.tenant = c.tenant
                                        /\ m.source \in c.sources}
      granted == UNION {RolePermissions(D, n) : n \in c.roles}
      ofSubject == {r \in D : r.tab \in {"assign", "direct"} /\ r.subj = c.subj}
  IN CASE c.kind \in {"createRole", "createPermission"} ->
            c.roles \cup c.perms \subseteq NamesIn(D, Name)
       [] c.kind = "givePermissionToRole"     -> c.perms \subseteq granted
       [] c.kind = "revokePermissionFromRole" -> c.perms \cap granted = {}
       [] c.kind = "syncRolePermissions"      -> granted = c.perms
       [] c.kind = "assignRole"               -> listed \subseteq scope
       [] c.kind = "removeRole"               -> listed \cap scope = {}
       [] c.kind = "setSubjectRoles"          -> scope = listed
       [] c.kind = "deleteRole"               -> NamesIn(D, c.roles) = {}
       [] c.kind = "removeSubject"            -> ofSubject = {}
       [] c.kind = "giveSubjectPermission"    -> c.perms \subseteq DirectPermissions(D, c.subj)
       [] c.kind = "revokeSubjectPermission"  -> c.perms \cap DirectPermissions(D, c.subj) = {}
=============================================================================
