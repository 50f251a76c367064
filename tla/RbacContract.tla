---------------------------- MODULE RbacContract ----------------------------
(***************************************************************************)
(* What the PermissionStore contract promises of every write, in terms of  *)
(* names alone: a pending call changes the roles, permissions, grants and  *)
(* memberships in one atomic step, and a call that creates the names it    *)
(* needs may create them in steps of their own before that.                *)
(*                                                                         *)
(* What a call that replaces or clears a set promises comes in three       *)
(* strengths.  "exact": it does exactly that, or fails and does nothing.   *)
(* "bar deletions": it never fails, and does exactly that but for roles    *)
(* that another call has deleted since it began, which it may leave out.   *)
(* "scoped": it touches nothing outside its own scope, but the overlapping *)
(* writes of other callers may leave the set short of, or beyond, the one  *)
(* asked for, and it may fail.                                             *)
(***************************************************************************)
EXTENDS RbacCalls

CONSTANT Promise  \* "exact", "bar deletions" or "scoped"

VARIABLES
  pending,  \* pending[p]: the call caller p is in
  lost,     \* lost[p]: roles of that call, deleted since, that it will leave out
  roles,    \* the roles that exist
  perms,    \* the permissions that exist
  grants,   \* pairs <<role, permission>>
  members,  \* assignments: [subj, role, tenant, source]
  direct    \* pairs <<subject, permission>>

data == <<roles, perms, grants, members, direct>>
vars == <<pending, lost, data>>

MayFail == Promise # "bar deletions"

ListedBy(c) == [subj : {c.subj}, role : c.roles, tenant : {c.tenant}, source : c.sources]
ScopeOf(c)  == {m \in members : /\ m.subj = c.subj /\ m.tenant = c.tenant
                                /\ m.source \in c.sources}

(* The call c for the roles of its list that are not gone. *)
Without(c, gone) == [c EXCEPT !.roles = @ \ gone]

(* A name the call needs comes into being. *)
Create(c) ==
  /\ c.kind \notin FindOnlyKinds
  /\ \E n \in c.roles \cup c.perms :
       /\ roles' = roles \cup ({n} \cap Role)
       /\ perms' = perms \cup ({n} \cap Perm)
  /\ UNCHANGED <<grants, members, direct>>

Grant(c) ==
  /\ c.kind = "givePermissionToRole"
  /\ c.roles \subseteq roles /\ c.perms \subseteq perms
  /\ grants' = grants \cup (c.roles \X c.perms)
  /\ UNCHANGED <<roles, perms, members, direct>>

Revoke(c) ==
  /\ c.kind = "revokePermissionFromRole"
  /\ grants' = grants \ (c.roles \X c.perms)
  /\ UNCHANGED <<roles, perms, members, direct>>

Assign(c) ==
  /\ c.kind = "assignRole"
  /\ c.roles \subseteq roles
  /\ members' = members \cup ListedBy(c)
  /\ UNCHANGED <<roles, perms, grants, direct>>

Remove(c) ==
  /\ c.kind = "removeRole"
  /\ members' = members \ ListedBy(c)
  /\ UNCHANGED <<roles, perms, grants, direct>>

GiveDirect(c) ==
  /\ c.kind = "giveSubjectPermission"
  /\ c.perms \subseteq perms
  /\ direct' = direct \cup ({c.subj} \X c.perms)
  /\ UNCHANGED <<roles, perms, grants, members>>

RevokeDirect(c) ==
  /\ c.kind = "revokeSubjectPermission"
  /\ direct' = direct \ ({c.subj} \X c.perms)
  /\ UNCHANGED <<roles, perms, grants, members>>

(* One source's assignments of one subject in one tenant become c.roles. *)
SetSubjectRoles(c) ==
  /\ c.kind = "setSubjectRoles"
  /\ \E created \in SUBSET c.roles, added \in SUBSET ListedBy(c),
        removed \in SUBSET ScopeOf(c) :
       /\ roles' = roles \cup created
       /\ members' = (members \ removed) \cup added
       /\ Promise # "scoped" =>
            created = c.roles /\ added = ListedBy(c) /\ removed = ScopeOf(c)
  /\ UNCHANGED <<perms, grants, direct>>

(* A role's permissions become c.perms. *)
SyncRolePermissions(c) ==
  /\ c.kind = "syncRolePermissions"
  /\ \E createdRole \in SUBSET c.roles, created \in SUBSET c.perms,
        added \in SUBSET (c.roles \X c.perms),
        removed \in SUBSET {g \in grants : g[1] \in c.roles} :
       /\ roles' = roles \cup createdRole
       /\ perms' = perms \cup created
       /\ grants' = (grants \ removed) \cup added
       /\ Promise # "scoped" =>
            /\ createdRole = c.roles /\ created = c.perms
            /\ added = c.roles \X c.perms
            /\ removed = {g \in grants : g[1] \in c.roles}
  /\ UNCHANGED <<members, direct>>

(* A role disappears with every grant and every assignment of it. *)
DeleteRole(c) ==
  /\ c.kind = "deleteRole"
  /\ roles' = roles \ c.roles
  /\ grants' = {g \in grants : g[1] \notin c.roles}
  /\ members' = {m \in members : m.role \notin c.roles}
  /\ UNCHANGED <<perms, direct>>

(* A subject's assignments and direct permissions disappear. *)
RemoveSubject(c) ==
  LET ofSubject == {m \in members : m.subj = c.subj}
      directOf  == {d \in direct : d[1] = c.subj}
  IN /\ c.kind = "removeSubject"
     /\ \E gone \in SUBSET ofSubject, goneDirect \in SUBSET directOf :
          /\ members' = members \ gone
          /\ direct' = direct \ goneDirect
          /\ Promise # "scoped" => gone = ofSubject /\ goneDirect = directOf
     /\ UNCHANGED <<roles, perms, grants>>

(* Everything a call is for: that which ends it. *)
Write(c) ==
  \/ c.kind \in {"createRole", "createPermission"} /\ Create(c)
  \/ Grant(c) \/ Revoke(c) \/ Assign(c) \/ Remove(c)
  \/ GiveDirect(c) \/ RevokeDirect(c) \/ SetSubjectRoles(c)
  \/ SyncRolePermissions(c) \/ DeleteRole(c) \/ RemoveSubject(c)

(* When p's step takes the roles `gone`, any call that needs one and does   *)
(* not look it up at its end may have to leave it out.                      *)
Loses(gone) ==
  /\ lost' \in [Proc -> SUBSET Role]
  /\ \A q \in Proc :
       IF pending'[q] = NoCall THEN lost'[q] = {}
       ELSE /\ lost[q] \subseteq lost'[q]
            /\ lost'[q] \ lost[q] \subseteq gone \cap pending[q].roles
            /\ pending[q].kind \in FindOnlyKinds => lost'[q] = lost[q]

(* The roles a call's last step takes away. *)
Taken(c) ==
  IF Promise = "bar deletions" /\ c.kind = "deleteRole" THEN c.roles \cap roles ELSE {}

Begin(p) ==
  /\ pending[p] = NoCall
  /\ \E c \in Calls : pending' = [pending EXCEPT ![p] = c]
  /\ UNCHANGED data

Ends(p) == pending' = [pending EXCEPT ![p] = NoCall]

(* A call that may fail may also commit before it returns. *)
Next ==
  \E p \in Proc :
    \/ Begin(p) /\ Loses({})
    \/ Create(pending[p]) /\ UNCHANGED pending /\ Loses({})
    \/ /\ Write(Without(pending[p], lost[p])) /\ Loses(Taken(pending[p]))
       /\ Ends(p) \/ (MayFail /\ UNCHANGED pending)
    \/ MayFail /\ Ends(p) /\ UNCHANGED data /\ Loses({})

Init ==
  /\ pending = [p \in Proc |-> NoCall]
  /\ lost = [p \in Proc |-> {}]
  /\ roles = {} /\ perms = {} /\ grants = {} /\ members = {} /\ direct = {}

Spec == Init /\ [][Next]_vars
=============================================================================
