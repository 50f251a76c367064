----------------------------- MODULE RbacProofs -----------------------------
(***************************************************************************)
(* Facts about the calls and the tables that the proofs about both stores  *)
(* rest on.                                                                *)
(***************************************************************************)
EXTENDS RbacCalls, TLAPS

-----------------------------------------------------------------------------
(* The calls. *)

(* Every call of the contract is a call. *)
LEMMA CallsTyped == Calls \subseteq CallType
<1> DEFINE Typed(S) == \A c \in S : c \in CallType
<1>2. Global \in Tenant
  BY TablesAssumption
<1>3. ASSUME NEW k \in AllKinds
      PROVE  Typed(RoleCalls(k)) /\ Typed(PairCalls(k)) /\ Typed(DirectCalls(k))
  BY <1>2 DEF RoleCalls, PairCalls, DirectCalls, Call, CallType
<1>4. AllKinds = {"createRole", "deleteRole", "createPermission", "givePermissionToRole",
                  "revokePermissionFromRole", "giveSubjectPermission",
                  "revokeSubjectPermission", "syncRolePermissions", "assignRole",
                  "removeRole", "setSubjectRoles", "removeSubject"}
  BY DEF AllKinds, TxKinds, FindOnlyKinds
<1>5. Typed(CreatePermissionCalls) /\ Typed(RemoveSubjectCalls)
  BY <1>2, <1>4 DEF CreatePermissionCalls, RemoveSubjectCalls, Call, CallType
<1>6. Typed(SyncCalls)
  BY <1>2, <1>4 DEF SyncCalls, Call, CallType
<1>7. Typed(AssignCalls)
  BY <1>4 DEF AssignCalls, Call, CallType
<1>8. Typed(RemoveCalls)
  BY <1>4 DEF RemoveCalls, Call, CallType
<1>9. Typed(SetCalls)
  BY <1>4 DEF SetCalls, Call, CallType
<1>10. /\ Typed(RoleCalls("createRole")) /\ Typed(RoleCalls("deleteRole"))
       /\ Typed(PairCalls("givePermissionToRole"))
       /\ Typed(PairCalls("revokePermissionFromRole"))
       /\ Typed(DirectCalls("giveSubjectPermission"))
       /\ Typed(DirectCalls("revokeSubjectPermission"))
  BY <1>3, <1>4
<1> QED
  BY <1>5, <1>6, <1>7, <1>8, <1>9, <1>10 DEF Calls, AllCalls

(* The calls about a subject name one. *)
LEMMA CallSubjects ==
  \A c \in Calls :
    c.kind \in {"assignRole", "removeRole", "setSubjectRoles", "removeSubject",
                "giveSubjectPermission", "revokeSubjectPermission"} => c.subj \in Subject
<1> DEFINE Kind == {"assignRole", "removeRole", "setSubjectRoles", "removeSubject",
                    "giveSubjectPermission", "revokeSubjectPermission"}
           About(S) == \A c \in S : c.kind \in Kind => c.subj \in Subject
<1>1. ASSUME NEW k, k \notin Kind
      PROVE  About(RoleCalls(k)) /\ About(PairCalls(k))
  BY <1>1 DEF RoleCalls, PairCalls, Call
<1>2. \A k : About(DirectCalls(k))
  BY DEF DirectCalls, Call
<1>3. About(CreatePermissionCalls) /\ About(SyncCalls)
  BY DEF CreatePermissionCalls, SyncCalls, Call
<1>4. About(AssignCalls) /\ About(RemoveSubjectCalls)
  BY DEF AssignCalls, RemoveSubjectCalls, Call
<1>5. About(RemoveCalls)
  BY DEF RemoveCalls, Call
<1>6. About(SetCalls)
  BY DEF SetCalls, Call
<1>7. /\ About(RoleCalls("createRole")) /\ About(RoleCalls("deleteRole"))
      /\ About(PairCalls("givePermissionToRole"))
      /\ About(PairCalls("revokePermissionFromRole"))
  BY <1>1
<1> QED
  BY <1>2, <1>3, <1>4, <1>5, <1>6, <1>7 DEF Calls, AllCalls

(* How many names the calls of each kind name. *)
One(S) == S # {} /\ \A x, y \in S : x = y

LEMMA CallShapes ==
  ASSUME NEW c \in Calls
  PROVE  /\ c.kind \in AllKinds
         /\ c.kind \in {"createRole", "deleteRole", "givePermissionToRole", "assignRole",
                        "revokePermissionFromRole", "syncRolePermissions", "removeRole"}
              => One(c.roles)
         /\ c.kind \in {"givePermissionToRole", "revokePermissionFromRole",
                        "giveSubjectPermission", "revokeSubjectPermission",
                        "createPermission"} => One(c.perms)
         /\ c.kind \in {"assignRole", "setSubjectRoles", "removeRole", "deleteRole",
                        "removeSubject", "createRole"} => c.perms = {}
         /\ c.kind \in {"giveSubjectPermission", "revokeSubjectPermission", "removeSubject",
                        "createPermission"} => c.roles = {}
<1> DEFINE Shape(x) ==
             /\ x.kind \in AllKinds
             /\ x.kind \in {"createRole", "deleteRole", "givePermissionToRole", "assignRole",
                            "revokePermissionFromRole", "syncRolePermissions", "removeRole"}
                  => One(x.roles)
             /\ x.kind \in {"givePermissionToRole", "revokePermissionFromRole",
                            "giveSubjectPermission", "revokeSubjectPermission",
                            "createPermission"} => One(x.perms)
             /\ x.kind \in {"assignRole", "setSubjectRoles", "removeRole", "deleteRole",
                            "removeSubject", "createRole"} => x.perms = {}
             /\ x.kind \in {"giveSubjectPermission", "revokeSubjectPermission", "removeSubject",
                            "createPermission"} => x.roles = {}
           Shaped(S) == \A x \in S : Shape(x)
<1>1. AllKinds = {"createRole", "deleteRole", "createPermission", "givePermissionToRole",
                  "revokePermissionFromRole", "giveSubjectPermission",
                  "revokeSubjectPermission", "syncRolePermissions", "assignRole",
                  "removeRole", "setSubjectRoles", "removeSubject"}
  BY DEF AllKinds, TxKinds, FindOnlyKinds
<1>2. Shaped(RoleCalls("createRole")) /\ Shaped(RoleCalls("deleteRole"))
  BY <1>1 DEF RoleCalls, Call, One
<1>3. /\ Shaped(PairCalls("givePermissionToRole"))
      /\ Shaped(PairCalls("revokePermissionFromRole"))
  BY <1>1 DEF PairCalls, Call, One
<1>4. /\ Shaped(DirectCalls("giveSubjectPermission"))
      /\ Shaped(DirectCalls("revokeSubjectPermission"))
  BY <1>1 DEF DirectCalls, Call, One
<1>5. Shaped(CreatePermissionCalls) /\ Shaped(RemoveSubjectCalls)
  BY <1>1 DEF CreatePermissionCalls, RemoveSubjectCalls, Call, One
<1>6. Shaped(SyncCalls)
  BY <1>1 DEF SyncCalls, Call, One
<1>7. Shaped(AssignCalls)
  BY <1>1 DEF AssignCalls, Call, One
<1>8. Shaped(RemoveCalls)
  BY <1>1 DEF RemoveCalls, Call, One
<1>9. Shaped(SetCalls)
  BY <1>1 DEF SetCalls, Call
<1> HIDE DEF Shape
<1>10. Shape(c)
  BY <1>2, <1>3, <1>4, <1>5, <1>6, <1>7, <1>8, <1>9 DEF Calls, AllCalls
<1> QED
  BY <1>10 DEF Shape

(* The pivot rows a call adds are rows of the schema once its names have ids. *)
LEMMA RowsToAddTyped ==
  ASSUME NEW c \in Calls, NEW R \in SUBSET Id, NEW P \in SUBSET Id
  PROVE  RowsToAdd(c, R, P) \subseteq Row
<1>1. c.sources \subseteq Source /\ c.tenant \in Tenant
  BY CallsTyped DEF CallType
<1>2. CASE c.kind \in {"givePermissionToRole", "syncRolePermissions"}
  BY <1>2 DEF RowsToAdd, Granted, Row, GrantRow
<1>3. CASE c.kind \in {"assignRole", "setSubjectRoles"}
  BY <1>1, <1>3, CallSubjects DEF RowsToAdd, Assigned, Row, AssignRow
<1>4. CASE c.kind = "giveSubjectPermission"
  BY <1>4, CallSubjects DEF RowsToAdd, Direct, Row, DirectRow
<1>5. CASE c.kind \notin {"givePermissionToRole", "syncRolePermissions", "assignRole",
                         "setSubjectRoles", "giveSubjectPermission"}
  BY <1>5 DEF RowsToAdd
<1> QED
  BY <1>2, <1>3, <1>4, <1>5

-----------------------------------------------------------------------------
(* The reads. *)

(* Where every reference exists, the reads agree: the permissions query,    *)
(* which joins the pivots on the role id and never opens the roles table,   *)
(* counts no assignment the roles query does not.                           *)
LEMMA BackedByRefs ==
  ASSUME NEW D, \A r \in D : RefsExist(r, D)
  PROVE  AllBacked(D)
<1> SUFFICES ASSUME NEW u \in Subject, NEW t \in Tenant,
                    NEW p \in PermissionsForSubject(D, u, t),
                    p \notin DirectPermissions(D, u)
             PROVE  \E n \in RolesForSubject(D, u, t) : p \in RolePermissions(D, n)
  BY DEF AllBacked
<1>1. PICK a \in AssignedTo(D, u, t), i \in Ids(D, {p}) : Granted(a.role, i) \in D
  BY DEF PermissionsForSubject, DirectPermissions
<1>2. a \in D /\ a.tab = "assign" /\ a.role \in Ids(D, Role)
  BY DEF AssignedTo, RefsExist
<1>3. PICK n \in Role : a.role \in Ids(D, {n})
  BY <1>2 DEF Ids
<1>4. n \in RolesForSubject(D, u, t) /\ p \in RolePermissions(D, n)
  BY <1>1, <1>3 DEF RolesForSubject, RolePermissions, PermissionsForSubject
<1> QED
  BY <1>4

-----------------------------------------------------------------------------
(* The tables at the level of names, one name, grant, membership or direct  *)
(* permission at a time.                                                    *)

(* A row gives a role or permission its id. *)
IsId(D, n, i) == Named(i, n) \in D

LEMMA RowFields ==
  ASSUME NEW i, NEW j, NEW n, NEW u, NEW t, NEW s
  PROVE  /\ Named(i, n).tab = "name" /\ Named(i, n).id = i /\ Named(i, n).name = n
         /\ Granted(i, j).tab = "grant" /\ Granted(i, j).role = i /\ Granted(i, j).perm = j
         /\ Assigned(u, i, t, s).tab = "assign" /\ Assigned(u, i, t, s).subj = u
         /\ Assigned(u, i, t, s).role = i /\ Assigned(u, i, t, s).tenant = t
         /\ Assigned(u, i, t, s).source = s
         /\ Direct(u, j).tab = "direct" /\ Direct(u, j).subj = u /\ Direct(u, j).perm = j
BY DEF Named, Granted, Assigned, Direct

(* A row of the schema is made of its fields. *)
LEMMA RowShapes ==
  ASSUME NEW r \in Row
  PROVE  /\ r.tab = "name" => r = Named(r.id, r.name) /\ r.id \in Id /\ r.name \in Name
         /\ r.tab = "grant" => r = Granted(r.role, r.perm) /\ r.role \in Id /\ r.perm \in Id
         /\ r.tab = "assign" => /\ r = Assigned(r.subj, r.role, r.tenant, r.source)
                                /\ r.role \in Id
         /\ r.tab = "direct" => r = Direct(r.subj, r.perm) /\ r.perm \in Id
         /\ r.tab \in {"name", "grant", "assign", "direct"}
BY DEF Row, NameRow, GrantRow, AssignRow, DirectRow, Named, Granted, Assigned, Direct

LEMMA IdsAre ==
  ASSUME NEW D \in SUBSET Row, NEW N
  PROVE  \A i : i \in Ids(D, N) <=> \E n \in N : IsId(D, n, i)
<1>1. ASSUME NEW i \in Ids(D, N) PROVE \E n \in N : IsId(D, n, i)
  <2> PICK r \in D : r.tab = "name" /\ r.name \in N /\ r.id = i
    BY DEF Ids
  <2> QED
    BY RowShapes DEF IsId
<1>2. ASSUME NEW i, NEW n \in N, IsId(D, n, i) PROVE i \in Ids(D, N)
  BY <1>2, RowFields DEF Ids, IsId
<1> QED
  BY <1>1, <1>2

LEMMA IdsOfOne ==
  ASSUME NEW D \in SUBSET Row, NEW n
  PROVE  \A i : i \in Ids(D, {n}) <=> IsId(D, n, i)
<1> DEFINE N == {n}
<1>1. \A i : i \in Ids(D, N) <=> \E m \in N : IsId(D, m, i)
  <2> HIDE DEF N
  <2> QED
    BY IdsAre
<1> QED
  BY <1>1

LEMMA NamesAre ==
  ASSUME NEW D \in SUBSET Row, NEW N
  PROVE  \A n : n \in NamesIn(D, N) <=> n \in N /\ \E i : IsId(D, n, i)
<1>1. \A n : (\E i : i \in Ids(D, {n})) <=> \E i : IsId(D, n, i)
  BY IdsOfOne
<1> QED
  BY <1>1 DEF NamesIn

LEMMA GrantsAre ==
  ASSUME NEW D \in SUBSET Row
  PROVE  \A n \in Role, q \in Perm :
           <<n, q>> \in Grants(D) <=>
             \E i, j : IsId(D, n, i) /\ IsId(D, q, j) /\ Granted(i, j) \in D
<1> SUFFICES ASSUME NEW n \in Role, NEW q \in Perm
             PROVE  <<n, q>> \in Grants(D) <=>
                      \E i, j : IsId(D, n, i) /\ IsId(D, q, j) /\ Granted(i, j) \in D
  OBVIOUS
<1>1. <<n, q>> \in Grants(D) <=> q \in RolePermissions(D, n)
  BY DEF Grants
<1>2. q \in RolePermissions(D, n) <=>
        \E i \in Ids(D, {n}), j \in Ids(D, {q}) : Granted(i, j) \in D
  BY DEF RolePermissions
<1>3. /\ \A i : i \in Ids(D, {n}) <=> IsId(D, n, i)
      /\ \A j : j \in Ids(D, {q}) <=> IsId(D, q, j)
  BY IdsOfOne
<1> QED
  BY <1>1, <1>2, <1>3

Member == [subj : Subject, role : Role, tenant : Tenant, source : Source]

LEMMA MembersAre ==
  ASSUME NEW D \in SUBSET Row
  PROVE  /\ Memberships(D) \subseteq Member
         /\ \A m \in Member :
              m \in Memberships(D) <=>
                \E i : IsId(D, m.role, i) /\ Assigned(m.subj, i, m.tenant, m.source) \in D
<1>1. \A m \in Member : \A i : i \in Ids(D, {m.role}) <=> IsId(D, m.role, i)
  BY IdsOfOne
<1> QED
  BY <1>1 DEF Memberships, Member

LEMMA DirectsAre ==
  ASSUME NEW D \in SUBSET Row
  PROVE  \A u \in Subject, q \in Perm :
           <<u, q>> \in Directs(D) <=> \E j : IsId(D, q, j) /\ Direct(u, j) \in D
<1> SUFFICES ASSUME NEW u \in Subject, NEW q \in Perm
             PROVE  <<u, q>> \in Directs(D) <=> \E j : IsId(D, q, j) /\ Direct(u, j) \in D
  OBVIOUS
<1>1. <<u, q>> \in Directs(D) <=> q \in DirectPermissions(D, u)
  BY DEF Directs
<1>2. q \in DirectPermissions(D, u) <=> \E j \in Ids(D, {q}) : Direct(u, j) \in D
  BY DEF DirectPermissions
<1>3. \A j : j \in Ids(D, {q}) <=> IsId(D, q, j)
  BY IdsOfOne
<1> QED
  BY <1>1, <1>2, <1>3

(* Sets of grants, and of direct permissions, are equal when they agree on  *)
(* every pair.                                                              *)
LEMMA SameGrants ==
  ASSUME NEW S \in SUBSET (Role \X Perm), NEW T \in SUBSET (Role \X Perm),
         \A n \in Role, q \in Perm : <<n, q>> \in S <=> <<n, q>> \in T
  PROVE  S = T
<1>1. \A g \in Role \X Perm : \E n \in Role, q \in Perm : g = <<n, q>>
  OBVIOUS
<1> QED
  BY <1>1

LEMMA SameDirects ==
  ASSUME NEW S \in SUBSET (Subject \X Perm), NEW T \in SUBSET (Subject \X Perm),
         \A u \in Subject, q \in Perm : <<u, q>> \in S <=> <<u, q>> \in T
  PROVE  S = T
<1>1. \A g \in Subject \X Perm : \E u \in Subject, q \in Perm : g = <<u, q>>
  OBVIOUS
<1> QED
  BY <1>1

-----------------------------------------------------------------------------
(* What a change of the tables does to what they say: a grant, a membership *)
(* or a direct permission appears with its row, and disappears with its row *)
(* or with one of its names.                                                *)

(* No row refers to i. *)
Unseen(D, i) == /\ \A j : Granted(i, j) \notin D /\ Granted(j, i) \notin D
                /\ \A u, t, s : Assigned(u, i, t, s) \notin D
                /\ \A u : Direct(u, i) \notin D

(* The names that E has and D has not are new to the rows of D. *)
Births(D, E) == \A n, i : IsId(E, n, i) /\ ~IsId(D, n, i) => Unseen(D, i)

LEMMA GrantChanges ==
  ASSUME NEW D \in SUBSET Row, NEW E \in SUBSET Row, Births(D, E)
  PROVE  /\ \A g \in Grants(E) \ Grants(D) :
              /\ g[1] \in Role /\ g[2] \in Perm /\ g = <<g[1], g[2]>>
              /\ \E i, j : /\ IsId(E, g[1], i) /\ IsId(E, g[2], j)
                           /\ Granted(i, j) \in E \ D
         /\ \A g \in Grants(D) \ Grants(E) :
              /\ g[1] \in Role /\ g[2] \in Perm /\ g = <<g[1], g[2]>>
              /\ \E i, j : /\ IsId(D, g[1], i) /\ IsId(D, g[2], j) /\ Granted(i, j) \in D
                           /\ ~(Granted(i, j) \in E /\ IsId(E, g[1], i) /\ IsId(E, g[2], j))
<1>1. \A g \in Grants(D) \cup Grants(E) :
        g[1] \in Role /\ g[2] \in Perm /\ g = <<g[1], g[2]>>
  BY DEF Grants
<1>2. \A n \in Role, q \in Perm :
        /\ <<n, q>> \in Grants(D) <=>
             \E i, j : IsId(D, n, i) /\ IsId(D, q, j) /\ Granted(i, j) \in D
        /\ <<n, q>> \in Grants(E) <=>
             \E i, j : IsId(E, n, i) /\ IsId(E, q, j) /\ Granted(i, j) \in E
  BY GrantsAre
<1>3. ASSUME NEW n \in Role, NEW q \in Perm, <<n, q>> \in Grants(E) \ Grants(D)
      PROVE  \E i, j : IsId(E, n, i) /\ IsId(E, q, j) /\ Granted(i, j) \in E \ D
  <2>1. PICK i, j : IsId(E, n, i) /\ IsId(E, q, j) /\ Granted(i, j) \in E
    BY <1>2, <1>3
  <2>2. Granted(i, j) \notin D
    BY <1>2, <1>3, <2>1 DEF Births, Unseen
  <2> QED
    BY <2>1, <2>2
<1>4. ASSUME NEW n \in Role, NEW q \in Perm, <<n, q>> \in Grants(D) \ Grants(E)
      PROVE  \E i, j : /\ IsId(D, n, i) /\ IsId(D, q, j) /\ Granted(i, j) \in D
                       /\ ~(Granted(i, j) \in E /\ IsId(E, n, i) /\ IsId(E, q, j))
  BY <1>2, <1>4
<1>5. ASSUME NEW g \in Grants(E) \ Grants(D)
      PROVE  \E i, j : IsId(E, g[1], i) /\ IsId(E, g[2], j) /\ Granted(i, j) \in E \ D
  BY <1>1, <1>3
<1>6. ASSUME NEW g \in Grants(D) \ Grants(E)
      PROVE  \E i, j : /\ IsId(D, g[1], i) /\ IsId(D, g[2], j) /\ Granted(i, j) \in D
                       /\ ~(Granted(i, j) \in E /\ IsId(E, g[1], i) /\ IsId(E, g[2], j))
  BY <1>1, <1>4
<1> QED
  BY <1>1, <1>5, <1>6

LEMMA MemberChanges ==
  ASSUME NEW D \in SUBSET Row, NEW E \in SUBSET Row, Births(D, E)
  PROVE  /\ \A m \in Memberships(E) \ Memberships(D) :
              m \in Member /\ \E i : /\ IsId(E, m.role, i)
                                     /\ Assigned(m.subj, i, m.tenant, m.source) \in E \ D
         /\ \A m \in Memberships(D) \ Memberships(E) :
              m \in Member /\ \E i : /\ IsId(D, m.role, i)
                                     /\ Assigned(m.subj, i, m.tenant, m.source) \in D
                                     /\ ~(/\ Assigned(m.subj, i, m.tenant, m.source) \in E
                                          /\ IsId(E, m.role, i))
<1>1. /\ Memberships(D) \subseteq Member /\ Memberships(E) \subseteq Member
      /\ \A m \in Member : m \in Memberships(D) <=>
           \E i : IsId(D, m.role, i) /\ Assigned(m.subj, i, m.tenant, m.source) \in D
      /\ \A m \in Member : m \in Memberships(E) <=>
           \E i : IsId(E, m.role, i) /\ Assigned(m.subj, i, m.tenant, m.source) \in E
  BY MembersAre
<1>2. ASSUME NEW m \in Memberships(E) \ Memberships(D)
      PROVE  \E i : IsId(E, m.role, i) /\ Assigned(m.subj, i, m.tenant, m.source) \in E \ D
  <2>1. PICK i : IsId(E, m.role, i) /\ Assigned(m.subj, i, m.tenant, m.source) \in E
    BY <1>1
  <2>2. Assigned(m.subj, i, m.tenant, m.source) \notin D
    BY <1>1, <2>1 DEF Births, Unseen
  <2> QED
    BY <2>1, <2>2
<1>3. ASSUME NEW m \in Memberships(D) \ Memberships(E)
      PROVE  \E i : /\ IsId(D, m.role, i) /\ Assigned(m.subj, i, m.tenant, m.source) \in D
                    /\ ~(/\ Assigned(m.subj, i, m.tenant, m.source) \in E
                         /\ IsId(E, m.role, i))
  BY <1>1
<1> QED
  BY <1>1, <1>2, <1>3

LEMMA DirectChanges ==
  ASSUME NEW D \in SUBSET Row, NEW E \in SUBSET Row, Births(D, E)
  PROVE  /\ \A d \in Directs(E) \ Directs(D) :
              /\ d[1] \in Subject /\ d[2] \in Perm /\ d = <<d[1], d[2]>>
              /\ \E j : IsId(E, d[2], j) /\ Direct(d[1], j) \in E \ D
         /\ \A d \in Directs(D) \ Directs(E) :
              /\ d[1] \in Subject /\ d[2] \in Perm /\ d = <<d[1], d[2]>>
              /\ \E j : /\ IsId(D, d[2], j) /\ Direct(d[1], j) \in D
                        /\ ~(Direct(d[1], j) \in E /\ IsId(E, d[2], j))
<1>1. \A d \in Directs(D) \cup Directs(E) :
        d[1] \in Subject /\ d[2] \in Perm /\ d = <<d[1], d[2]>>
  BY DEF Directs
<1>2. \A u \in Subject, q \in Perm :
        /\ <<u, q>> \in Directs(D) <=> \E j : IsId(D, q, j) /\ Direct(u, j) \in D
        /\ <<u, q>> \in Directs(E) <=> \E j : IsId(E, q, j) /\ Direct(u, j) \in E
  BY DirectsAre
<1>3. ASSUME NEW u \in Subject, NEW q \in Perm, <<u, q>> \in Directs(E) \ Directs(D)
      PROVE  \E j : IsId(E, q, j) /\ Direct(u, j) \in E \ D
  <2>1. PICK j : IsId(E, q, j) /\ Direct(u, j) \in E
    BY <1>2, <1>3
  <2>2. Direct(u, j) \notin D
    BY <1>2, <1>3, <2>1 DEF Births, Unseen
  <2> QED
    BY <2>1, <2>2
<1>4. ASSUME NEW u \in Subject, NEW q \in Perm, <<u, q>> \in Directs(D) \ Directs(E)
      PROVE  \E j : /\ IsId(D, q, j) /\ Direct(u, j) \in D
                    /\ ~(Direct(u, j) \in E /\ IsId(E, q, j))
  BY <1>2, <1>4
<1>5. ASSUME NEW d \in Directs(E) \ Directs(D)
      PROVE  \E j : IsId(E, d[2], j) /\ Direct(d[1], j) \in E \ D
  BY <1>1, <1>3
<1>6. ASSUME NEW d \in Directs(D) \ Directs(E)
      PROVE  \E j : /\ IsId(D, d[2], j) /\ Direct(d[1], j) \in D
                    /\ ~(Direct(d[1], j) \in E /\ IsId(E, d[2], j))
  BY <1>1, <1>4
<1> QED
  BY <1>1, <1>5, <1>6

(* The same rows give the same names. *)
LEMMA SameNames ==
  ASSUME NEW D \in SUBSET Row, NEW E \in SUBSET Row, NEW N,
         \A n, i : IsId(D, n, i) <=> IsId(E, n, i)
  PROVE  NamesIn(E, N) = NamesIn(D, N)
<1>1. \A n : n \in NamesIn(D, N) <=> n \in N /\ \E i : IsId(D, n, i)
  BY NamesAre
<1>2. \A n : n \in NamesIn(E, N) <=> n \in N /\ \E i : IsId(E, n, i)
  BY NamesAre
<1> QED
  BY <1>1, <1>2

(* What keeps its rows, while no name goes, stays. *)
LEMMA SameRows ==
  ASSUME NEW D \in SUBSET Row, NEW E \in SUBSET Row, Births(D, E),
         \A n, i : IsId(D, n, i) => IsId(E, n, i)
  PROVE  /\ (\A i, j : Granted(i, j) \in D <=> Granted(i, j) \in E) => Grants(E) = Grants(D)
         /\ (\A u, i, t, s : Assigned(u, i, t, s) \in D <=> Assigned(u, i, t, s) \in E)
              => Memberships(E) = Memberships(D)
         /\ (\A u, j : Direct(u, j) \in D <=> Direct(u, j) \in E) => Directs(E) = Directs(D)
<1>1. ASSUME \A i, j : Granted(i, j) \in D <=> Granted(i, j) \in E
      PROVE  Grants(E) = Grants(D)
  <2>1. \A g \in Grants(E) \ Grants(D) : FALSE
    BY <1>1, GrantChanges
  <2>2. \A g \in Grants(D) \ Grants(E) : FALSE
    BY <1>1, GrantChanges
  <2> QED
    BY <2>1, <2>2
<1>2. ASSUME \A u, i, t, s : Assigned(u, i, t, s) \in D <=> Assigned(u, i, t, s) \in E
      PROVE  Memberships(E) = Memberships(D)
  <2>1. \A m \in Memberships(E) \ Memberships(D) : FALSE
    BY <1>2, MemberChanges
  <2>2. \A m \in Memberships(D) \ Memberships(E) : FALSE
    BY <1>2, MemberChanges
  <2> QED
    BY <2>1, <2>2
<1>3. ASSUME \A u, j : Direct(u, j) \in D <=> Direct(u, j) \in E
      PROVE  Directs(E) = Directs(D)
  <2>1. \A d \in Directs(E) \ Directs(D) : FALSE
    BY <1>3, DirectChanges
  <2>2. \A d \in Directs(D) \ Directs(E) : FALSE
    BY <1>3, DirectChanges
  <2> QED
    BY <2>1, <2>2
<1> QED
  BY <1>1, <1>2, <1>3

(* A name given an id no row refers to brings nothing with it. *)
LEMMA NameAdded ==
  ASSUME NEW D \in SUBSET Row, NEW i \in Id, NEW n \in Name, Unseen(D, i)
  PROVE  LET E == D \cup {Named(i, n)} IN
         /\ \A N : NamesIn(E, N) = NamesIn(D, N) \cup ({n} \cap N)
         /\ Grants(E) = Grants(D) /\ Memberships(E) = Memberships(D) /\ Directs(E) = Directs(D)
<1> DEFINE E == D \cup {Named(i, n)}
<1>1. E \in SUBSET Row
  BY DEF Named, Row, NameRow
<1>2. \A m, j : IsId(E, m, j) <=> IsId(D, m, j) \/ (m = n /\ j = i)
  BY RowFields DEF IsId
<1>3. /\ \A a, j : Granted(a, j) \in D <=> Granted(a, j) \in E
      /\ \A u, a, t, s : Assigned(u, a, t, s) \in D <=> Assigned(u, a, t, s) \in E
      /\ \A u, j : Direct(u, j) \in D <=> Direct(u, j) \in E
  BY DEF Granted, Assigned, Direct, Named
<1>4. Births(D, E)
  BY <1>2 DEF Births
<1> HIDE DEF E
<1>5. Grants(E) = Grants(D) /\ Memberships(E) = Memberships(D) /\ Directs(E) = Directs(D)
  BY <1>1, <1>2, <1>3, <1>4, SameRows
<1>6. ASSUME NEW N PROVE NamesIn(E, N) = NamesIn(D, N) \cup ({n} \cap N)
  <2>1. \A m : m \in NamesIn(D, N) <=> m \in N /\ \E j : IsId(D, m, j)
    BY NamesAre
  <2>2. \A m : m \in NamesIn(E, N) <=> m \in N /\ \E j : IsId(E, m, j)
    BY <1>1, NamesAre
  <2> QED
    BY <1>2, <2>1, <2>2
<1> QED
  BY <1>5, <1>6 DEF E
=============================================================================
