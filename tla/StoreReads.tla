----------------------------- MODULE StoreReads -----------------------------
(***************************************************************************)
(* The listing and counting reads of the two stores, and what a host model *)
(* that declares authzRolesRelation() preloads, over the rows of RbacTables*)
(* D.  A subject is [type, id]: subjects of two types may share an id.     *)
(* RbacTables has the reads that AuthzService decides on.                  *)
(***************************************************************************)
EXTENDS RbacTables, FiniteSets, Listing

Assignments(D) == {a \in D : a.tab = "assign"}

-----------------------------------------------------------------------------
(* LucidPermissionStore *)

(* SELECT DISTINCT: the joined rows, reduced to the columns asked for. *)
HoldersOf(D, n, asked) ==
  {a \in Assignments(D) : a.role \in Ids(D, {n}) /\ Visible(a.tenant, asked)}

SubjectsForRole(D, n, asked) == {a.subj : a \in HoldersOf(D, n, asked)}

(* Mutant: COUNT(DISTINCT subject_id). *)
CountSubjectsForRoleById(D, n, asked) == Cardinality({a.subj.id : a \in HoldersOf(D, n, asked)})

CountSubjectsForRole(D, n, asked) == Cardinality({a.subj : a \in HoldersOf(D, n, asked)})

(* A LEFT JOIN from the roles: one that nobody holds counts 0. *)
CountSubjectsByRole(D, asked) ==
  [n \in NamesIn(D, Role) |->
     Cardinality({a.subj : a \in {x \in Assignments(D) : x.role \in Ids(D, {n})
                                                      /\ Visible(x.tenant, asked)}})]

SubjectHasPermission(D, u, p, asked) ==
  \/ \E a \in AssignedTo(D, u, asked), i \in Ids(D, {p}) : Granted(a.role, i) \in D
  \/ \E i \in Ids(D, {p}) : Direct(u, i) \in D

RoleAssignments(D, u, asked) ==
  {w \in [role : Role, source : Source, tenant : Tenant] :
     \E a \in AssignedTo(D, u, asked) :
       a.role \in Ids(D, {w.role}) /\ a.source = w.source /\ a.tenant = w.tenant}

(* filter: sets of the roles, tenants, subjects and sources wanted. *)
ListRoleAssignments(D, filter) ==
  {w \in [subj : filter.subjects, role : filter.roles, source : filter.sources,
          tenant : filter.tenants] :
     \E a \in Assignments(D) :
       /\ a.role \in Ids(D, {w.role}) /\ a.tenant = w.tenant
       /\ a.subj = w.subj /\ a.source = w.source}

(* Asked role by role of the names that exist; the others are left out. *)
PermissionsForRoles(D, names) ==
  [n \in NamesIn(D, names) |->
     {p \in Perm : \E i \in Ids(D, {n}), j \in Ids(D, {p}) : Granted(i, j) \in D}]

-----------------------------------------------------------------------------
(* MemoryPermissionStore.  Its maps go from a name to its id; its           *)
(* assignments are a list.                                                  *)

IdToNames(D, i) == {n \in Name : i \in Ids(D, {n})}

(* The places in the list of the assignments by which n is held. *)
HeldAt(D, list, n, asked) ==
  {i \in DOMAIN list : list[i].role \in Ids(D, {n}) /\ Visible(list[i].tenant, asked)}

(* Mutant: a member is listed for each of its assignments. *)
MemorySubjectsForRoleEach(D, list, n, asked) ==
  Kept([i \in DOMAIN list |-> list[i].subj], HeldAt(D, list, n, asked))

(* The members in the order of the list, each once. *)
MemorySubjectsForRole(D, list, n, asked) ==
  LET subjects == [i \in DOMAIN list |-> list[i].subj]
  IN  Kept(subjects, Firsts(subjects, HeldAt(D, list, n, asked)))

MemoryCountSubjectsForRole(D, list, n, asked) == Len(MemorySubjectsForRole(D, list, n, asked))

(* The code awaits once per role, so that other calls may run between two    *)
(* roles; here, and in MemoryPermissionsForRoles, none writes meanwhile.     *)
MemoryCountSubjectsByRole(D, list, asked) ==
  [n \in NamesIn(D, Role) |-> Len(MemorySubjectsForRole(D, list, n, asked))]

MemoryRolesForSubject(D, list, u, asked) ==
  UNION {IdToNames(D, a.role) :
           a \in {x \in {list[i] : i \in DOMAIN list} : x.subj = u /\ Visible(x.tenant, asked)}}

MemoryPermissionsForSubject(D, list, u, asked) ==
  LET ids == {a.role : a \in {x \in {list[i] : i \in DOMAIN list} :
                                x.subj = u /\ Visible(x.tenant, asked)}}
  IN  (UNION {IdToNames(D, g.perm) : g \in {x \in D : x.tab = "grant" /\ x.role \in ids}})
        \cup UNION {IdToNames(D, d.perm) : d \in {x \in D : x.tab = "direct" /\ x.subj = u}}

MemoryRoleAssignments(D, list, u, asked) ==
  UNION {{[role |-> n, source |-> a.source, tenant |-> a.tenant] :
            n \in IdToNames(D, a.role) \cap Role} :
           a \in {x \in {list[i] : i \in DOMAIN list} : x.subj = u /\ Visible(x.tenant, asked)}}

MemoryListRoleAssignments(D, list, filter) ==
  LET wanted(a) == /\ a.tenant \in filter.tenants /\ a.subj \in filter.subjects
                   /\ a.source \in filter.sources
  IN  UNION {{[subj |-> a.subj, role |-> n, source |-> a.source, tenant |-> a.tenant] :
                n \in IdToNames(D, a.role) \cap filter.roles} :
               a \in {x \in {list[i] : i \in DOMAIN list} : wanted(x)}}

(* Awaits once per role, like MemoryCountSubjectsByRole. *)
MemoryPermissionsForRoles(D, names) ==
  [n \in {m \in names : Ids(D, {m}) # {}} |-> RolePermissions(D, n)]

-----------------------------------------------------------------------------
(* authzRolesRelation(): Lucid joins the pivot to the roles, one row for    *)
(* each pivot row, and hands the rows out to the models by their keys.      *)

(* joined: the pivot rows of one model class, subjects of the type `type`.  *)
RelationRows(D, type, asked, sources) ==
  {a \in Assignments(D) : /\ a.subj.type = type
                          /\ a.tenant \in IF asked = Global THEN {Global} ELSE {Global, asked}
                          /\ a.source \in sources
                          /\ a.role \in Ids(D, Role)}

(* The places P of the rows, but one for each role. *)
DistinctByKey(rows, P) == Firsts([i \in DOMAIN rows |-> rows[i].role], P)

(* A key as the database or the model has it: the same digits, as text or as*)
(* a number, are two different values; Text is String(key).                 *)
KeyAs(type, id) == [type |-> type, digits |-> id]
Text(key) == key.digits

(* Mutant: Lucid's own hand-out, by strict equality. *)
SameModelStrict(pivot, key) == pivot = key

SameModel(pivot, key) == Text(pivot) = Text(key)

(* The role ids preloaded on the model with this key; rows in some order,   *)
(* their subject_id column being of the type `column`.                      *)
PreloadedRoles(rows, column, key) ==
  LET own == {i \in DOMAIN rows : SameModel(KeyAs(column, rows[i].subj.id), key)}
  IN  Kept([i \in DOMAIN rows |-> rows[i].role], DistinctByKey(rows, own))
=============================================================================
