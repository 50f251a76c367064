---------------------------- MODULE MemoryStore -----------------------------
(***************************************************************************)
(* MemoryPermissionStore: the writes of the in-process store.  One thread  *)
(* runs them, so a step is the stretch of a call between two awaits: a     *)
(* call that creates names awaits createRole or createPermission for each  *)
(* of them and then changes its maps and arrays in one last stretch.  The  *)
(* await of a settled promise puts the rest of the call at the end of the  *)
(* microtask queue, behind the calls already there.                        *)
(*                                                                         *)
(* Role and permission maps are name rows, the set of grants and the two   *)
(* arrays are pivot rows (RbacTables).                                     *)
(***************************************************************************)
EXTENDS RbacCalls, Sequences

VARIABLES
  db,     \* the rows
  call,   \* call[p]: the call p is in
  want,   \* want[p]: names p has yet to get an id for
  ids,    \* ids[p]: the ids p has been given for names
  queue   \* the callers whose next stretch is queued, first to run first

vars == <<db, call, want, ids, queue>>

Queued(p) == \E k \in DOMAIN queue : queue[k] = p

(* A call just made runs its first stretch at once, in whatever its caller  *)
(* runs in; later ones run from the head of the queue.                      *)
CanRun(p) == /\ call[p] # NoCall
             /\ Queued(p) => Head(queue) = p

Rest(p) == IF Queued(p) THEN Tail(queue) ELSE queue
Await(p) == queue' = Append(Rest(p), p)

(* A fresh UUID is an id no row and no caller mentions. *)
Used == (UNION {IdsIn(r) : r \in db}) \cup {ids[p][n] : p \in Proc, n \in Name}
Fresh == {i \in Id \ Used : \A j \in Id \ Used : i <= j}

(* Mutant: the permission is not created before its id is used. *)
BeginWithoutPerms(p, c) ==
  /\ call[p] = NoCall
  /\ call' = [call EXCEPT ![p] = c]
  /\ want' = [want EXCEPT ![p] = IF c.kind \in FindOnlyKinds THEN {} ELSE c.roles]
  /\ UNCHANGED <<db, ids, queue>>

Begin(p, c) ==
  /\ call[p] = NoCall
  /\ call' = [call EXCEPT ![p] = c]
  /\ want' = [want EXCEPT ![p] = IF c.kind \in FindOnlyKinds THEN {}
                                 ELSE c.roles \cup c.perms]
  /\ UNCHANGED <<db, ids, queue>>

Return(p) ==
  /\ call' = [call EXCEPT ![p] = NoCall]
  /\ want' = [want EXCEPT ![p] = {}]
  /\ ids' = [ids EXCEPT ![p] = [n \in Name |-> NoId]]
  /\ queue' = Rest(p)

(* The id createRole or createPermission answers for a name. *)
CreatedId(n) == IF Ids(db, {n}) # {} THEN Ids(db, {n}) ELSE Fresh

(* createRole or createPermission; the call that awaits it goes on later.   *)
Create(p, n) ==
  /\ CanRun(p)
  /\ n \in NextNames(want[p])
  /\ \E i \in CreatedId(n) :
       /\ db' = db \cup {Named(i, n)}
       /\ IF call[p].kind \in {"createRole", "createPermission"}
            THEN Return(p)
            ELSE /\ ids' = [ids EXCEPT ![p][n] = i]
                 /\ want' = [want EXCEPT ![p] = @ \ {n}]
                 /\ Await(p)
                 /\ UNCHANGED call

(* The ids a call's last stretch uses: those it was given, or those it      *)
(* looks up there.  A lookup that finds nothing leaves nothing to change.   *)
IdsFor(p, N) ==
  IF call[p].kind \in FindOnlyKinds THEN Ids(db, N) ELSE {ids[p][n] : n \in N}

RoleIds(p) == IdsFor(p, call[p].roles)
PermIds(p) == IdsFor(p, call[p].perms)

(* Mutant: an empty list of roles replaces nothing. *)
ReplacesIfAny(p, r) ==
  /\ r.tab = "assign"
  /\ r.subj = call[p].subj /\ r.tenant = call[p].tenant
  /\ r.source \in call[p].sources
  /\ RoleIds(p) # {} /\ r.role \notin RoleIds(p)

(* The assignments setSubjectRoles filters out. *)
Replaces(p, r) ==
  /\ r.tab = "assign"
  /\ r.subj = call[p].subj /\ r.tenant = call[p].tenant
  /\ r.source \in call[p].sources
  /\ r.role \notin RoleIds(p)

Removes(p, r) ==
  /\ r.tab = "assign"
  /\ r.subj = call[p].subj /\ r.tenant = call[p].tenant
  /\ r.source \in call[p].sources
  /\ r.role \in RoleIds(p)

(* deleteRole takes the role with its members' rows and its grants. *)
OfRole(p, r) ==
  \/ r.tab = "name" /\ r.id \in RoleIds(p)
  \/ r.tab \in {"grant", "assign"} /\ r.role \in RoleIds(p)

Doomed(p) ==
  LET c == call[p]
      doomed(r) ==
        CASE c.kind = "revokePermissionFromRole" ->
               r.tab = "grant" /\ r.role \in RoleIds(p) /\ r.perm \in PermIds(p)
          [] c.kind = "syncRolePermissions" -> r.tab = "grant" /\ r.role \in RoleIds(p)
          [] c.kind = "removeRole"      -> Removes(p, r)
          [] c.kind = "setSubjectRoles" -> Replaces(p, r)
          [] c.kind = "deleteRole"      -> OfRole(p, r)
          [] c.kind = "removeSubject"   ->
               r.tab \in {"assign", "direct"} /\ r.subj = c.subj
          [] c.kind = "revokeSubjectPermission" ->
               r.tab = "direct" /\ r.subj = c.subj /\ r.perm \in PermIds(p)
          [] OTHER -> FALSE
  IN {r \in db : doomed(r)}

(* Mutant: an await between the rows that go and the rows that come.        *)
FinishThenAdd(p) ==
  /\ CanRun(p)
  /\ want[p] = {}
  /\ IF Doomed(p) # {}
       THEN /\ db' = db \ Doomed(p)
            /\ Await(p)
            /\ UNCHANGED <<call, want, ids>>
       ELSE /\ db' = db \cup RowsToAdd(call[p], RoleIds(p), PermIds(p))
            /\ Return(p)

(* The last stretch of a call: no await between the rows that go and the    *)
(* rows that come.                                                          *)
Finish(p) ==
  /\ CanRun(p)
  /\ want[p] = {}
  /\ db' = (db \ Doomed(p)) \cup RowsToAdd(call[p], RoleIds(p), PermIds(p))
  /\ Return(p)

Next ==
  \E p \in Proc :
    \/ \E c \in Calls : Begin(p, c)
    \/ \E n \in Name : Create(p, n)
    \/ Finish(p)

Init ==
  /\ db = {}
  /\ call = [p \in Proc |-> NoCall]
  /\ want = [p \in Proc |-> {}]
  /\ ids = [p \in Proc |-> [n \in Name |-> NoId]]
  /\ queue = <<>>

Spec == Init /\ [][Next]_vars

-----------------------------------------------------------------------------
(* Properties. *)

(* Type correctness, and each caller waits at most once in the queue. *)
TypeOK ==
  /\ db \subseteq Row
  /\ call \in [Proc -> CallType]
  /\ want \in [Proc -> SUBSET Name]
  /\ ids \in [Proc -> [Name -> Id \cup {NoId}]]
  /\ queue \in Seq(Proc)
  /\ \A j, k \in DOMAIN queue : queue[j] = queue[k] => j = k

(* The roles a call was given ids for still have them. *)
RolesKept(p) == \A n \in call[p].roles : ids[p][n] # NoId => ids[p][n] \in Ids(db, {n})

(* A call that returns has had its effect, whatever ran between its awaits, *)
(* unless a role it had resolved was deleted there.                         *)
ReturnHasEffect ==
  [][\A p \in Proc :
       call[p] # NoCall /\ call'[p] = NoCall /\ RolesKept(p) => Effect(call[p], db')]_vars

(* The same rows at the level of names: what the contract speaks of. *)
roles   == NamesIn(db, Role)
perms   == NamesIn(db, Perm)
grants  == Grants(db)
members == Memberships(db)
direct  == Directs(db)

(* The roles a call was given ids for that no longer have them. *)
lost == [p \in Proc |->
           {n \in Role : ids[p][n] # NoId /\ ids[p][n] \notin Ids(db, {n})}]

Contract == INSTANCE RbacContract WITH Promise <- "bar deletions", pending <- call

(* The store implements the contract for any overlapping calls: each does   *)
(* the whole of what it is for in one step, exactly, and ends with it; only *)
(* a role of its list that another call has deleted since it was given its  *)
(* id is left out, even if it has been created again under a new one.       *)
ImplementsContract == Contract!Spec
=============================================================================
