----------------------------- MODULE LucidStore -----------------------------
(***************************************************************************)
(* LucidPermissionStore: the writes of the SQL store, one action per SQL   *)
(* statement, issued by concurrent callers against one database.  A call   *)
(* resolves the names it needs (createRole and createPermission are find,  *)
(* insert-or-ignore, find again; other calls only find), then runs its     *)
(* DELETE statements and its INSERT-or-ignore statements.                  *)
(*                                                                         *)
(* The database is modelled from how the store uses it: a statement outside*)
(* a transaction commits by itself, a transaction keeps its inserts and    *)
(* deletes to itself until it commits, a write that meets an uncommitted   *)
(* write of the same key waits, and a read sees what the isolation level   *)
(* shows.  Any call may fail at any statement: a lost connection, a        *)
(* deadlock victim or a crashed process.                                   *)
(***************************************************************************)
EXTENDS RbacCalls

CONSTANTS
  Isolation,       \* "ReadCommitted" or "RepeatableRead"
  HasTransaction,  \* db.transaction is a function
  HostTx           \* hosts run store calls in transactions of their own

ASSUME StoreAssumption ==
  /\ Isolation \in {"ReadCommitted", "RepeatableRead"}
  /\ HasTransaction \in BOOLEAN
  /\ HostTx \in BOOLEAN

VARIABLES
  db,     \* committed rows
  pc,     \* pc[p]: the next statement of caller p
  call,   \* call[p]: the call p is in
  want,   \* want[p]: names p has yet to resolve
  cur,    \* cur[p]: the name p is creating
  ids,    \* ids[p]: the ids p has resolved names to
  todo,   \* todo[p]: pivot rows p has yet to insert
  tx,     \* tx[p]: "none", "own" (opened by the call) or "host"
  ins,    \* ins[p]: rows p's open transaction inserted
  del,    \* del[p]: committed rows p's open transaction deleted
  snap    \* snap[p]: the database when p's transaction began

local == <<pc, call, want, cur, ids, todo>>
txn   == <<tx, ins, del, snap>>
vars  == <<db, local, txn>>

-----------------------------------------------------------------------------
(* The database. *)

(* What p's writes act on: the committed rows under p's own writes. *)
Current(p) == (db \ del[p]) \cup ins[p]

(* What p's SELECTs see. *)
View(p) == IF Isolation = "RepeatableRead" /\ tx[p] # "none"
             THEN (snap[p] \ del[p]) \cup ins[p]
             ELSE Current(p)

(* A row of R has the key of an uncommitted write of another transaction. *)
Blocked(p, R) ==
  \E q \in Proc \ {p} : \E r \in R, x \in ins[q] \cup del[q] : SameKey(r, x)

(* p deletes the rows of drop and inserts those of add, in one statement. *)
Write(p, add, drop) ==
  /\ ~Blocked(p, add \cup drop)
  /\ IF tx[p] = "none"
       THEN db' = (db \ drop) \cup add /\ UNCHANGED <<ins, del>>
       ELSE /\ ins' = [ins EXCEPT ![p] = (@ \ drop) \cup add]
            /\ del' = [del EXCEPT ![p] = (@ \cup (drop \cap db)) \ add]
            /\ UNCHANGED db
  /\ UNCHANGED <<tx, snap>>

(* INSERT ... ON CONFLICT DO NOTHING, or INSERT IGNORE. *)
InsertIgnore(p, r) ==
  /\ ~Blocked(p, {r})
  /\ Write(p, IF \E x \in Current(p) : SameKey(r, x) THEN {} ELSE {r}, {})

(* Mutant: ids are handed out as MAX(id) + 1 over the rows that exist. *)
UsedByNames == {r.id : r \in {x \in db : x.tab = "name"}}
               \cup (UNION {IdsIn(r) : r \in UNION {ins[p] : p \in Proc}})

(* Ids in use: a fresh UUID is none of them. *)
Used == (UNION {IdsIn(r) : r \in db \cup UNION {ins[p] \cup snap[p] \cup todo[p] : p \in Proc}})
        \cup {ids[p][n] : p \in Proc, n \in Name}

Fresh == {i \in Id \ Used : \A j \in Id \ Used : i <= j}

(* Mutant: the transaction's locks outlive it. *)
CloseTxKeepsLocks(p) ==
  /\ tx' = [tx EXCEPT ![p] = "none"]
  /\ UNCHANGED <<ins, del, snap>>

CloseTx(p) ==
  /\ tx' = [tx EXCEPT ![p] = "none"]
  /\ ins' = [ins EXCEPT ![p] = {}]
  /\ del' = [del EXCEPT ![p] = {}]
  /\ snap' = [snap EXCEPT ![p] = {}]

Commit(p) == db' = Current(p) /\ CloseTx(p)
Rollback(p) == UNCHANGED db /\ CloseTx(p)

BeginTx(p, mode) ==
  /\ tx' = [tx EXCEPT ![p] = mode]
  /\ snap' = [snap EXCEPT ![p] = IF Isolation = "RepeatableRead" THEN db ELSE {}]
  /\ UNCHANGED <<db, ins, del>>

-----------------------------------------------------------------------------
(* The calls. *)

Goto(p, l) == pc' = [pc EXCEPT ![p] = l]
AtRest(p) == pc[p] \in {"idle", "failed"}

Start(p, c) ==
  /\ AtRest(p)
  /\ call' = [call EXCEPT ![p] = c]
  /\ want' = [want EXCEPT ![p] = c.roles \cup c.perms]
  /\ Goto(p, "find")
  /\ IF c.kind \in TxKinds /\ HasTransaction /\ tx[p] = "none"
       THEN BeginTx(p, "own")
       ELSE UNCHANGED <<db, txn>>
  /\ UNCHANGED <<cur, ids, todo>>

SetId(p, n, i) == ids' = [ids EXCEPT ![p][n] = i]
Resolve(p, n) == want' = [want EXCEPT ![p] = @ \ {n}]

(* SELECT id ... WHERE name = ? LIMIT 1.  A miss creates the name, except in *)
(* the calls that only look names up.                                       *)
Find(p, n) ==
  /\ pc[p] = "find"
  /\ n \in NextNames(want[p])
  /\ \/ \E i \in Ids(View(p), {n}) :
          /\ SetId(p, n, i)
          /\ Resolve(p, n)
          /\ UNCHANGED <<pc, cur>>
     \/ /\ Ids(View(p), {n}) = {}
        /\ IF call[p].kind \in FindOnlyKinds
             THEN Resolve(p, n) /\ UNCHANGED <<pc, cur>>
             ELSE /\ cur' = [cur EXCEPT ![p] = n]
                  /\ Goto(p, "insertName")
                  /\ UNCHANGED want
        /\ UNCHANGED ids
  /\ UNCHANGED <<db, call, todo, txn>>

InsertName(p) ==
  /\ pc[p] = "insertName"
  /\ \E i \in Fresh : InsertIgnore(p, Named(i, cur[p])) /\ SetId(p, cur[p], i)
  /\ Goto(p, "refind")
  /\ UNCHANGED <<call, want, cur, todo>>

(* Mutant: the second SELECT is dropped, the generated id is returned. *)
RefindKeepsFirstId(p) ==
  /\ pc[p] = "refind"
  /\ Resolve(p, cur[p])
  /\ cur' = [cur EXCEPT ![p] = None]
  /\ Goto(p, "find")
  /\ UNCHANGED <<db, call, ids, todo, txn>>

(* Mutant: the fallback "?? id" is dropped. *)
RefindUndefined(p) ==
  /\ pc[p] = "refind"
  /\ \/ \E i \in Ids(View(p), {cur[p]}) : SetId(p, cur[p], i)
     \/ Ids(View(p), {cur[p]}) = {} /\ SetId(p, cur[p], None)
  /\ Resolve(p, cur[p])
  /\ cur' = [cur EXCEPT ![p] = None]
  /\ Goto(p, "find")
  /\ UNCHANGED <<db, call, todo, txn>>

(* (await this.findRoleId(name)) ?? id : the id of the first insert stays   *)
(* when the second SELECT finds nothing.                                    *)
Refind(p) ==
  /\ pc[p] = "refind"
  /\ \/ \E i \in Ids(View(p), {cur[p]}) : SetId(p, cur[p], i)
     \/ Ids(View(p), {cur[p]}) = {} /\ UNCHANGED ids
  /\ Resolve(p, cur[p])
  /\ cur' = [cur EXCEPT ![p] = None]
  /\ Goto(p, "find")
  /\ UNCHANGED <<db, call, todo, txn>>

RoleIds(p) == {ids[p][n] : n \in call[p].roles}
PermIds(p) == {ids[p][n] : n \in call[p].perms}

Inserts(p) == RowsToAdd(call[p], RoleIds(p), PermIds(p))

(* The table of a call's first DELETE; a call without one goes on to insert. *)
FirstWrite(k) ==
  CASE k \in {"revokePermissionFromRole", "deleteRole", "syncRolePermissions"} -> "grant"
    [] k \in {"removeRole", "setSubjectRoles", "removeSubject"} -> "assign"
    [] k = "revokeSubjectPermission" -> "direct"
    [] OTHER -> "insert"

(* Mutant: deleteRole forgets the assignments. *)
NextWriteSkipsAssignments(k, table) ==
  CASE k = "deleteRole" /\ table = "grant"     -> "name"
    [] k = "removeSubject" /\ table = "assign" -> "direct"
    [] OTHER -> "insert"

NextWrite(k, table) ==
  CASE k = "deleteRole" /\ table = "grant"     -> "assign"
    [] k = "deleteRole" /\ table = "assign"    -> "name"
    [] k = "removeSubject" /\ table = "assign" -> "direct"
    [] OTHER -> "insert"

(* Every name is resolved.  A call that only looks names up returns when    *)
(* one of them is missing.                                                  *)
Dispatch(p) ==
  /\ pc[p] = "find"
  /\ want[p] = {}
  /\ IF /\ call[p].kind \in FindOnlyKinds
        /\ \E n \in call[p].roles \cup call[p].perms : ids[p][n] = NoId
       THEN Goto(p, "return") /\ UNCHANGED todo
       ELSE /\ todo' = [todo EXCEPT ![p] = Inserts(p)]
            /\ Goto(p, FirstWrite(call[p].kind))
  /\ UNCHANGED <<db, call, want, cur, ids, txn>>

(* Mutants: the DELETE loses its tenant condition; it spells an empty list as *)
(* "NOT IN ()", which matches nothing.                                      *)
InScopeAnyTenant(c, r) == r.subj = c.subj /\ r.source \in c.sources
UnlistedIfAny(p, r) == RoleIds(p) # {} /\ r.role \notin RoleIds(p)

InScope(c, r) ==
  r.subj = c.subj /\ r.tenant = c.tenant /\ r.source \in c.sources

(* role_id NOT IN the listed ids; every row when the list is empty. *)
Unlisted(p, r) == r.role \notin RoleIds(p)

(* The rows the WHERE clause of p's DELETE on table pc[p] matches. *)
DoomedGrant(p, r) ==
  /\ r.role \in RoleIds(p)
  /\ call[p].kind = "revokePermissionFromRole" => r.perm \in PermIds(p)

DoomedAssign(p, r) ==
  LET c == call[p] IN
  CASE c.kind = "deleteRole"      -> r.role \in RoleIds(p)
    [] c.kind = "removeSubject"   -> r.subj = c.subj
    [] c.kind = "removeRole"      -> InScope(c, r) /\ r.role \in RoleIds(p)
    [] c.kind = "setSubjectRoles" -> InScope(c, r) /\ Unlisted(p, r)
    [] OTHER -> FALSE

DoomedDirect(p, r) ==
  /\ r.subj = call[p].subj
  /\ call[p].kind = "revokeSubjectPermission" => r.perm \in PermIds(p)

Doomed(p) ==
  {r \in Current(p) :
     /\ r.tab = pc[p]
     /\ CASE r.tab = "grant"  -> DoomedGrant(p, r)
          [] r.tab = "assign" -> DoomedAssign(p, r)
          [] r.tab = "direct" -> DoomedDirect(p, r)
          [] r.tab = "name"   -> r.id \in RoleIds(p)}

DeleteRows(p) ==
  /\ pc[p] \in {"grant", "assign", "direct", "name"}
  /\ Write(p, {}, Doomed(p))
  /\ Goto(p, NextWrite(call[p].kind, pc[p]))
  /\ UNCHANGED <<call, want, cur, ids, todo>>

(* Mutant: the insert forgets the client it was given and runs on the root  *)
(* connection.                                                              *)
InsertRowOnRoot(p, r) ==
  /\ pc[p] = "insert"
  /\ r \in todo[p]
  /\ ~Blocked(p, {r})
  /\ db' = db \cup {r}
  /\ todo' = [todo EXCEPT ![p] = @ \ {r}]
  /\ UNCHANGED <<pc, call, want, cur, ids, txn>>

InsertRow(p, r) ==
  /\ pc[p] = "insert"
  /\ r \in todo[p]
  /\ InsertIgnore(p, r)
  /\ todo' = [todo EXCEPT ![p] = @ \ {r}]
  /\ UNCHANGED <<pc, call, want, cur, ids>>

Finished(p) ==
  /\ call' = [call EXCEPT ![p] = NoCall]
  /\ want' = [want EXCEPT ![p] = {}]
  /\ cur' = [cur EXCEPT ![p] = None]
  /\ ids' = [ids EXCEPT ![p] = [n \in Name |-> NoId]]
  /\ todo' = [todo EXCEPT ![p] = {}]

(* The call has run its statements: commit the transaction it opened. *)
Return(p) ==
  /\ \/ pc[p] = "return"
     \/ pc[p] = "insert" /\ todo[p] = {}
  /\ Goto(p, "idle")
  /\ Finished(p)
  /\ IF tx[p] = "own" THEN Commit(p) ELSE UNCHANGED <<db, txn>>

(* A statement throws, or the process dies: what ran outside a transaction  *)
(* stays, the open transaction is rolled back.                              *)
Fail(p) ==
  /\ ~AtRest(p)
  /\ Goto(p, "failed")
  /\ Finished(p)
  /\ Rollback(p)

(* A host runs several calls on one client of its own: opts.client, the     *)
(* withClient view, or resolveClient.                                       *)
HostBegin(p) ==
  /\ HostTx /\ AtRest(p) /\ tx[p] = "none"
  /\ BeginTx(p, "host")
  /\ UNCHANGED local

HostEnd(p) ==
  /\ AtRest(p) /\ tx[p] = "host"
  /\ Commit(p) \/ Rollback(p)
  /\ UNCHANGED local

Step(p) ==
  \/ \E n \in Name : Find(p, n)
  \/ InsertName(p)
  \/ Refind(p)
  \/ Dispatch(p)
  \/ DeleteRows(p)
  \/ \E r \in todo[p] : InsertRow(p, r)
  \/ Return(p)

Next ==
  \E p \in Proc :
    \/ \E c \in Calls : Start(p, c)
    \/ Step(p)
    \/ Fail(p)
    \/ HostBegin(p)
    \/ HostEnd(p)

Init ==
  /\ db = {}
  /\ pc = [p \in Proc |-> "idle"]
  /\ call = [p \in Proc |-> NoCall]
  /\ want = [p \in Proc |-> {}]
  /\ cur = [p \in Proc |-> None]
  /\ ids = [p \in Proc |-> [n \in Name |-> NoId]]
  /\ todo = [p \in Proc |-> {}]
  /\ tx = [p \in Proc |-> "none"]
  /\ ins = [p \in Proc |-> {}]
  /\ del = [p \in Proc |-> {}]
  /\ snap = [p \in Proc |-> {}]

Spec == Init /\ [][Next]_vars

(* Every statement a caller has reached is executed: the driver answers,   *)
(* and the host ends the transactions it opens.  A caller that waits in a   *)
(* cycle of lock waits is made to fail.  Failing otherwise, and calling at  *)
(* all, is not required.                                                    *)
Writing(p) == CASE pc[p] = "insertName" -> {Named(NoId, cur[p])}
                [] pc[p] = "insert" -> todo[p]
                [] OTHER -> Doomed(p)

WaitsFor(p, q) ==
  q # p /\ \E r \in Writing(p), x \in ins[q] \cup del[q] : SameKey(r, x)

Deadlocked(p) ==
  \E S \in SUBSET Proc :
    p \in S /\ \A x \in S : \E y \in S : WaitsFor(x, y)

Fairness ==
  \A p \in Proc : /\ SF_vars(Step(p))
                  /\ SF_vars(HostEnd(p))
                  /\ WF_vars(Deadlocked(p) /\ Fail(p))

FairSpec == Spec /\ Fairness

-----------------------------------------------------------------------------
(* Properties. *)

(* Type correctness of every variable. *)
TypeOK ==
  /\ db \subseteq Row
  /\ pc \in [Proc -> {"idle", "failed", "find", "insertName", "refind", "grant",
                      "assign", "direct", "name", "insert", "return"}]
  /\ call \in [Proc -> CallType]
  /\ want \in [Proc -> SUBSET Name]
  /\ cur \in [Proc -> Name \cup {None}]
  /\ ids \in [Proc -> [Name -> Id \cup {NoId}]]
  /\ todo \in [Proc -> SUBSET Row]
  /\ tx \in [Proc -> {"none", "own", "host"}]
  /\ ins \in [Proc -> SUBSET Row]
  /\ del \in [Proc -> SUBSET Row]
  /\ snap \in [Proc -> SUBSET Row]

(* No two committed roles, and no two permissions, share a name. *)
NamesUnique ==
  \A r, x \in db :
    r.tab = "name" /\ x.tab = "name" /\ r.name = x.name => r = x

(* Every id a committed pivot row refers to is the id of a committed role   *)
(* (or permission, where the column is one): no grant or assignment dangles *)
(* although the schema declares no foreign key.                             *)
RefIntegrity == \A r \in db : RefsExist(r, db)

(* A permission the store reports for a subject is one it was granted       *)
(* directly, or one of a role the store reports for it.                     *)
PermissionsBacked == AllBacked(db)

(* A role that comes into existence has no members and no permissions but   *)
(* those committed with it: a role created again under the name of a        *)
(* deleted one does not inherit the old one's.                              *)
NewNamesStartEmpty ==
  [][\A r \in db' \ db : r.tab = "name" => \A x \in db : r.id \notin Refs(x)]_vars

(* A call that returns without an error has had its effect: what it was     *)
(* asked to add is there to be read, what it was asked to take is gone.     *)
ReturnHasEffect ==
  [][\A p \in Proc : pc[p] # "idle" /\ pc'[p] = "idle" => Effect(call[p], Current(p)')]_vars

(* The same database, at the level of names: what the contract speaks of.   *)
roles   == NamesIn(db, Role)
perms   == NamesIn(db, Perm)
grants  == Grants(db)
members == Memberships(db)
direct  == Directs(db)

(* No call is excused for roles deleted meanwhile. *)
lost == [p \in Proc |-> {}]

Contract == INSTANCE RbacContract WITH Promise <- "exact", pending <- call
ScopedContract == INSTANCE RbacContract WITH Promise <- "scoped", pending <- call

(* The store implements the contract, with replacements exact: what holds   *)
(* when calls do not overlap.                                               *)
ImplementsContract == Contract!Spec

(* The store implements the contract when calls overlap: every committed    *)
(* change is one write's, within that write's scope.                        *)
ImplementsScopedContract == ScopedContract!Spec

(* Every call ends, returning or throwing. *)
CallsEnd == \A p \in Proc : pc[p] # "idle" ~> AtRest(p)
=============================================================================
