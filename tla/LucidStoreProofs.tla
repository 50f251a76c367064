-------------------------- MODULE LucidStoreProofs --------------------------
(***************************************************************************)
(* Proofs about the Lucid store, for every number of callers, names,       *)
(* subjects, tenants, sources and ids.                                     *)
(***************************************************************************)
EXTENDS LucidStore, RbacProofs

-----------------------------------------------------------------------------
(* Type correctness.  A pivot row is built from the ids the call resolved,  *)
(* and from the subject it names, so TypeOK needs to know which ids are     *)
(* resolved when a call dispatches and what kind of call it is.             *)

(* A caller in the middle of a call is in one of the calls of the contract. *)
CallsOK == \A p \in Proc : ~AtRest(p) => call[p] \in Calls

(* The name being created is a name, and after the insert it has an id. *)
CurOK ==
  \A p \in Proc :
    /\ pc[p] \in {"insertName", "refind"} => cur[p] \in Name
    /\ pc[p] = "refind" => ids[p][cur[p]] \in Id

(* A call that creates the names it misses has an id for every name it is   *)
(* done with.                                                               *)
Creating(p) == ~AtRest(p) /\ call[p].kind \notin FindOnlyKinds
ResolvedOK ==
  \A p \in Proc : Creating(p) =>
    \A n \in (call[p].roles \cup call[p].perms) \ want[p] : ids[p][n] \in Id

TypeInv == TypeOK /\ CallsOK /\ CurOK /\ ResolvedOK

-----------------------------------------------------------------------------
(* What the database operators keep. *)

DbTyped ==
  /\ db \subseteq Row
  /\ tx \in [Proc -> {"none", "own", "host"}]
  /\ ins \in [Proc -> SUBSET Row]
  /\ del \in [Proc -> SUBSET Row]
  /\ snap \in [Proc -> SUBSET Row]

LocalTyped ==
  /\ pc \in [Proc -> {"idle", "failed", "find", "insertName", "refind", "grant",
                      "assign", "direct", "name", "insert", "return"}]
  /\ call \in [Proc -> CallType]
  /\ want \in [Proc -> SUBSET Name]
  /\ cur \in [Proc -> Name \cup {None}]
  /\ ids \in [Proc -> [Name -> Id \cup {NoId}]]
  /\ todo \in [Proc -> SUBSET Row]

LEMMA TypeOKSplit == TypeOK <=> DbTyped /\ LocalTyped
BY DEF TypeOK, DbTyped, LocalTyped

LEMMA TypeOKSplitNext == TypeOK' <=> DbTyped' /\ LocalTyped'
BY DEF TypeOK, DbTyped, LocalTyped

(* Reads return rows and ids. *)
LEMMA ReadsTyped ==
  ASSUME DbTyped, NEW p \in Proc
  PROVE  /\ Current(p) \subseteq Row
         /\ View(p) \subseteq Row
         /\ \A N : Ids(View(p), N) \subseteq Id
<1>1. Current(p) \subseteq Row /\ View(p) \subseteq Row
  BY DEF DbTyped, Current, View
<1>2. \A r \in Row : r.tab = "name" => r.id \in Id
  BY DEF Row, NameRow, GrantRow, AssignRow, DirectRow
<1> QED
  BY <1>1, <1>2 DEF Ids

LEMMA NamedTyped == \A i \in Id, n \in Name : Named(i, n) \in Row
BY DEF Named, Row, NameRow

LEMMA WriteTyped ==
  ASSUME DbTyped, NEW p \in Proc, NEW add \in SUBSET Row, NEW drop, Write(p, add, drop)
  PROVE  DbTyped'
<1>1. CASE tx[p] = "none"
  BY <1>1 DEF Write, DbTyped
<1>2. CASE tx[p] # "none"
  BY <1>2 DEF Write, DbTyped
<1> QED
  BY <1>1, <1>2

LEMMA InsertIgnoreTyped ==
  ASSUME DbTyped, NEW p \in Proc, NEW r \in Row, InsertIgnore(p, r)
  PROVE  DbTyped'
<1> DEFINE add == IF \E x \in Current(p) : SameKey(r, x) THEN {} ELSE {r}
<1>1. add \in SUBSET Row
  OBVIOUS
<1>2. Write(p, add, {})
  BY DEF InsertIgnore
<1> HIDE DEF add
<1> QED
  BY <1>1, <1>2, WriteTyped

LEMMA EndTyped ==
  ASSUME DbTyped, NEW p \in Proc, Commit(p) \/ Rollback(p)
  PROVE  DbTyped'
BY ReadsTyped DEF Commit, Rollback, CloseTx, DbTyped

LEMMA BeginTyped ==
  ASSUME DbTyped, NEW p \in Proc, NEW mode \in {"own", "host"}, BeginTx(p, mode)
  PROVE  DbTyped'
BY DEF BeginTx, DbTyped

(* The pivot rows of a call that has its names. *)
LEMMA InsertsTyped ==
  ASSUME TypeInv, NEW p \in Proc, pc[p] = "find", want[p] = {}
  PROVE  Inserts(p) \in SUBSET Row
<1> DEFINE c == call[p]
<1>1. c \in Calls /\ c \in CallType
  BY CallsTyped DEF TypeInv, CallsOK, AtRest
<1>2. ASSUME c.kind \notin FindOnlyKinds
      PROVE  RoleIds(p) \subseteq Id /\ PermIds(p) \subseteq Id
  BY <1>1, <1>2 DEF TypeInv, ResolvedOK, Creating, AtRest, RoleIds, PermIds
<1>3. c.sources \subseteq Source /\ c.tenant \in Tenant
  BY <1>1 DEF CallType
<1>4. CASE c.kind \in {"givePermissionToRole", "syncRolePermissions"}
  <2>1. RoleIds(p) \subseteq Id /\ PermIds(p) \subseteq Id
    BY <1>2, <1>4 DEF FindOnlyKinds
  <2> QED
    BY <1>4, <2>1 DEF Inserts, RowsToAdd, Granted, Row, GrantRow
<1>5. CASE c.kind \in {"assignRole", "setSubjectRoles"}
  <2>1. RoleIds(p) \subseteq Id /\ c.subj \in Subject
    BY <1>1, <1>2, <1>5, CallSubjects DEF FindOnlyKinds
  <2> QED
    BY <1>3, <1>5, <2>1 DEF Inserts, RowsToAdd, Assigned, Row, AssignRow
<1>6. CASE c.kind = "giveSubjectPermission"
  <2>1. PermIds(p) \subseteq Id /\ c.subj \in Subject
    BY <1>1, <1>2, <1>6, CallSubjects DEF FindOnlyKinds
  <2> QED
    BY <1>6, <2>1 DEF Inserts, RowsToAdd, Direct, Row, DirectRow
<1>7. CASE c.kind \notin {"givePermissionToRole", "syncRolePermissions", "assignRole",
                         "setSubjectRoles", "giveSubjectPermission"}
  BY <1>7 DEF Inserts, RowsToAdd
<1> QED
  BY <1>4, <1>5, <1>6, <1>7

-----------------------------------------------------------------------------
(* The invariant, action by action. *)

LEMMA TypeInit == Init => TypeInv
<1> SUFFICES ASSUME Init PROVE TypeInv
  OBVIOUS
<1>1. NoCall \in CallType
  BY TablesAssumption DEF NoCall, Call, CallType
<1>2. LocalTyped
  BY <1>1 DEF Init, LocalTyped
<1>3. DbTyped
  BY DEF Init, DbTyped
<1>4. CallsOK /\ CurOK /\ ResolvedOK
  BY DEF Init, CallsOK, CurOK, ResolvedOK, Creating, AtRest
<1> QED
  BY <1>2, <1>3, <1>4, TypeOKSplit DEF TypeInv

LEMMA StartTyped ==
  ASSUME TypeInv, NEW p \in Proc, NEW c \in Calls, Start(p, c)
  PROVE  TypeInv'
<1>1. c \in CallType /\ c.roles \cup c.perms \subseteq Name
  BY CallsTyped DEF CallType, Name
<1>2. LocalTyped /\ DbTyped
  BY TypeOKSplit DEF TypeInv
<1>3. LocalTyped'
  BY <1>1, <1>2 DEF Start, Goto, LocalTyped
<1>4. DbTyped'
  BY <1>2, BeginTyped DEF Start, txn, DbTyped
<1>5. CallsOK' /\ CurOK' /\ ResolvedOK'
  BY <1>2 DEF TypeInv, CallsOK, CurOK, ResolvedOK, Creating, AtRest, Start, Goto, LocalTyped
<1> QED
  BY <1>3, <1>4, <1>5, TypeOKSplitNext DEF TypeInv

LEMMA FindTyped ==
  ASSUME TypeInv, NEW p \in Proc, NEW n \in Name, Find(p, n)
  PROVE  TypeInv'
<1>1. LocalTyped /\ DbTyped
  BY TypeOKSplit DEF TypeInv
<1>2. DbTyped'
  BY <1>1 DEF Find, txn, DbTyped
<1>3. \A i \in Ids(View(p), {n}) : i \in Id
  BY <1>1, ReadsTyped
<1>4. pc[p] = "find" /\ UNCHANGED <<call, todo>>
  BY DEF Find
<1>5. CASE \E i \in Ids(View(p), {n}) : SetId(p, n, i) /\ Resolve(p, n) /\ UNCHANGED <<pc, cur>>
  <2> PICK i \in Id : SetId(p, n, i) /\ Resolve(p, n) /\ UNCHANGED <<pc, cur>>
    BY <1>3, <1>5
  <2>1. LocalTyped'
    BY <1>1, <1>4 DEF LocalTyped, SetId, Resolve
  <2>2. CallsOK' /\ CurOK'
    BY <1>1, <1>4 DEF TypeInv, CallsOK, CurOK, AtRest, LocalTyped, SetId
  <2>3. ResolvedOK'
    BY <1>1, <1>4 DEF TypeInv, ResolvedOK, Creating, AtRest, LocalTyped, SetId, Resolve
  <2> QED
    BY <1>2, <2>1, <2>2, <2>3, TypeOKSplitNext DEF TypeInv
<1>6. CASE call[p].kind \in FindOnlyKinds /\ Resolve(p, n) /\ UNCHANGED <<pc, cur, ids>>
  <2>1. LocalTyped'
    BY <1>1, <1>4, <1>6 DEF LocalTyped, Resolve
  <2>2. CallsOK' /\ CurOK' /\ ResolvedOK'
    BY <1>1, <1>4, <1>6
       DEF TypeInv, CallsOK, CurOK, ResolvedOK, Creating, AtRest, LocalTyped, Resolve
  <2> QED
    BY <1>2, <2>1, <2>2, TypeOKSplitNext DEF TypeInv
<1>7. CASE cur' = [cur EXCEPT ![p] = n] /\ Goto(p, "insertName") /\ UNCHANGED <<want, ids>>
  <2>1. LocalTyped'
    BY <1>1, <1>4, <1>7 DEF LocalTyped, Goto
  <2>2. CallsOK' /\ CurOK' /\ ResolvedOK'
    BY <1>1, <1>4, <1>7
       DEF TypeInv, CallsOK, CurOK, ResolvedOK, Creating, AtRest, LocalTyped, Goto
  <2> QED
    BY <1>2, <2>1, <2>2, TypeOKSplitNext DEF TypeInv
<1> QED
  BY <1>5, <1>6, <1>7 DEF Find

LEMMA InsertNameTyped ==
  ASSUME TypeInv, NEW p \in Proc, InsertName(p)
  PROVE  TypeInv'
<1>1. LocalTyped /\ DbTyped
  BY TypeOKSplit DEF TypeInv
<1>2. pc[p] = "insertName" /\ cur[p] \in Name
  BY DEF InsertName, TypeInv, CurOK
<1>3. PICK i \in Id : InsertIgnore(p, Named(i, cur[p])) /\ SetId(p, cur[p], i)
  BY DEF InsertName, Fresh
<1>4. DbTyped'
  BY <1>1, <1>2, <1>3, NamedTyped, InsertIgnoreTyped
<1>5. LocalTyped'
  BY <1>1, <1>2, <1>3 DEF LocalTyped, InsertName, Goto, SetId
<1>6. CallsOK' /\ CurOK'
  BY <1>1, <1>2, <1>3 DEF TypeInv, CallsOK, CurOK, AtRest, LocalTyped, InsertName, Goto, SetId
<1>7. ResolvedOK'
  BY <1>1, <1>2, <1>3
     DEF TypeInv, ResolvedOK, Creating, AtRest, LocalTyped, InsertName, Goto, SetId
<1> QED
  BY <1>4, <1>5, <1>6, <1>7, TypeOKSplitNext DEF TypeInv

LEMMA RefindTyped ==
  ASSUME TypeInv, NEW p \in Proc, Refind(p)
  PROVE  TypeInv'
<1>1. LocalTyped /\ DbTyped
  BY TypeOKSplit DEF TypeInv
<1>2. pc[p] = "refind" /\ cur[p] \in Name /\ ids[p][cur[p]] \in Id
  BY DEF Refind, TypeInv, CurOK
<1>3. DbTyped'
  BY <1>1 DEF Refind, txn, DbTyped
<1>4. \E i \in Id : SetId(p, cur[p], i)
  <2>1. CASE \E i \in Ids(View(p), {cur[p]}) : SetId(p, cur[p], i)
    BY <1>1, <2>1, ReadsTyped
  <2>2. CASE UNCHANGED ids
    <3>1. ids' = [ids EXCEPT ![p][cur[p]] = ids[p][cur[p]]]
      BY <1>1, <1>2, <2>2 DEF LocalTyped
    <3> QED
      BY <1>2, <3>1 DEF SetId
  <2> QED
    BY <2>1, <2>2 DEF Refind
<1>5. PICK i \in Id : SetId(p, cur[p], i)
  BY <1>4
<1>6. LocalTyped'
  BY <1>1, <1>2, <1>5 DEF LocalTyped, Refind, Goto, SetId, Resolve
<1>7. CallsOK' /\ CurOK'
  BY <1>1, <1>2, <1>5
     DEF TypeInv, CallsOK, CurOK, AtRest, LocalTyped, Refind, Goto, SetId
<1>8. ResolvedOK'
  BY <1>1, <1>2, <1>5
     DEF TypeInv, ResolvedOK, Creating, AtRest, LocalTyped, Refind, Goto, SetId, Resolve
<1> QED
  BY <1>3, <1>6, <1>7, <1>8, TypeOKSplitNext DEF TypeInv

LEMMA DispatchTyped ==
  ASSUME TypeInv, NEW p \in Proc, Dispatch(p)
  PROVE  TypeInv'
<1>1. LocalTyped /\ DbTyped
  BY TypeOKSplit DEF TypeInv
<1>2. DbTyped' /\ pc[p] = "find" /\ UNCHANGED <<call, want, cur, ids>>
  BY <1>1 DEF Dispatch, txn, DbTyped
<1>3. PICK l \in {"return", "grant", "assign", "direct", "insert"} : Goto(p, l)
  BY DEF Dispatch, FirstWrite
<1>4. todo' \in [Proc -> SUBSET Row]
  BY <1>1, InsertsTyped DEF Dispatch, LocalTyped
<1>5. LocalTyped'
  BY <1>1, <1>2, <1>3, <1>4 DEF LocalTyped, Goto
<1>6. CallsOK' /\ CurOK' /\ ResolvedOK'
  BY <1>1, <1>2, <1>3
     DEF TypeInv, CallsOK, CurOK, ResolvedOK, Creating, AtRest, LocalTyped, Goto
<1> QED
  BY <1>2, <1>5, <1>6, TypeOKSplitNext DEF TypeInv

LEMMA DeleteRowsTyped ==
  ASSUME TypeInv, NEW p \in Proc, DeleteRows(p)
  PROVE  TypeInv'
<1>1. LocalTyped /\ DbTyped
  BY TypeOKSplit DEF TypeInv
<1>2. DbTyped'
  BY <1>1, WriteTyped DEF DeleteRows
<1>3. PICK l \in {"assign", "direct", "name", "insert"} : Goto(p, l)
  BY DEF DeleteRows, NextWrite
<1>4. LocalTyped'
  BY <1>1, <1>3 DEF LocalTyped, DeleteRows, Goto
<1>5. CallsOK' /\ CurOK' /\ ResolvedOK'
  BY <1>1, <1>3
     DEF TypeInv, CallsOK, CurOK, ResolvedOK, Creating, AtRest, LocalTyped, DeleteRows, Goto
<1> QED
  BY <1>2, <1>4, <1>5, TypeOKSplitNext DEF TypeInv

LEMMA InsertRowTyped ==
  ASSUME TypeInv, NEW p \in Proc, NEW r \in todo[p], InsertRow(p, r)
  PROVE  TypeInv'
<1>1. LocalTyped /\ DbTyped
  BY TypeOKSplit DEF TypeInv
<1>2. r \in Row
  BY <1>1 DEF LocalTyped
<1>3. DbTyped'
  BY <1>1, <1>2, InsertIgnoreTyped DEF InsertRow
<1>4. LocalTyped'
  BY <1>1 DEF LocalTyped, InsertRow
<1>5. CallsOK' /\ CurOK' /\ ResolvedOK'
  BY DEF TypeInv, CallsOK, CurOK, ResolvedOK, Creating, AtRest, InsertRow
<1> QED
  BY <1>3, <1>4, <1>5, TypeOKSplitNext DEF TypeInv

(* Return and Fail both leave the caller at rest, with nothing of the call. *)
LEMMA EndCallTyped ==
  ASSUME TypeInv, NEW p \in Proc, NEW l \in {"idle", "failed"},
         Goto(p, l), Finished(p), DbTyped'
  PROVE  TypeInv'
<1>1. LocalTyped /\ DbTyped
  BY TypeOKSplit DEF TypeInv
<1>2. NoCall \in CallType
  BY TablesAssumption DEF NoCall, Call, CallType
<1>3. LocalTyped'
  BY <1>1, <1>2 DEF LocalTyped, Goto, Finished
<1>4. CallsOK' /\ CurOK' /\ ResolvedOK'
  BY <1>1 DEF TypeInv, CallsOK, CurOK, ResolvedOK, Creating, AtRest, LocalTyped, Goto, Finished
<1> QED
  BY <1>3, <1>4, TypeOKSplitNext DEF TypeInv

LEMMA ReturnTyped ==
  ASSUME TypeInv, NEW p \in Proc, Return(p)
  PROVE  TypeInv'
<1>1. DbTyped
  BY TypeOKSplit DEF TypeInv
<1>2. DbTyped'
  BY <1>1, EndTyped DEF Return, txn, DbTyped
<1> QED
  BY <1>2, EndCallTyped DEF Return

LEMMA FailTyped ==
  ASSUME TypeInv, NEW p \in Proc, Fail(p)
  PROVE  TypeInv'
<1>1. DbTyped
  BY TypeOKSplit DEF TypeInv
<1>2. DbTyped'
  BY <1>1, EndTyped DEF Fail
<1> QED
  BY <1>2, EndCallTyped DEF Fail

(* Steps that leave the callers' own variables alone. *)
LEMMA LocalUnchangedTyped ==
  ASSUME TypeInv, UNCHANGED local, DbTyped'
  PROVE  TypeInv'
<1>1. LocalTyped'
  BY TypeOKSplit DEF TypeInv, LocalTyped, local
<1>2. CallsOK' /\ CurOK' /\ ResolvedOK'
  BY DEF TypeInv, CallsOK, CurOK, ResolvedOK, Creating, AtRest, local
<1> QED
  BY <1>1, <1>2, TypeOKSplitNext DEF TypeInv

LEMMA TypeStep == TypeInv /\ [Next]_vars => TypeInv'
<1> SUFFICES ASSUME TypeInv, [Next]_vars PROVE TypeInv'
  OBVIOUS
<1>1. DbTyped
  BY TypeOKSplit DEF TypeInv
<1>2. CASE UNCHANGED vars
  BY <1>1, <1>2, LocalUnchangedTyped DEF vars, txn, DbTyped
<1>3. ASSUME NEW p \in Proc, NEW c \in Calls, Start(p, c) PROVE TypeInv'
  BY <1>3, StartTyped
<1>4. ASSUME NEW p \in Proc, Step(p) PROVE TypeInv'
  BY <1>4, FindTyped, InsertNameTyped, RefindTyped, DispatchTyped, DeleteRowsTyped,
     InsertRowTyped, ReturnTyped DEF Step
<1>5. ASSUME NEW p \in Proc, Fail(p) PROVE TypeInv'
  BY <1>5, FailTyped
<1>6. ASSUME NEW p \in Proc, HostBegin(p) PROVE TypeInv'
  BY <1>1, <1>6, BeginTyped, LocalUnchangedTyped DEF HostBegin
<1>7. ASSUME NEW p \in Proc, HostEnd(p) PROVE TypeInv'
  BY <1>1, <1>7, EndTyped, LocalUnchangedTyped DEF HostEnd
<1> QED
  BY <1>2, <1>3, <1>4, <1>5, <1>6, <1>7 DEF Next

(* The type invariant of the store: whatever the callers do, the tables hold *)
(* rows of the schema and every id a statement is about to use is one.       *)
THEOREM TypeCorrect == Spec => []TypeOK
<1>1. TypeInv => TypeOK
  BY DEF TypeInv
<1> QED
  BY <1>1, TypeInit, TypeStep, PTL DEF Spec

-----------------------------------------------------------------------------
(* Referential integrity, while no caller deletes roles and reads see what  *)
(* is committed.  The id a call resolves is used one or more statements     *)
(* later, so the invariant follows it from the read to the row: an id p     *)
(* holds for a name, a row p has yet to insert and a row of p's open        *)
(* transaction all rest on names p knows.  Names are never taken away, so   *)
(* what p knows stays known until p's own transaction is rolled back, which *)
(* ends the call.                                                           *)

NamesOnlyGrow == "deleteRole" \notin Kinds /\ Isolation = "ReadCommitted"

(* The committed rows and those of p's transaction. *)
Known(p) == db \cup ins[p]

DbInv == \A r \in db : RefsExist(r, db)

ProcInv(p) ==
  /\ pc[p] # "name"
  /\ \A r \in del[p] : r.tab # "name"
  /\ tx[p] = "none" => ins[p] = {}
  /\ AtRest(p) => todo[p] = {}
  /\ \A r \in ins[p] \cup todo[p] : RefsExist(r, Known(p))
  /\ pc[p] \in {"insertName", "refind"} => cur[p] \in want[p]
  /\ pc[p] = "refind" => Ids(Known(p), {cur[p]}) # {}
  /\ Creating(p) =>
       \A n \in (call[p].roles \cup call[p].perms) \ want[p] :
         ids[p][n] \in Ids(Known(p), {n})

RefInv == TypeInv /\ DbInv /\ \A p \in Proc : ProcInv(p)

(* More names, more ids; a reference that exists keeps existing. *)
LEMMA MoreNames ==
  ASSUME NEW D, NEW E, \A x \in D : x.tab = "name" => x \in E
  PROVE  /\ \A N : Ids(D, N) \subseteq Ids(E, N)
         /\ \A r : RefsExist(r, D) => RefsExist(r, E)
<1>1. \A N : Ids(D, N) \subseteq Ids(E, N)
  BY DEF Ids
<1> QED
  BY <1>1 DEF RefsExist

(* The id of a role is among the ids of roles. *)
LEMMA IdsOfMany ==
  ASSUME NEW D, NEW N, NEW n \in N
  PROVE  Ids(D, {n}) \subseteq Ids(D, N)
BY DEF Ids

(* Under read committed, and with no role deleted, p sees the names it knows. *)
LEMMA SeesKnown ==
  ASSUME NamesOnlyGrow, NEW p \in Proc, ProcInv(p)
  PROVE  /\ View(p) = Current(p)
         /\ \A N : Ids(View(p), N) = Ids(Known(p), N)
<1>1. View(p) = Current(p)
  BY DEF NamesOnlyGrow, View
<1>2. \A x : x.tab = "name" => (x \in Current(p) <=> x \in Known(p))
  BY DEF ProcInv, Current, Known
<1> QED
  BY <1>1, <1>2 DEF Ids

(* Nothing of q changes but the tables, whose names stay. *)
Untouched(q) ==
  /\ pc'[q] = pc[q] /\ call'[q] = call[q] /\ want'[q] = want[q] /\ cur'[q] = cur[q]
  /\ ids'[q] = ids[q] /\ todo'[q] = todo[q]
  /\ tx'[q] = tx[q] /\ ins'[q] = ins[q] /\ del'[q] = del[q]

DbNamesStay == \A r \in db : r.tab = "name" => r \in db'

LEMMA Bystander ==
  ASSUME NEW q \in Proc, ProcInv(q), Untouched(q), DbNamesStay
  PROVE  ProcInv(q)'
<1>1. \A x \in Known(q) : x.tab = "name" => x \in Known(q)'
  BY DEF Known, Untouched, DbNamesStay
<1>2. /\ \A N : Ids(Known(q), N) \subseteq Ids(Known(q)', N)
      /\ \A r : RefsExist(r, Known(q)) => RefsExist(r, Known(q)')
  BY <1>1, MoreNames
<1> HIDE DEF Known
<1>3. \A r \in ins'[q] \cup todo'[q] : RefsExist(r, Known(q)')
  BY <1>2 DEF ProcInv, Untouched
<1>4. pc'[q] = "refind" => Ids(Known(q)', {cur'[q]}) # {}
  BY <1>2 DEF ProcInv, Untouched
<1>5. (Creating(q))' =>
        \A n \in (call'[q].roles \cup call'[q].perms) \ want'[q] :
          ids'[q][n] \in Ids(Known(q)', {n})
  BY <1>2 DEF ProcInv, Untouched, Creating, AtRest
<1> QED
  BY <1>3, <1>4, <1>5 DEF ProcInv, Untouched, AtRest

(* What a write statement does to the invariant. *)
LEMMA WriteRefs ==
  ASSUME RefInv, NEW p \in Proc, NEW add, NEW drop, Write(p, add, drop),
         \A r \in add : RefsExist(r, Known(p)),
         \A r \in drop : r.tab # "name"
  PROVE  /\ DbNamesStay
         /\ \A x \in Known(p) : x.tab = "name" => x \in Known(p)'
         /\ DbInv'
         /\ \A r \in ins'[p] : RefsExist(r, Known(p)')
         /\ \A r \in del'[p] : r.tab # "name"
         /\ tx' = tx
         /\ tx[p] = "none" => ins'[p] = {}
         /\ \A q \in Proc \ {p} : ins'[q] = ins[q] /\ del'[q] = del[q]
         /\ add \subseteq Known(p)'
<1> USE DEF RefInv
<1>1. ins \in [Proc -> SUBSET Row] /\ del \in [Proc -> SUBSET Row]
  BY DEF TypeInv, TypeOK
<1>2. ProcInv(p) /\ DbInv
  OBVIOUS
<1>3. tx' = tx
  BY DEF Write
<1>4. CASE tx[p] = "none"
  <2>1. db' = (db \ drop) \cup add /\ UNCHANGED <<ins, del>>
    BY <1>4 DEF Write
  <2>2. ins[p] = {}
    BY <1>2, <1>4 DEF ProcInv
  <2>3. DbNamesStay
    BY <2>1 DEF DbNamesStay
  <2>4. \A r : RefsExist(r, db) => RefsExist(r, db')
    BY <2>3, MoreNames DEF DbNamesStay
  <2>5. Known(p) = db /\ Known(p)' = db'
    BY <2>1, <2>2 DEF Known
  <2>6. DbInv'
    BY <1>2, <2>1, <2>4, <2>5 DEF DbInv
  <2> QED
    BY <1>2, <1>3, <1>4, <2>1, <2>2, <2>3, <2>5, <2>6 DEF ProcInv, DbNamesStay
<1>5. CASE tx[p] # "none"
  <2>1. /\ ins' = [ins EXCEPT ![p] = (@ \ drop) \cup add]
        /\ del' = [del EXCEPT ![p] = (@ \cup (drop \cap db)) \ add]
        /\ db' = db
    BY <1>5 DEF Write
  <2>2. /\ ins'[p] = (ins[p] \ drop) \cup add
        /\ del'[p] = (del[p] \cup (drop \cap db)) \ add
        /\ \A q \in Proc \ {p} : ins'[q] = ins[q] /\ del'[q] = del[q]
    BY <1>1, <2>1
  <2>3. DbNamesStay /\ DbInv'
    BY <1>2, <2>1 DEF DbNamesStay, DbInv
  <2>4. \A x \in Known(p) : x.tab = "name" => x \in Known(p)'
    BY <2>1, <2>2 DEF Known
  <2>5. \A r : RefsExist(r, Known(p)) => RefsExist(r, Known(p)')
    BY <2>4, MoreNames
  <2>6. \A r \in ins'[p] : RefsExist(r, Known(p)')
    BY <1>2, <2>2, <2>5 DEF ProcInv
  <2>7. \A r \in del'[p] : r.tab # "name"
    BY <1>2, <2>2 DEF ProcInv
  <2> QED
    BY <1>3, <1>5, <2>2, <2>3, <2>4, <2>6, <2>7 DEF Known
<1> QED
  BY <1>4, <1>5

(* A step of p keeps the invariant when it keeps p's part of it and the     *)
(* tables', and leaves the other callers alone.                             *)
LEMMA OneCaller ==
  ASSUME RefInv, NEW p \in Proc, [Next]_vars, ProcInv(p)', DbInv', DbNamesStay,
         \A q \in Proc \ {p} : Untouched(q)
  PROVE  RefInv'
<1>1. TypeInv'
  BY TypeStep DEF RefInv
<1>2. \A q \in Proc \ {p} : ProcInv(q)'
  BY Bystander DEF RefInv
<1> QED
  BY <1>1, <1>2 DEF RefInv

Kept(p) ==
  ProcInv(p)' /\ DbInv' /\ DbNamesStay /\ \A q \in Proc \ {p} : Untouched(q)

(* The types the frame conditions need. *)
LEMMA Typed ==
  ASSUME RefInv
  PROVE  /\ LocalTyped /\ DbTyped /\ TypeInv /\ DbInv
         /\ \A p \in Proc : ProcInv(p)
BY TypeOKSplit DEF RefInv, TypeInv

(* The tables stay as they are. *)
LEMMA SameTables ==
  ASSUME RefInv, UNCHANGED db
  PROVE  DbInv' /\ DbNamesStay
BY DEF RefInv, DbInv, DbNamesStay

LEMMA StartKept ==
  ASSUME NamesOnlyGrow, RefInv, NEW p \in Proc, NEW c \in Calls, Start(p, c)
  PROVE  Kept(p)
<1>1. LocalTyped /\ DbTyped /\ ProcInv(p)
  BY Typed
<1>2. UNCHANGED <<db, cur, ids, todo, ins, del>> /\ AtRest(p) /\ Goto(p, "find")
  BY DEF Start, BeginTx, txn
<1>3. /\ tx'[p] = "none" => tx[p] = "none"
      /\ \A q \in Proc \ {p} : tx'[q] = tx[q]
  BY <1>1 DEF Start, BeginTx, txn, DbTyped
<1>4. \A q \in Proc \ {p} : Untouched(q)
  BY <1>1, <1>2, <1>3 DEF Start, Goto, Untouched, LocalTyped
<1>5. DbInv' /\ DbNamesStay
  BY <1>2, SameTables
<1>6. pc'[p] = "find" /\ Known(p)' = Known(p)
  BY <1>1, <1>2 DEF Goto, LocalTyped, Known
<1>7. call'[p] = c /\ want'[p] = c.roles \cup c.perms
  BY <1>1 DEF Start, LocalTyped
<1>8. ProcInv(p)'
  <2> HIDE DEF Known
  <2>1. \A r \in ins'[p] \cup todo'[p] : RefsExist(r, Known(p)')
    BY <1>1, <1>2, <1>6 DEF ProcInv
  <2>2. tx'[p] = "none" => ins'[p] = {}
    BY <1>1, <1>2, <1>3 DEF ProcInv
  <2> QED
    BY <1>1, <1>2, <1>6, <1>7, <2>1, <2>2 DEF ProcInv, AtRest
<1> QED
  BY <1>4, <1>5, <1>8 DEF Kept

LEMMA FindKept ==
  ASSUME NamesOnlyGrow, RefInv, NEW p \in Proc, NEW n \in Name, Find(p, n)
  PROVE  Kept(p)
<1>1. LocalTyped /\ DbTyped /\ ProcInv(p)
  BY Typed
<1>2. pc[p] = "find" /\ n \in want[p] /\ UNCHANGED <<db, call, todo, tx, ins, del>>
  BY DEF Find, txn, NextNames
<1>3. DbInv' /\ DbNamesStay
  BY <1>2, SameTables
<1>4. Known(p)' = Known(p)
  BY <1>2 DEF Known
<1> HIDE DEF Known
<1>5. \A r \in ins'[p] \cup todo'[p] : RefsExist(r, Known(p)')
  BY <1>1, <1>2, <1>4 DEF ProcInv
<1>6. CASE \E i \in Ids(View(p), {n}) : SetId(p, n, i) /\ Resolve(p, n) /\ UNCHANGED <<pc, cur>>
  <2> PICK i \in Ids(View(p), {n}) : SetId(p, n, i) /\ Resolve(p, n) /\ UNCHANGED <<pc, cur>>
    BY <1>6
  <2>1. i \in Ids(Known(p), {n})
    BY <1>1, SeesKnown
  <2>2. \A q \in Proc \ {p} : Untouched(q)
    BY <1>1, <1>2 DEF Untouched, SetId, Resolve, LocalTyped
  <2>3. ids'[p] = [ids[p] EXCEPT ![n] = i] /\ want'[p] = want[p] \ {n} /\ pc'[p] = "find"
    BY <1>1, <1>2 DEF SetId, Resolve, LocalTyped
  <2>4. ids'[p][n] = i /\ \A m \in Name \ {n} : ids'[p][m] = ids[p][m]
    BY <1>1, <2>3 DEF LocalTyped
  <2>5. call[p].roles \cup call[p].perms \subseteq Name
    BY <1>1 DEF LocalTyped, CallType, Name
  <2>6. (Creating(p))' =>
          \A m \in (call'[p].roles \cup call'[p].perms) \ want'[p] :
            ids'[p][m] \in Ids(Known(p)', {m})
    BY <1>1, <1>2, <1>4, <2>1, <2>3, <2>4, <2>5 DEF ProcInv, Creating, AtRest
  <2>7. ProcInv(p)'
    BY <1>1, <1>2, <1>5, <2>3, <2>6 DEF ProcInv, AtRest
  <2> QED
    BY <1>3, <2>2, <2>7 DEF Kept
<1>7. CASE call[p].kind \in FindOnlyKinds /\ Resolve(p, n) /\ UNCHANGED <<pc, cur, ids>>
  <2>1. \A q \in Proc \ {p} : Untouched(q)
    BY <1>1, <1>2, <1>7 DEF Untouched, Resolve, LocalTyped
  <2>2. ProcInv(p)'
    BY <1>1, <1>2, <1>5, <1>7 DEF ProcInv, AtRest, Creating
  <2> QED
    BY <1>3, <2>1, <2>2 DEF Kept
<1>8. CASE cur' = [cur EXCEPT ![p] = n] /\ Goto(p, "insertName") /\ UNCHANGED <<want, ids>>
  <2>1. \A q \in Proc \ {p} : Untouched(q)
    BY <1>1, <1>2, <1>8 DEF Untouched, Goto, LocalTyped
  <2>2. pc'[p] = "insertName" /\ cur'[p] = n
    BY <1>1, <1>8 DEF Goto, LocalTyped
  <2>3. ProcInv(p)'
    BY <1>1, <1>2, <1>4, <1>5, <1>8, <2>2 DEF ProcInv, AtRest, Creating
  <2> QED
    BY <1>3, <2>1, <2>3 DEF Kept
<1> QED
  BY <1>6, <1>7, <1>8 DEF Find

LEMMA InsertNameKept ==
  ASSUME NamesOnlyGrow, RefInv, NEW p \in Proc, InsertName(p)
  PROVE  Kept(p)
<1>1. LocalTyped /\ DbTyped /\ ProcInv(p)
  BY Typed
<1>2. /\ pc[p] = "insertName" /\ cur[p] \in Name
      /\ UNCHANGED <<call, want, cur, todo>> /\ Goto(p, "refind")
  BY DEF InsertName, RefInv, TypeInv, CurOK
<1>3. PICK i \in Id : InsertIgnore(p, Named(i, cur[p])) /\ SetId(p, cur[p], i)
  BY DEF InsertName, Fresh
<1> DEFINE r == Named(i, cur[p])
           add == IF \E x \in Current(p) : SameKey(r, x) THEN {} ELSE {r}
<1>4. Write(p, add, {}) /\ \A x \in add : RefsExist(x, Known(p))
  BY <1>3 DEF InsertIgnore, RefsExist, Named
<1>5. /\ DbNamesStay
      /\ \A x \in Known(p) : x.tab = "name" => x \in Known(p)'
      /\ DbInv'
      /\ \A x \in ins'[p] : RefsExist(x, Known(p)')
      /\ \A x \in del'[p] : x.tab # "name"
      /\ tx' = tx
      /\ tx[p] = "none" => ins'[p] = {}
      /\ \A q \in Proc \ {p} : ins'[q] = ins[q] /\ del'[q] = del[q]
      /\ add \subseteq Known(p)'
  <2> HIDE DEF add
  <2> QED
    BY <1>4, WriteRefs
<1>6. /\ \A N : Ids(Known(p), N) \subseteq Ids(Known(p)', N)
      /\ \A x : RefsExist(x, Known(p)) => RefsExist(x, Known(p)')
  BY <1>5, MoreNames
<1>7. Ids(Known(p)', {cur[p]}) # {}
  <2>1. CASE \E x \in Current(p) : SameKey(r, x)
    <3> PICK x \in Current(p) : SameKey(r, x)
      BY <2>1
    <3>1. x.tab = "name" /\ x.name = cur[p]
      BY DEF SameKey, Named
    <3>2. x \in Known(p)'
      BY <1>5, <3>1 DEF Current, Known
    <3> QED
      BY <3>1, <3>2 DEF Ids
  <2>2. CASE ~\E x \in Current(p) : SameKey(r, x)
    <3>1. r \in Known(p)'
      BY <1>5, <2>2
    <3> QED
      BY <3>1 DEF Ids, Named
  <2> QED
    BY <2>1, <2>2
<1>8. /\ pc'[p] = "refind"
      /\ \A m \in Name \ {cur[p]} : ids'[p][m] = ids[p][m]
      /\ \A q \in Proc \ {p} : Untouched(q)
  BY <1>1, <1>2, <1>3, <1>5 DEF LocalTyped, Goto, SetId, Untouched
<1> HIDE DEF Known, add
<1>9. (Creating(p))' =>
        \A m \in (call'[p].roles \cup call'[p].perms) \ want'[p] :
          ids'[p][m] \in Ids(Known(p)', {m})
  <2>1. call[p].roles \cup call[p].perms \subseteq Name
    BY <1>1 DEF LocalTyped, CallType, Name
  <2> QED
    BY <1>1, <1>2, <1>6, <1>8, <2>1 DEF ProcInv, Creating, AtRest
<1>10. \A x \in ins'[p] \cup todo'[p] : RefsExist(x, Known(p)')
  BY <1>1, <1>2, <1>5, <1>6 DEF ProcInv
<1>11. ProcInv(p)'
  BY <1>1, <1>2, <1>5, <1>7, <1>8, <1>9, <1>10 DEF ProcInv, AtRest
<1> QED
  BY <1>5, <1>8, <1>11 DEF Kept

LEMMA RefindKept ==
  ASSUME NamesOnlyGrow, RefInv, NEW p \in Proc, Refind(p)
  PROVE  Kept(p)
<1>1. LocalTyped /\ DbTyped /\ ProcInv(p)
  BY Typed
<1>2. /\ pc[p] = "refind" /\ cur[p] \in Name
      /\ Resolve(p, cur[p]) /\ Goto(p, "find")
      /\ cur' = [cur EXCEPT ![p] = None]
      /\ UNCHANGED <<db, call, todo, tx, ins, del>>
  BY DEF Refind, txn, RefInv, TypeInv, CurOK
<1>3. DbInv' /\ DbNamesStay
  BY <1>2, SameTables
<1>4. Known(p)' = Known(p)
  BY <1>2 DEF Known
<1> HIDE DEF Known
<1>5. Ids(View(p), {cur[p]}) # {} /\ Ids(View(p), {cur[p]}) = Ids(Known(p), {cur[p]})
  BY <1>1, <1>2, SeesKnown DEF ProcInv
<1>6. PICK i \in Ids(Known(p), {cur[p]}) : SetId(p, cur[p], i)
  BY <1>5 DEF Refind
<1>7. \A q \in Proc \ {p} : Untouched(q)
  BY <1>1, <1>2, <1>6 DEF Untouched, SetId, Resolve, Goto, LocalTyped
<1>8. /\ pc'[p] = "find" /\ want'[p] = want[p] \ {cur[p]}
      /\ ids'[p] = [ids[p] EXCEPT ![cur[p]] = i]
  BY <1>1, <1>2, <1>6 DEF SetId, Resolve, Goto, LocalTyped
<1>9. ids'[p][cur[p]] = i /\ \A m \in Name \ {cur[p]} : ids'[p][m] = ids[p][m]
  BY <1>1, <1>2, <1>8 DEF LocalTyped
<1>10. (Creating(p))' =>
         \A m \in (call'[p].roles \cup call'[p].perms) \ want'[p] :
           ids'[p][m] \in Ids(Known(p)', {m})
  <2>1. call[p].roles \cup call[p].perms \subseteq Name
    BY <1>1 DEF LocalTyped, CallType, Name
  <2> QED
    BY <1>1, <1>2, <1>4, <1>8, <1>9, <2>1 DEF ProcInv, Creating, AtRest
<1>11. \A r \in ins'[p] \cup todo'[p] : RefsExist(r, Known(p)')
  BY <1>1, <1>2, <1>4 DEF ProcInv
<1>12. ProcInv(p)'
  BY <1>1, <1>2, <1>8, <1>10, <1>11 DEF ProcInv, AtRest
<1> QED
  BY <1>3, <1>7, <1>12 DEF Kept

(* The rows a call is about to insert rest on names it knows. *)
LEMMA InsertsKnown ==
  ASSUME RefInv, NEW p \in Proc, pc[p] = "find", want[p] = {}
  PROVE  \A r \in Inserts(p) : RefsExist(r, Known(p))
<1> DEFINE c == call[p]
<1>1. LocalTyped /\ ProcInv(p)
  BY Typed
<1>2. c.roles \subseteq Role /\ c.perms \subseteq Perm
  BY <1>1 DEF LocalTyped, CallType
<1>3. ASSUME c.kind \notin FindOnlyKinds
      PROVE  RoleIds(p) \subseteq Ids(Known(p), Role) /\ PermIds(p) \subseteq Ids(Known(p), Perm)
  <2>1. \A n \in c.roles \cup c.perms : ids[p][n] \in Ids(Known(p), {n})
    BY <1>1, <1>3 DEF ProcInv, Creating, AtRest
  <2>2. \A n \in c.roles : ids[p][n] \in Ids(Known(p), Role)
    BY <1>2, <2>1, IdsOfMany
  <2>3. \A n \in c.perms : ids[p][n] \in Ids(Known(p), Perm)
    BY <1>2, <2>1, IdsOfMany
  <2> QED
    BY <2>2, <2>3 DEF RoleIds, PermIds
<1>4. CASE c.kind \in {"givePermissionToRole", "syncRolePermissions"}
  BY <1>3, <1>4 DEF Inserts, RowsToAdd, Granted, RefsExist, FindOnlyKinds
<1>5. CASE c.kind \in {"assignRole", "setSubjectRoles"}
  BY <1>3, <1>5 DEF Inserts, RowsToAdd, Assigned, RefsExist, FindOnlyKinds
<1>6. CASE c.kind = "giveSubjectPermission"
  BY <1>3, <1>6 DEF Inserts, RowsToAdd, Direct, RefsExist, FindOnlyKinds
<1>7. CASE c.kind \notin {"givePermissionToRole", "syncRolePermissions", "assignRole",
                         "setSubjectRoles", "giveSubjectPermission"}
  BY <1>7 DEF Inserts, RowsToAdd
<1> QED
  BY <1>4, <1>5, <1>6, <1>7

LEMMA DispatchKept ==
  ASSUME NamesOnlyGrow, RefInv, NEW p \in Proc, Dispatch(p)
  PROVE  Kept(p)
<1>1. LocalTyped /\ DbTyped /\ ProcInv(p)
  BY Typed
<1>2. /\ pc[p] = "find" /\ want[p] = {}
      /\ UNCHANGED <<db, call, want, cur, ids, tx, ins, del>>
  BY DEF Dispatch, txn
<1>3. PICK l \in {"return", "grant", "assign", "direct", "insert"} : Goto(p, l)
  BY DEF Dispatch, FirstWrite
<1>4. DbInv' /\ DbNamesStay
  BY <1>2, SameTables
<1>5. todo' = todo \/ todo' = [todo EXCEPT ![p] = Inserts(p)]
  BY DEF Dispatch
<1>6. \A q \in Proc \ {p} : Untouched(q)
  BY <1>1, <1>2, <1>3, <1>5 DEF Untouched, Goto, LocalTyped
<1>7. Known(p)' = Known(p) /\ pc'[p] = l
  BY <1>1, <1>2, <1>3 DEF Known, Goto, LocalTyped
<1>8. todo'[p] \subseteq todo[p] \cup Inserts(p)
  BY <1>1, <1>5 DEF LocalTyped
<1> HIDE DEF Known
<1>9. \A r \in ins'[p] \cup todo'[p] : RefsExist(r, Known(p)')
  BY <1>1, <1>2, <1>7, <1>8, InsertsKnown DEF ProcInv
<1>10. ProcInv(p)'
  BY <1>1, <1>2, <1>7, <1>9 DEF ProcInv, AtRest, Creating
<1> QED
  BY <1>4, <1>6, <1>10 DEF Kept

LEMMA DeleteRowsKept ==
  ASSUME NamesOnlyGrow, RefInv, NEW p \in Proc, DeleteRows(p)
  PROVE  Kept(p)
<1>1. LocalTyped /\ DbTyped /\ ProcInv(p)
  BY Typed
<1>2. /\ Write(p, {}, Doomed(p))
      /\ pc[p] \in {"grant", "assign", "direct", "name"}
      /\ Goto(p, NextWrite(call[p].kind, pc[p]))
      /\ UNCHANGED <<call, want, cur, ids, todo>>
  BY DEF DeleteRows
<1>3. pc[p] # "name" /\ \A r \in Doomed(p) : r.tab # "name"
  BY <1>1 DEF ProcInv, Doomed
<1>4. call[p] \in Calls /\ call[p].kind # "deleteRole"
  BY <1>2 DEF RefInv, TypeInv, CallsOK, AtRest, Calls, NamesOnlyGrow
<1>5. NextWrite(call[p].kind, pc[p]) \in {"direct", "insert"}
  BY <1>4 DEF NextWrite
<1>6. /\ DbNamesStay
      /\ \A x \in Known(p) : x.tab = "name" => x \in Known(p)'
      /\ DbInv'
      /\ \A r \in ins'[p] : RefsExist(r, Known(p)')
      /\ \A r \in del'[p] : r.tab # "name"
      /\ tx' = tx
      /\ tx[p] = "none" => ins'[p] = {}
      /\ \A q \in Proc \ {p} : ins'[q] = ins[q] /\ del'[q] = del[q]
  BY <1>2, <1>3, WriteRefs
<1>7. /\ \A N : Ids(Known(p), N) \subseteq Ids(Known(p)', N)
      /\ \A r : RefsExist(r, Known(p)) => RefsExist(r, Known(p)')
  BY <1>6, MoreNames
<1> HIDE DEF Known
<1>8. \A q \in Proc \ {p} : Untouched(q)
  BY <1>1, <1>2, <1>6 DEF Untouched, Goto, LocalTyped
<1>9. pc'[p] \in {"direct", "insert"}
  BY <1>1, <1>2, <1>5 DEF Goto, LocalTyped
<1>10. (Creating(p))' =>
         \A m \in (call'[p].roles \cup call'[p].perms) \ want'[p] :
           ids'[p][m] \in Ids(Known(p)', {m})
  BY <1>1, <1>2, <1>7 DEF ProcInv, Creating, AtRest
<1>11. ProcInv(p)'
  BY <1>1, <1>2, <1>6, <1>7, <1>9, <1>10 DEF ProcInv, AtRest
<1> QED
  BY <1>6, <1>8, <1>11 DEF Kept

LEMMA InsertRowKept ==
  ASSUME NamesOnlyGrow, RefInv, NEW p \in Proc, NEW r \in todo[p], InsertRow(p, r)
  PROVE  Kept(p)
<1> DEFINE add == IF \E x \in Current(p) : SameKey(r, x) THEN {} ELSE {r}
<1>1. LocalTyped /\ DbTyped /\ ProcInv(p)
  BY Typed
<1>2. /\ pc[p] = "insert" /\ todo' = [todo EXCEPT ![p] = @ \ {r}]
      /\ UNCHANGED <<pc, call, want, cur, ids>>
  BY DEF InsertRow
<1>3. Write(p, add, {}) /\ \A x \in add : RefsExist(x, Known(p))
  BY <1>1 DEF InsertRow, InsertIgnore, ProcInv
<1> HIDE DEF add
<1>4. /\ DbNamesStay
      /\ \A x \in Known(p) : x.tab = "name" => x \in Known(p)'
      /\ DbInv'
      /\ \A x \in ins'[p] : RefsExist(x, Known(p)')
      /\ \A x \in del'[p] : x.tab # "name"
      /\ tx' = tx
      /\ tx[p] = "none" => ins'[p] = {}
      /\ \A q \in Proc \ {p} : ins'[q] = ins[q] /\ del'[q] = del[q]
  BY <1>3, WriteRefs
<1>5. /\ \A N : Ids(Known(p), N) \subseteq Ids(Known(p)', N)
      /\ \A x : RefsExist(x, Known(p)) => RefsExist(x, Known(p)')
  BY <1>4, MoreNames
<1> HIDE DEF Known
<1>6. todo'[p] \subseteq todo[p] /\ \A q \in Proc \ {p} : Untouched(q)
  BY <1>1, <1>2, <1>4 DEF Untouched, LocalTyped
<1>7. ProcInv(p)'
  <2>1. \A x \in ins'[p] \cup todo'[p] : RefsExist(x, Known(p)')
    BY <1>1, <1>4, <1>5, <1>6 DEF ProcInv
  <2>2. (Creating(p))' =>
          \A m \in (call'[p].roles \cup call'[p].perms) \ want'[p] :
            ids'[p][m] \in Ids(Known(p)', {m})
    BY <1>1, <1>2, <1>5 DEF ProcInv, Creating, AtRest
  <2> QED
    BY <1>1, <1>2, <1>4, <2>1, <2>2 DEF ProcInv, AtRest
<1> QED
  BY <1>4, <1>6, <1>7 DEF Kept

(* The end of a transaction leaves nothing of it open. *)
LEMMA EndKept ==
  ASSUME NamesOnlyGrow, RefInv, NEW p \in Proc, Commit(p) \/ Rollback(p)
  PROVE  /\ DbInv' /\ DbNamesStay
         /\ tx'[p] = "none" /\ ins'[p] = {} /\ del'[p] = {}
         /\ \A q \in Proc \ {p} : tx'[q] = tx[q] /\ ins'[q] = ins[q] /\ del'[q] = del[q]
<1>1. DbTyped /\ ProcInv(p) /\ DbInv
  BY Typed
<1>2. /\ tx'[p] = "none" /\ ins'[p] = {} /\ del'[p] = {}
      /\ \A q \in Proc \ {p} : tx'[q] = tx[q] /\ ins'[q] = ins[q] /\ del'[q] = del[q]
  BY <1>1 DEF Commit, Rollback, CloseTx, DbTyped
<1>3. CASE Commit(p)
  <2>1. db' = Current(p)
    BY <1>3 DEF Commit
  <2>2. \A x \in Known(p) : x.tab = "name" => x \in db'
    BY <1>1, <2>1 DEF ProcInv, Known, Current
  <2>3. DbNamesStay
    BY <2>2 DEF DbNamesStay, Known
  <2>4. \A r : RefsExist(r, Known(p)) => RefsExist(r, db')
    BY <2>2, MoreNames
  <2>5. \A r : RefsExist(r, db) => RefsExist(r, db')
    BY <2>3, MoreNames DEF DbNamesStay
  <2>6. DbInv'
    BY <1>1, <2>1, <2>4, <2>5 DEF DbInv, ProcInv, Current
  <2> QED
    BY <1>2, <2>3, <2>6
<1>4. CASE Rollback(p)
  <2>1. DbInv' /\ DbNamesStay
    BY <1>4, SameTables DEF Rollback
  <2> QED
    BY <1>2, <2>1
<1> QED
  BY <1>3, <1>4

LEMMA ReturnKept ==
  ASSUME NamesOnlyGrow, RefInv, NEW p \in Proc, Return(p)
  PROVE  Kept(p)
<1>1. LocalTyped /\ DbTyped /\ ProcInv(p)
  BY Typed
<1>2. Goto(p, "idle") /\ Finished(p)
  BY DEF Return
<1>3. pc'[p] = "idle" /\ todo'[p] = {}
  BY <1>1, <1>2 DEF Goto, Finished, LocalTyped
<1>4. CASE tx[p] = "own"
  <2>1. /\ DbInv' /\ DbNamesStay
        /\ tx'[p] = "none" /\ ins'[p] = {} /\ del'[p] = {}
        /\ \A q \in Proc \ {p} : tx'[q] = tx[q] /\ ins'[q] = ins[q] /\ del'[q] = del[q]
    BY <1>4, EndKept DEF Return
  <2>2. \A q \in Proc \ {p} : Untouched(q)
    BY <1>1, <1>2, <2>1 DEF Untouched, Goto, Finished, LocalTyped
  <2> QED
    BY <1>3, <2>1, <2>2 DEF Kept, ProcInv, AtRest, Creating
<1>5. CASE tx[p] # "own"
  <2>1. UNCHANGED <<db, tx, ins, del>>
    BY <1>5 DEF Return, txn
  <2>2. DbInv' /\ DbNamesStay
    BY <2>1, SameTables
  <2>3. \A q \in Proc \ {p} : Untouched(q)
    BY <1>1, <1>2, <2>1 DEF Untouched, Goto, Finished, LocalTyped
  <2>4. Known(p)' = Known(p)
    BY <2>1 DEF Known
  <2> HIDE DEF Known
  <2> QED
    BY <1>1, <1>3, <2>1, <2>2, <2>3, <2>4 DEF Kept, ProcInv, AtRest, Creating
<1> QED
  BY <1>4, <1>5

LEMMA FailKept ==
  ASSUME NamesOnlyGrow, RefInv, NEW p \in Proc, Fail(p)
  PROVE  Kept(p)
<1>1. LocalTyped /\ DbTyped /\ ProcInv(p)
  BY Typed
<1>2. Goto(p, "failed") /\ Finished(p)
  BY DEF Fail
<1>3. pc'[p] = "failed" /\ todo'[p] = {}
  BY <1>1, <1>2 DEF Goto, Finished, LocalTyped
<1>4. /\ DbInv' /\ DbNamesStay
      /\ tx'[p] = "none" /\ ins'[p] = {} /\ del'[p] = {}
      /\ \A q \in Proc \ {p} : tx'[q] = tx[q] /\ ins'[q] = ins[q] /\ del'[q] = del[q]
  BY EndKept DEF Fail
<1>5. \A q \in Proc \ {p} : Untouched(q)
  BY <1>1, <1>2, <1>4 DEF Untouched, Goto, Finished, LocalTyped
<1> QED
  BY <1>3, <1>4, <1>5 DEF Kept, ProcInv, AtRest, Creating

LEMMA HostKept ==
  ASSUME NamesOnlyGrow, RefInv, NEW p \in Proc, HostBegin(p) \/ HostEnd(p)
  PROVE  Kept(p)
<1>1. LocalTyped /\ DbTyped /\ ProcInv(p)
  BY Typed
<1>2. AtRest(p) /\ UNCHANGED <<pc, call, want, cur, ids, todo>>
  BY DEF HostBegin, HostEnd, local
<1>3. CASE HostBegin(p)
  <2>1. /\ UNCHANGED <<db, ins, del>> /\ tx'[p] = "host"
        /\ \A q \in Proc \ {p} : tx'[q] = tx[q]
    BY <1>1, <1>3 DEF HostBegin, BeginTx, DbTyped
  <2>2. DbInv' /\ DbNamesStay
    BY <2>1, SameTables
  <2>3. \A q \in Proc \ {p} : Untouched(q)
    BY <1>2, <2>1 DEF Untouched
  <2>4. Known(p)' = Known(p)
    BY <2>1 DEF Known
  <2> HIDE DEF Known
  <2> QED
    BY <1>1, <1>2, <2>1, <2>2, <2>3, <2>4 DEF Kept, ProcInv, AtRest, Creating
<1>4. CASE HostEnd(p)
  <2>1. /\ DbInv' /\ DbNamesStay
        /\ tx'[p] = "none" /\ ins'[p] = {} /\ del'[p] = {}
        /\ \A q \in Proc \ {p} : tx'[q] = tx[q] /\ ins'[q] = ins[q] /\ del'[q] = del[q]
    BY <1>4, EndKept DEF HostEnd
  <2>2. \A q \in Proc \ {p} : Untouched(q)
    BY <1>2, <2>1 DEF Untouched
  <2> QED
    BY <1>1, <1>2, <2>1, <2>2 DEF Kept, ProcInv, AtRest, Creating
<1> QED
  BY <1>3, <1>4

LEMMA RefInit == Init => RefInv
BY TypeInit DEF Init, RefInv, DbInv, ProcInv, AtRest, Creating

LEMMA RefStep ==
  ASSUME NamesOnlyGrow
  PROVE  RefInv /\ [Next]_vars => RefInv'
<1> SUFFICES ASSUME RefInv, [Next]_vars PROVE RefInv'
  OBVIOUS
<1>1. ASSUME NEW p \in Proc, Kept(p) PROVE RefInv'
  BY <1>1, OneCaller DEF Kept
<1>2. CASE UNCHANGED vars
  <2>1. TypeInv'
    BY TypeStep DEF RefInv
  <2>2. DbInv' /\ DbNamesStay
    BY <1>2, SameTables DEF vars
  <2>3. \A q \in Proc : Untouched(q)
    BY <1>2 DEF vars, local, txn, Untouched
  <2>4. \A q \in Proc : ProcInv(q)'
    BY <2>2, <2>3, Bystander DEF RefInv
  <2> QED
    BY <2>1, <2>2, <2>4 DEF RefInv
<1>3. ASSUME NEW p \in Proc, NEW c \in Calls, Start(p, c) PROVE RefInv'
  BY <1>1, <1>3, StartKept
<1>4. ASSUME NEW p \in Proc, Step(p) PROVE RefInv'
  BY <1>1, <1>4, FindKept, InsertNameKept, RefindKept, DispatchKept, DeleteRowsKept,
     InsertRowKept, ReturnKept DEF Step
<1>5. ASSUME NEW p \in Proc, Fail(p) \/ HostBegin(p) \/ HostEnd(p) PROVE RefInv'
  BY <1>1, <1>5, FailKept, HostKept
<1> QED
  BY <1>2, <1>3, <1>4, <1>5 DEF Next

(* Referential integrity, the schema declaring no foreign key: as long as   *)
(* no caller deletes roles and SELECTs see what other transactions          *)
(* committed, no interleaving of the store's calls, failure of one or       *)
(* rollback of a host's transaction leaves a grant or an assignment that    *)
(* refers to a role or permission that is not there.                        *)
THEOREM ReferencesHold ==
  ASSUME NamesOnlyGrow
  PROVE  Spec => []RefIntegrity
<1>1. RefInv => RefIntegrity
  BY DEF RefInv, DbInv, RefIntegrity
<1>2. RefInv /\ [Next]_vars => RefInv'
  BY RefStep
<1> QED
  BY <1>1, <1>2, RefInit, PTL DEF Spec

(* Under the same conditions a permission the store reports for a subject   *)
(* is one it was granted directly or one of a role the store reports for    *)
(* it: no permission comes from a role that is not there any more.          *)
THEOREM PermissionsAreBacked ==
  ASSUME NamesOnlyGrow
  PROVE  Spec => []PermissionsBacked
<1>1. RefInv => PermissionsBacked
  BY BackedByRefs DEF RefInv, DbInv, PermissionsBacked
<1>2. RefInv /\ [Next]_vars => RefInv'
  BY RefStep
<1> QED
  BY <1>1, <1>2, RefInit, PTL DEF Spec

-----------------------------------------------------------------------------
(* Calls that only add, and what they have added when they return.          *)

OnlyAdding ==
  /\ Kinds \subseteq {"createRole", "createPermission", "givePermissionToRole",
                      "assignRole", "giveSubjectPermission"}
  /\ Isolation = "ReadCommitted"

LEMMA AddingIsGrowing == OnlyAdding => NamesOnlyGrow
BY DEF OnlyAdding, NamesOnlyGrow

(* The rows p is done with are there, whoever inserted them.                *)
AddedOK(p) ==
  /\ del[p] = {}
  /\ pc[p] \notin {"grant", "assign", "direct", "name", "return"}
  /\ \A r \in todo[p] : r.tab # "name"
  /\ pc[p] = "insert" =>
       want[p] = {} /\ \A r \in Inserts(p) : r \in todo[p] \/ r \in Current(p)

AddedInv == RefInv /\ \A p \in Proc : AddedOK(p)

(* No row is taken from under another caller.                               *)
LEMMA AddedBystander ==
  ASSUME NEW q \in Proc, AddedOK(q), Untouched(q), db \subseteq db'
  PROVE  AddedOK(q)'
<1>1. /\ RoleIds(q)' = RoleIds(q) /\ PermIds(q)' = PermIds(q)
  BY DEF Untouched, RoleIds, PermIds
<1>2. Inserts(q)' = Inserts(q)
  BY <1>1 DEF Untouched, Inserts
<1> HIDE DEF Inserts
<1>3. \A r : r \in Current(q) => r \in Current(q)'
  BY DEF Untouched, Current, AddedOK
<1> HIDE DEF Current
<1> QED
  BY <1>2, <1>3 DEF Untouched, AddedOK

LEMMA WriteAdds ==
  ASSUME AddedInv, NEW p \in Proc, NEW add, Write(p, add, {})
  PROVE  /\ db \subseteq db' /\ del'[p] = {}
         /\ \A r : r \in Current(p) \/ r \in add => r \in Current(p)'
<1>1. DbTyped /\ AddedOK(p)
  BY Typed DEF AddedInv
<1>2. CASE tx[p] = "none"
  BY <1>1, <1>2 DEF Write, AddedOK, Current, DbTyped
<1>3. CASE tx[p] # "none"
  <2>1. /\ db' = db /\ ins'[p] = ins[p] \cup add /\ del'[p] = {}
    BY <1>1, <1>3 DEF Write, AddedOK, DbTyped
  <2> QED
    BY <1>1, <2>1 DEF Current, AddedOK
<1> QED
  BY <1>2, <1>3

LEMMA EndAdds ==
  ASSUME AddedInv, NEW p \in Proc, Commit(p) \/ Rollback(p)
  PROVE  db \subseteq db' /\ del'[p] = {}
<1>1. DbTyped /\ AddedOK(p)
  BY Typed DEF AddedInv
<1> QED
  BY <1>1 DEF Commit, Rollback, CloseTx, Current, AddedOK, DbTyped

(* A caller at work adds.                                                   *)
LEMMA CallerAdds ==
  ASSUME OnlyAdding, AddedInv, NEW p \in Proc, ~AtRest(p)
  PROVE  /\ call[p] \in Calls
         /\ call[p].kind \in {"createRole", "createPermission", "givePermissionToRole",
                              "assignRole", "giveSubjectPermission"}
         /\ call[p].kind \notin FindOnlyKinds
<1>1. call[p] \in Calls
  BY DEF AddedInv, RefInv, TypeInv, CallsOK
<1>2. call[p].kind \in Kinds
  BY <1>1 DEF Calls
<1> QED
  BY <1>1, <1>2 DEF OnlyAdding, FindOnlyKinds

LEMMA InsertsArePivots ==
  ASSUME NEW p \in Proc, NEW r \in Inserts(p)
  PROVE  r.tab # "name"
BY DEF Inserts, RowsToAdd, Granted, Assigned, Direct

Adds(p) == AddedOK(p)' /\ db \subseteq db'

LEMMA FindsAdd ==
  ASSUME AddedInv, NEW p \in Proc,
         (\E c \in Calls : Start(p, c)) \/ (\E n \in Name : Find(p, n)) \/ Refind(p)
  PROVE  Adds(p)
<1>1. LocalTyped /\ DbTyped /\ AddedOK(p)
  BY Typed DEF AddedInv
<1>2. UNCHANGED <<db, del, todo>>
  BY DEF Start, Find, Refind, BeginTx, txn
<1>3. pc'[p] \in {"find", "insertName"}
  BY <1>1 DEF Start, Find, Refind, Goto, LocalTyped
<1> QED
  BY <1>1, <1>2, <1>3 DEF Adds, AddedOK

LEMMA InsertNameAdds ==
  ASSUME AddedInv, NEW p \in Proc, InsertName(p)
  PROVE  Adds(p)
<1>1. LocalTyped /\ DbTyped /\ AddedOK(p)
  BY Typed DEF AddedInv
<1>2. PICK add : Write(p, add, {})
  BY DEF InsertName, InsertIgnore
<1>3. db \subseteq db' /\ del'[p] = {}
  BY <1>2, WriteAdds
<1>4. pc'[p] = "refind" /\ todo' = todo
  BY <1>1 DEF InsertName, Goto, LocalTyped
<1> QED
  BY <1>1, <1>3, <1>4 DEF Adds, AddedOK

LEMMA DispatchAdds ==
  ASSUME OnlyAdding, AddedInv, NEW p \in Proc, Dispatch(p)
  PROVE  Adds(p)
<1>1. LocalTyped /\ DbTyped /\ AddedOK(p)
  BY Typed DEF AddedInv
<1>2. ~AtRest(p)
  BY DEF Dispatch, AtRest
<1>3. /\ todo' = [todo EXCEPT ![p] = Inserts(p)]
      /\ Goto(p, FirstWrite(call[p].kind))
      /\ want[p] = {} /\ UNCHANGED <<db, call, want, cur, ids, txn>>
  BY <1>2, CallerAdds DEF Dispatch
<1>4. FirstWrite(call[p].kind) = "insert"
  BY <1>2, CallerAdds DEF FirstWrite
<1>5. pc'[p] = "insert" /\ todo'[p] = Inserts(p)
  BY <1>1, <1>3, <1>4 DEF Goto, LocalTyped
<1>6. RoleIds(p)' = RoleIds(p) /\ PermIds(p)' = PermIds(p)
  BY <1>3 DEF RoleIds, PermIds
<1>7. Inserts(p)' = Inserts(p)
  BY <1>3, <1>6 DEF Inserts
<1>8. \A r \in todo'[p] : r.tab # "name"
  BY <1>5, InsertsArePivots
<1> HIDE DEF Inserts
<1> QED
  BY <1>1, <1>3, <1>5, <1>7, <1>8 DEF Adds, AddedOK, txn

LEMMA InsertRowAdds ==
  ASSUME AddedInv, NEW p \in Proc, NEW r \in todo[p], InsertRow(p, r)
  PROVE  Adds(p)
<1> DEFINE add == IF \E x \in Current(p) : SameKey(r, x) THEN {} ELSE {r}
<1>1. LocalTyped /\ DbTyped /\ AddedOK(p)
  BY Typed DEF AddedInv
<1>2. /\ pc[p] = "insert" /\ todo' = [todo EXCEPT ![p] = @ \ {r}]
      /\ UNCHANGED <<pc, call, want, cur, ids>>
  BY DEF InsertRow
<1>3. Write(p, add, {})
  BY DEF InsertRow, InsertIgnore
<1>4. r \in Current(p) \/ r \in add
  BY <1>1 DEF AddedOK, SameKey
<1> HIDE DEF add
<1>5. /\ db \subseteq db' /\ del'[p] = {}
      /\ \A x : x \in Current(p) \/ x \in add => x \in Current(p)'
  BY <1>3, WriteAdds
<1>6. todo'[p] = todo[p] \ {r}
  BY <1>1, <1>2 DEF LocalTyped
<1>7. RoleIds(p)' = RoleIds(p) /\ PermIds(p)' = PermIds(p)
  BY <1>2 DEF RoleIds, PermIds
<1>8. Inserts(p)' = Inserts(p)
  BY <1>2, <1>7 DEF Inserts
<1> HIDE DEF Inserts, Current
<1> QED
  BY <1>1, <1>2, <1>4, <1>5, <1>6, <1>8 DEF Adds, AddedOK

LEMMA RestAdds ==
  ASSUME AddedInv, NEW p \in Proc, Return(p) \/ Fail(p) \/ HostBegin(p) \/ HostEnd(p)
  PROVE  Adds(p)
<1>1. LocalTyped /\ DbTyped /\ AddedOK(p)
  BY Typed DEF AddedInv
<1>2. pc'[p] \in {"idle", "failed"}
  BY <1>1 DEF Return, Fail, HostBegin, HostEnd, Goto, local, AtRest, LocalTyped
<1>3. todo'[p] \subseteq todo[p]
  BY <1>1 DEF Return, Fail, HostBegin, HostEnd, Finished, local, LocalTyped
<1>4. db \subseteq db' /\ del'[p] = {}
  <2>1. CASE Commit(p) \/ Rollback(p)
    BY <2>1, EndAdds
  <2>2. CASE UNCHANGED <<db, del>>
    BY <1>1, <2>2 DEF AddedOK
  <2> QED
    BY <2>1, <2>2 DEF Return, Fail, HostBegin, HostEnd, BeginTx, txn
<1> QED
  BY <1>1, <1>2, <1>3, <1>4 DEF Adds, AddedOK

LEMMA AddedStep ==
  ASSUME OnlyAdding
  PROVE  AddedInv /\ [Next]_vars => AddedInv'
<1> SUFFICES ASSUME AddedInv, [Next]_vars PROVE AddedInv'
  OBVIOUS
<1>1. NamesOnlyGrow /\ RefInv /\ RefInv'
  BY AddingIsGrowing, RefStep DEF AddedInv
<1>2. ASSUME NEW p \in Proc, Kept(p), Adds(p) PROVE AddedInv'
  BY <1>1, <1>2, AddedBystander DEF Kept, Adds, AddedInv
<1>3. CASE UNCHANGED vars
  <2>1. db \subseteq db' /\ \A q \in Proc : Untouched(q)
    BY <1>3 DEF vars, local, txn, Untouched
  <2> QED
    BY <1>1, <2>1, AddedBystander DEF AddedInv
<1>4. ASSUME NEW p \in Proc, NEW c \in Calls, Start(p, c) PROVE AddedInv'
  BY <1>1, <1>2, <1>4, StartKept, FindsAdd
<1>5. ASSUME NEW p \in Proc, Step(p) PROVE AddedInv'
  <2>1. CASE (\E n \in Name : Find(p, n)) \/ Refind(p)
    BY <1>1, <1>2, <2>1, FindKept, RefindKept, FindsAdd
  <2>2. CASE InsertName(p)
    BY <1>1, <1>2, <2>2, InsertNameKept, InsertNameAdds
  <2>3. CASE Dispatch(p)
    BY <1>1, <1>2, <2>3, DispatchKept, DispatchAdds
  <2>4. CASE DeleteRows(p)
    BY <2>4 DEF DeleteRows, AddedInv, AddedOK
  <2>5. CASE \E r \in todo[p] : InsertRow(p, r)
    BY <1>1, <1>2, <2>5, InsertRowKept, InsertRowAdds
  <2>6. CASE Return(p)
    BY <1>1, <1>2, <2>6, ReturnKept, RestAdds
  <2> QED
    BY <1>5, <2>1, <2>2, <2>3, <2>4, <2>5, <2>6 DEF Step
<1>6. ASSUME NEW p \in Proc, Fail(p) \/ HostBegin(p) \/ HostEnd(p) PROVE AddedInv'
  BY <1>1, <1>2, <1>6, FailKept, HostKept, RestAdds
<1> QED
  BY <1>3, <1>4, <1>5, <1>6 DEF Next

(* What is added is what the call was to achieve.                           *)
LEMMA AddedIsEffect ==
  ASSUME OnlyAdding, AddedInv, NEW p \in Proc, Return(p)
  PROVE  Effect(call[p], Current(p))
<1> DEFINE c == call[p]
           D == Current(p)
<1>1. LocalTyped /\ ProcInv(p) /\ AddedOK(p)
  BY Typed DEF AddedInv
<1>2. pc[p] = "insert" /\ todo[p] = {} /\ ~AtRest(p)
  BY <1>1 DEF Return, AddedOK, AtRest
<1>3. c \in CallType /\ c.kind \notin FindOnlyKinds
      /\ c.kind \in {"createRole", "createPermission", "givePermissionToRole",
                     "assignRole", "giveSubjectPermission"}
  BY <1>1, <1>2, CallerAdds DEF LocalTyped
<1>4. c.roles \subseteq Role /\ c.perms \subseteq Perm /\ c.sources \subseteq Source
      /\ c.tenant \in Tenant
  BY <1>3 DEF CallType
<1>5. want[p] = {} /\ \A r \in Inserts(p) : r \in D
  BY <1>1, <1>2 DEF AddedOK
<1>6. \A n \in c.roles \cup c.perms : ids[p][n] \in Ids(D, {n})
  <2>1. Known(p) = D
    BY <1>1 DEF Known, Current, AddedOK
  <2> QED
    BY <1>1, <1>2, <1>3, <1>5, <2>1 DEF ProcInv, Creating
<1> SUFFICES Effect(c, D)
  OBVIOUS
<1> HIDE DEF D
<1>7. \A i : i \in RoleIds(p) <=> \E n \in c.roles : i = ids[p][n]
  BY DEF RoleIds
<1>8. \A i : i \in PermIds(p) <=> \E q \in c.perms : i = ids[p][q]
  BY DEF PermIds
<1>9. CASE c.kind \in {"createRole", "createPermission"}
  <2>1. c.roles \cup c.perms \subseteq NamesIn(D, Name)
    BY <1>4, <1>6 DEF NamesIn, Name
  <2> HIDE DEF c
  <2>2. CASE c.kind = "createRole"
    BY <2>1, <2>2 DEF Effect
  <2>3. CASE c.kind = "createPermission"
    BY <2>1, <2>3 DEF Effect
  <2> QED
    BY <1>9, <2>2, <2>3
<1>10. CASE c.kind = "givePermissionToRole"
  <2>1. PICK n \in c.roles : TRUE
    BY <1>2, <1>10, CallerAdds, CallShapes DEF One
  <2>2. ASSUME NEW q \in c.perms PROVE q \in RolePermissions(D, n)
    <3>1. Granted(ids[p][n], ids[p][q]) \in Inserts(p)
      BY <1>7, <1>8, <1>10 DEF Inserts, RowsToAdd
    <3> QED
      BY <1>4, <1>5, <1>6, <3>1 DEF RolePermissions
  <2> QED
    BY <1>10, <2>2 DEF Effect
<1>11. CASE c.kind = "assignRole"
  <2>1. ASSUME NEW n \in c.roles, NEW s \in c.sources
        PROVE  [subj |-> c.subj, role |-> n, tenant |-> c.tenant, source |-> s]
                 \in {m \in Memberships(D) : /\ m.subj = c.subj /\ m.tenant = c.tenant
                                             /\ m.source \in c.sources}
    <3>1. Assigned(c.subj, ids[p][n], c.tenant, s) \in D
      BY <1>5, <1>7, <1>11 DEF Inserts, RowsToAdd
    <3>2. c.subj \in Subject
      BY <1>2, <1>11, CallerAdds, CallSubjects
    <3> QED
      BY <1>4, <1>6, <3>1, <3>2 DEF Memberships
  <2> QED
    BY <1>11, <2>1 DEF Effect
<1>12. CASE c.kind = "giveSubjectPermission"
  <2>1. ASSUME NEW q \in c.perms PROVE q \in DirectPermissions(D, c.subj)
    <3>1. Direct(c.subj, ids[p][q]) \in D
      BY <1>5, <1>8, <1>12 DEF Inserts, RowsToAdd
    <3> QED
      BY <1>4, <1>6, <3>1 DEF DirectPermissions
  <2> QED
    BY <1>12, <2>1 DEF Effect
<1> QED
  BY <1>3, <1>9, <1>10, <1>11, <1>12

(* As long as callers only add, and SELECTs see what others committed, a    *)
(* call that returns has had its effect, whoever else creates the same names*)
(* and rows meanwhile and whichever host transactions are open or rolled    *)
(* back: the caller reads back what it asked for.                           *)
THEOREM AddersReturn ==
  ASSUME OnlyAdding
  PROVE  Spec => ReturnHasEffect
<1>1. Init => AddedInv
  BY RefInit DEF Init, AddedInv, AddedOK
<1>2. AddedInv /\ [Next]_vars => AddedInv'
  BY AddedStep
<1>3. AddedInv /\ [Next]_vars =>
        [\A p \in Proc : pc[p] # "idle" /\ pc'[p] = "idle"
                           => Effect(call[p], Current(p)')]_vars
  <2> SUFFICES ASSUME AddedInv, Next, NEW p \in Proc, pc[p] # "idle", pc'[p] = "idle"
               PROVE  Effect(call[p], Current(p)')
    BY DEF vars, local
  <2>1. LocalTyped /\ DbTyped
    BY Typed DEF AddedInv
  <2>2. Return(p)
    <3>1. PICK q \in Proc : \/ \E c \in Calls : Start(q, c)
                            \/ Step(q)
                            \/ Fail(q)
                            \/ HostBegin(q)
                            \/ HostEnd(q)
      BY DEF Next
    <3>2. \/ Return(q) /\ p = q
          \/ pc'[p] # "idle" \/ pc'[p] = pc[p]
      BY <2>1, <3>1 DEF Start, Step, Find, InsertName, Refind, Dispatch, DeleteRows, InsertRow,
         Return, Fail, HostBegin, HostEnd, Goto, local, LocalTyped, FirstWrite, NextWrite
    <3> QED
      BY <3>2
  <2>3. Current(p)' = Current(p)
    <3>1. CASE tx[p] = "own"
      BY <2>1, <2>2, <3>1 DEF Return, Commit, CloseTx, Current, DbTyped
    <3>2. CASE tx[p] # "own"
      BY <2>2, <3>2 DEF Return, txn, Current
    <3> QED
      BY <3>1, <3>2
  <2>4. Effect(call[p], Current(p))
    BY <2>2, AddedIsEffect
  <2> QED
    BY <2>3, <2>4
<1> QED
  BY <1>1, <1>2, <1>3, PTL DEF Spec, ReturnHasEffect
=============================================================================
