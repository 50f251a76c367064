-------------------------- MODULE LucidScopeProofs --------------------------
(***************************************************************************)
(* The Lucid store implements the contract, step by step: whatever the     *)
(* callers do at the same time, every committed change is one write's,     *)
(* within that write's scope; and when no two calls overlap, every change  *)
(* is exactly the one asked for.  For every number of callers, names,      *)
(* subjects, tenants, sources and ids, at either isolation level, when the *)
(* database has transactions and each call that needs one opens its own.   *)
(***************************************************************************)
EXTENDS LucidNamesProofs

(* The contract speaks of calls: a host that runs several of them in one    *)
(* transaction commits several at once, and without transactions a call     *)
(* that replaces a set does so statement by statement.                      *)
OwnTransactions == HasTransaction /\ ~HostTx

-----------------------------------------------------------------------------
(* An id stands for one name, from the moment it is made and whoever has it *)
(* or read it, also when the name is gone.                                  *)

Stands(i, n) ==
  \/ IsId(db, n, i)
  \/ \E p \in Proc : IsId(ins[p], n, i) \/ IsId(snap[p], n, i)
  \/ \E p \in Proc : ids[p][n] = i

OneMeaning ==
  \A i \in Id : \A n, m \in Name : Stands(i, n) /\ Stands(i, m) => n = m

-----------------------------------------------------------------------------
(* What a caller's open transaction holds is what its call asked for.       *)

Deleting == {"grant", "assign", "direct", "name"}
NameOf(p) == call[p].roles \cup call[p].perms

(* Where the call is, and what it has resolved by then. *)
Placed(p) ==
  LET c == call[p] IN
  /\ tx[p] = IF ~AtRest(p) /\ c.kind \in TxKinds THEN "own" ELSE "none"
  /\ AtRest(p) => c = NoCall
  /\ want[p] \subseteq NameOf(p)
  /\ pc[p] \in {"insertName", "refind"} => c.kind \notin FindOnlyKinds /\ cur[p] \in NameOf(p)
  /\ pc[p] = "grant"  => c.kind \in {"revokePermissionFromRole", "deleteRole",
                                    "syncRolePermissions"}
  /\ pc[p] = "assign" => c.kind \in {"removeRole", "setSubjectRoles", "removeSubject",
                                    "deleteRole"}
  /\ pc[p] = "direct" => c.kind \in {"removeSubject", "revokeSubjectPermission"}
  /\ pc[p] = "name"   => c.kind = "deleteRole"
  /\ pc[p] \in Deleting \cup {"insert"} => /\ \A n \in NameOf(p) : ids[p][n] \in Id
                                           /\ todo[p] \subseteq Inserts(p)

Asked(p, r) ==
  /\ r.tab = "grant"  => call[p].kind \in {"deleteRole", "syncRolePermissions"}
                         /\ r.role \in RoleIds(p)
  /\ r.tab = "assign" => DoomedAssign(p, r)
  /\ r.tab = "direct" => call[p].kind = "removeSubject" /\ r.subj = call[p].subj
  /\ r.tab = "name"   => call[p].kind = "deleteRole" /\ r.id \in RoleIds(p)

Holds(p) ==
  /\ \A r \in ins[p] : IF r.tab = "name"
                         THEN r.name \in NameOf(p) /\ call[p].kind \notin FindOnlyKinds
                         ELSE pc[p] = "insert" /\ r \in Inserts(p)
  /\ \A r \in del[p] : pc[p] \in Deleting \cup {"insert"} /\ Asked(p, r)

(* A role that deleteRole has deleted, and that is still committed, goes    *)
(* with its commit.                                                         *)
Cleared(p) ==
  call[p].kind = "deleteRole" /\ pc[p] = "insert" =>
    \A n \in call[p].roles : IsId(db, n, ids[p][n]) => IsId(del[p], n, ids[p][n])

CommitInv == OneMeaning /\ \A p \in Proc : Placed(p) /\ Holds(p) /\ Cleared(p)
ScopeInv == NamesInv /\ SecretsInv /\ CommitInv

LEMMA ScopeTyped ==
  ASSUME ScopeInv
  PROVE  /\ LocalTyped /\ DbTyped /\ TypeInv /\ BirthInv /\ KeysInv /\ CommitInv
         /\ \A p \in Proc : Placed(p) /\ Holds(p) /\ Cleared(p)
BY TypeOKSplit DEF ScopeInv, NamesInv, BirthInv, TypeInv, CommitInv

-----------------------------------------------------------------------------
(* What a step of p leaves alone. *)

Aside(q) ==
  /\ pc'[q] = pc[q] /\ call'[q] = call[q] /\ want'[q] = want[q] /\ cur'[q] = cur[q]
  /\ ids'[q] = ids[q] /\ todo'[q] = todo[q]
  /\ tx'[q] = tx[q] /\ ins'[q] = ins[q] /\ del'[q] = del[q] /\ snap'[q] = snap[q]

Acts(p) == \/ \E c \in Calls : Start(p, c)
           \/ Step(p) \/ Fail(p) \/ HostBegin(p) \/ HostEnd(p)

LEMMA WriteAside ==
  ASSUME DbTyped, NEW p \in Proc, NEW add, NEW drop, Write(p, add, drop)
  PROVE  \A q \in Proc \ {p} : /\ tx'[q] = tx[q] /\ snap'[q] = snap[q]
                               /\ ins'[q] = ins[q] /\ del'[q] = del[q]
BY DEF DbTyped, Write

LEMMA EndAside ==
  ASSUME DbTyped, NEW p \in Proc, Commit(p) \/ Rollback(p)
  PROVE  /\ \A q \in Proc \ {p} : /\ tx'[q] = tx[q] /\ snap'[q] = snap[q]
                                  /\ ins'[q] = ins[q] /\ del'[q] = del[q]
         /\ tx'[p] = "none" /\ ins'[p] = {} /\ del'[p] = {} /\ snap'[p] = {}
         /\ db' \in {db, Current(p)}
BY DEF DbTyped, Commit, Rollback, CloseTx

LEMMA FinishedAside ==
  ASSUME LocalTyped, NEW p \in Proc, NEW l \in {"idle", "failed"}, Goto(p, l), Finished(p)
  PROVE  /\ \A q \in Proc \ {p} :
              /\ pc'[q] = pc[q] /\ call'[q] = call[q] /\ want'[q] = want[q]
              /\ cur'[q] = cur[q] /\ ids'[q] = ids[q] /\ todo'[q] = todo[q]
         /\ pc'[p] = l /\ call'[p] = NoCall /\ want'[p] = {} /\ todo'[p] = {}
         /\ \A n \in Name : ids'[p][n] = NoId
BY DEF LocalTyped, Goto, Finished

LEMMA OthersAside ==
  ASSUME LocalTyped, DbTyped, NEW p \in Proc, Acts(p)
  PROVE  \A q \in Proc \ {p} : Aside(q)
<1>1. ASSUME NEW c \in Calls, Start(p, c) PROVE \A q \in Proc \ {p} : Aside(q)
  BY <1>1 DEF LocalTyped, DbTyped, Start, Goto, BeginTx, txn, Aside
<1>2. ASSUME NEW n \in Name, Find(p, n) PROVE \A q \in Proc \ {p} : Aside(q)
  BY <1>2 DEF LocalTyped, Find, SetId, Resolve, Goto, txn, Aside
<1>3. CASE InsertName(p)
  <2>1. PICK i \in Fresh : InsertIgnore(p, Named(i, cur[p])) /\ SetId(p, cur[p], i)
    BY <1>3 DEF InsertName
  <2>2. \A q \in Proc \ {p} : /\ tx'[q] = tx[q] /\ snap'[q] = snap[q]
                              /\ ins'[q] = ins[q] /\ del'[q] = del[q]
    BY <2>1, WriteAside DEF InsertIgnore
  <2> QED
    BY <1>3, <2>1, <2>2 DEF LocalTyped, InsertName, SetId, Goto, Aside
<1>4. CASE Refind(p)
  BY <1>4 DEF LocalTyped, Refind, SetId, Resolve, Goto, txn, Aside
<1>5. CASE Dispatch(p)
  BY <1>5 DEF LocalTyped, Dispatch, Goto, txn, Aside
<1>6. CASE DeleteRows(p)
  BY <1>6, WriteAside DEF LocalTyped, DeleteRows, Goto, Aside
<1>7. ASSUME NEW r \in todo[p], InsertRow(p, r) PROVE \A q \in Proc \ {p} : Aside(q)
  <2>1. \A q \in Proc \ {p} : /\ tx'[q] = tx[q] /\ snap'[q] = snap[q]
                              /\ ins'[q] = ins[q] /\ del'[q] = del[q]
    BY <1>7, WriteAside DEF InsertRow, InsertIgnore
  <2> QED
    BY <1>7, <2>1 DEF LocalTyped, InsertRow, Aside
<1>8. CASE Return(p)
  <2>1. \A q \in Proc \ {p} : /\ tx'[q] = tx[q] /\ snap'[q] = snap[q]
                              /\ ins'[q] = ins[q] /\ del'[q] = del[q]
    BY <1>8, EndAside DEF Return, txn
  <2> QED
    BY <1>8, <2>1, FinishedAside DEF Return, Aside
<1>9. CASE Fail(p)
  BY <1>9, EndAside, FinishedAside DEF Fail, Aside
<1>10. CASE HostBegin(p)
  BY <1>10 DEF DbTyped, HostBegin, BeginTx, local, Aside
<1>11. CASE HostEnd(p)
  BY <1>11, EndAside DEF HostEnd, local, Aside
<1> QED
  BY <1>1, <1>2, <1>3, <1>4, <1>5, <1>6, <1>7, <1>8, <1>9, <1>10, <1>11 DEF Acts, Step

-----------------------------------------------------------------------------
(* An id keeps its one meaning: a step spreads what is known, or adds one   *)
(* pair of a new id and the name it is made for.                            *)

(* What p's step leaves p, and the tables, knowing. *)
Knows(p, i, n) == \/ IsId(db, n, i) \/ IsId(ins[p], n, i) \/ IsId(snap[p], n, i)
                  \/ ids[p][n] = i

LEMMA MeaningKept ==
  ASSUME OneMeaning, NEW p \in Proc, \A q \in Proc \ {p} : Aside(q),
         \A i \in Id : \A n \in Name : Knows(p, i, n)' => Stands(i, n)
  PROVE  OneMeaning'
<1>1. \A i \in Id : \A n \in Name : Stands(i, n)' => Stands(i, n)
  BY DEF Stands, Knows, Aside
<1> QED
  BY <1>1 DEF OneMeaning

LEMMA MeaningMade ==
  ASSUME OneMeaning, NEW p \in Proc, \A q \in Proc \ {p} : Aside(q),
         NEW j, NEW m \in Name, \A n \in Name : ~Stands(j, n),
         \A i \in Id : \A n \in Name : Knows(p, i, n)' => Stands(i, n) \/ (i = j /\ n = m)
  PROVE  OneMeaning'
<1>1. \A i \in Id : \A n \in Name : Stands(i, n)' => Stands(i, n) \/ (i = j /\ n = m)
  BY DEF Stands, Knows, Aside
<1> QED
  BY <1>1 DEF OneMeaning

(* What p reads stands, and what it knows. *)
LEMMA ReadStands ==
  ASSUME DbTyped, NEW p \in Proc
  PROVE  /\ \A n, i : IsId(View(p), n, i) \/ IsId(Current(p), n, i) => Stands(i, n)
         /\ \A n \in Name : \A i \in Ids(View(p), {n}) : Stands(i, n) /\ i \in Id
         /\ \A n, i : Knows(p, i, n) => Stands(i, n)
<1>1. \A n, i : IsId(View(p), n, i) \/ IsId(Current(p), n, i) => Stands(i, n)
  BY DEF View, Current, IsId, Stands
<1>2. View(p) \in SUBSET Row /\ \A N : Ids(View(p), N) \subseteq Id
  BY ReadsTyped
<1>3. \A n \in Name : \A i \in Ids(View(p), {n}) : Stands(i, n) /\ i \in Id
  BY <1>1, <1>2, IdsOfOne
<1> QED
  BY <1>1, <1>3 DEF Knows, Stands

LEMMA FreshStandsForNone ==
  ASSUME NEW j \in Fresh, DbTyped
  PROVE  j \in Id /\ \A n \in Name : ~Stands(j, n)
<1>1. j \in Id /\ j \notin RowIds(db) /\ \A q \in Proc : j \notin IdsKnown(q)
  BY FreshUnseen
<1>2. \A D : \A n : IsId(D, n, j) => j \in RowIds(D)
  <2> SUFFICES ASSUME NEW D, NEW n, IsId(D, n, j) PROVE j \in RowIds(D)
    OBVIOUS
  <2>1. j \in IdsIn(Named(j, n))
    BY DEF IdsIn, Named
  <2> QED
    BY <1>1, <2>1 DEF RowIds, IsId
<1>3. \A q \in Proc : j \notin RowIds(ins[q]) /\ j \notin RowIds(snap[q])
                      /\ \A n \in Name : ids[q][n] # j
  BY <1>1 DEF IdsKnown, RowIds
<1> QED
  BY <1>1, <1>2, <1>3 DEF Stands

(* A write of rows whose names, if any, p has made or knows. *)
LEMMA WriteKnows ==
  ASSUME DbTyped, NEW p \in Proc, NEW add, NEW drop, Write(p, add, drop)
  PROVE  \A n, i : \/ IsId(db', n, i) \/ IsId(ins'[p], n, i) \/ IsId(snap'[p], n, i)
                   => IsId(db, n, i) \/ IsId(ins[p], n, i) \/ IsId(snap[p], n, i) \/ IsId(add, n, i)
BY DEF DbTyped, Write, IsId

LEMMA MeaningStep ==
  ASSUME ScopeInv, NEW p \in Proc, Acts(p)
  PROVE  OneMeaning'
<1>1. LocalTyped /\ DbTyped /\ TypeInv /\ SecretsInv /\ OneMeaning
  BY ScopeTyped DEF ScopeInv, CommitInv
<1>2. \A q \in Proc \ {p} : Aside(q)
  BY <1>1, OthersAside
<1>3. /\ \A n \in Name : \A i \in Ids(View(p), {n}) : Stands(i, n) /\ i \in Id
      /\ \A n, i : Knows(p, i, n) => Stands(i, n)
      /\ \A n, i : IsId(Current(p), n, i) => Stands(i, n)
  BY <1>1, ReadStands
<1>4. ASSUME NEW c \in Calls, Start(p, c) PROVE OneMeaning'
  <2>1. \A i \in Id : \A n \in Name : Knows(p, i, n)' => Knows(p, i, n)
    BY <1>1, <1>4 DEF Start, BeginTx, txn, Knows, IsId, DbTyped
  <2> QED
    BY <1>1, <1>2, <1>3, <2>1, MeaningKept
<1>5. ASSUME NEW m \in Name, UNCHANGED <<db, txn>>,
             UNCHANGED ids \/ \E i \in Ids(View(p), {m}) : SetId(p, m, i)
      PROVE  OneMeaning'
  <2>1. CASE UNCHANGED ids
    <3>1. \A i \in Id : \A n \in Name : Knows(p, i, n)' => Knows(p, i, n)
      BY <1>5, <2>1 DEF Knows, txn
    <3> QED
      BY <1>1, <1>2, <1>3, <3>1, MeaningKept
  <2>2. ASSUME NEW j \in Ids(View(p), {m}), SetId(p, m, j) PROVE OneMeaning'
    <3>1. \A i \in Id : \A n \in Name : Knows(p, i, n)' => Knows(p, i, n) \/ (i = j /\ n = m)
      BY <1>1, <1>5, <2>2 DEF Knows, txn, SetId, LocalTyped
    <3> QED
      BY <1>1, <1>2, <1>3, <3>1, MeaningKept
  <2> QED
    BY <1>5, <2>1, <2>2
<1>6. CASE InsertName(p)
  <2>1. PICK j \in Fresh : InsertIgnore(p, Named(j, cur[p])) /\ SetId(p, cur[p], j)
    BY <1>6 DEF InsertName
  <2>2. j \in Id /\ \A n \in Name : ~Stands(j, n)
    BY <1>1, FreshStandsForNone
  <2>3. cur[p] \in Name
    BY <1>1, <1>6 DEF TypeInv, CurOK, InsertName
  <2> DEFINE add == IF \E x \in Current(p) : SameKey(Named(j, cur[p]), x) THEN {}
                    ELSE {Named(j, cur[p])}
  <2>4. Write(p, add, {}) /\ add \subseteq {Named(j, cur[p])}
    BY <2>1 DEF InsertIgnore
  <2> HIDE DEF add
  <2>5. \A n, i : IsId(add, n, i) => i = j /\ n = cur[p]
    BY <2>4, RowFields DEF IsId
  <2>6. \A i \in Id : \A n \in Name :
          Knows(p, i, n)' => Knows(p, i, n) \/ (i = j /\ n = cur[p])
    <3>1. \A n \in Name : ids'[p][n] = ids[p][n] \/ (n = cur[p] /\ ids'[p][n] = j)
      BY <1>1, <2>1 DEF SetId, LocalTyped
    <3> QED
      BY <1>1, <2>4, <2>5, <3>1, WriteKnows DEF Knows
  <2> QED
    BY <1>1, <1>2, <1>3, <2>2, <2>3, <2>6, MeaningMade
<1>7. ASSUME NEW add, NEW drop, Write(p, add, drop), UNCHANGED ids, \A n, i : ~IsId(add, n, i)
      PROVE  OneMeaning'
  <2>1. \A i \in Id : \A n \in Name : Knows(p, i, n)' => Knows(p, i, n)
    BY <1>1, <1>7, WriteKnows DEF Knows
  <2> QED
    BY <1>1, <1>2, <1>3, <2>1, MeaningKept
<1>8. ASSUME Commit(p) \/ Rollback(p) \/ UNCHANGED <<db, txn>>,
             \A n \in Name : ids'[p][n] \in {NoId, ids[p][n]}
      PROVE  OneMeaning'
  <2>1. \A i \in Id : \A n \in Name :
          Knows(p, i, n)' => Knows(p, i, n) \/ IsId(Current(p), n, i)
    <3>1. \A i \in Id : i # NoId
      BY DEF Id, NoId
    <3>2. CASE UNCHANGED <<db, txn>>
      BY <1>8, <3>1, <3>2 DEF Knows, txn
    <3>3. CASE Commit(p) \/ Rollback(p)
      <4>1. ins'[p] = {} /\ snap'[p] = {} /\ db' \in {db, Current(p)}
        BY <1>1, <3>3, EndAside
      <4> QED
        BY <1>8, <3>1, <4>1 DEF Knows, IsId
    <3> QED
      BY <1>8, <3>2, <3>3
  <2> QED
    BY <1>1, <1>2, <1>3, <2>1, MeaningKept
<1>9. ASSUME Step(p) PROVE OneMeaning'
  <2>1. CASE \E n \in Name : Find(p, n)
    BY <2>1, <1>5 DEF Find
  <2>2. CASE Refind(p)
    <3>1. cur[p] \in Name
      BY <1>1, <2>2 DEF TypeInv, CurOK, Refind
    <3> QED
      BY <2>2, <3>1, <1>5 DEF Refind
  <2>3. CASE Dispatch(p)
    <3>1. UNCHANGED <<db, txn, ids>>
      BY <2>3 DEF Dispatch
    <3> QED
      BY <3>1, <1>8
  <2>4. CASE DeleteRows(p)
    BY <2>4, <1>7 DEF DeleteRows, IsId
  <2>5. ASSUME NEW r \in todo[p], InsertRow(p, r) PROVE OneMeaning'
    <3> DEFINE add == IF \E x \in Current(p) : SameKey(r, x) THEN {} ELSE {r}
    <3>1. Write(p, add, {}) /\ add \subseteq {r} /\ UNCHANGED ids /\ r.tab # "name"
      BY <1>1, <2>5 DEF InsertRow, InsertIgnore, SecretsInv
    <3> HIDE DEF add
    <3>2. \A n, i : ~IsId(add, n, i)
      BY <3>1, RowFields DEF IsId
    <3> QED
      BY <3>1, <3>2, <1>7
  <2>6. CASE Return(p)
    <3>1. \A n \in Name : ids'[p][n] = NoId
      BY <1>1, <2>6, FinishedAside DEF Return
    <3> QED
      BY <2>6, <3>1, <1>8 DEF Return
  <2> QED
    BY <1>6, <1>9, <2>1, <2>2, <2>3, <2>4, <2>5, <2>6 DEF Step
<1>10. CASE Fail(p)
  <2>1. \A n \in Name : ids'[p][n] = NoId
    BY <1>1, <1>10, FinishedAside DEF Fail
  <2> QED
    BY <1>10, <2>1, <1>8 DEF Fail
<1>11. CASE HostBegin(p)
  <2>1. \A i \in Id : \A n \in Name : Knows(p, i, n)' => Knows(p, i, n)
    BY <1>1, <1>11 DEF HostBegin, BeginTx, local, Knows, IsId, DbTyped
  <2> QED
    BY <1>1, <1>2, <1>3, <2>1, MeaningKept
<1>12. CASE HostEnd(p)
  BY <1>8, <1>12 DEF HostEnd, local
<1> QED
  BY <1>4, <1>9, <1>10, <1>11, <1>12 DEF Acts

-----------------------------------------------------------------------------
(* What a transaction holds is what its call asked for, step by step.       *)

(* A name that a step of p commits has an id no other caller has seen. *)
LEMMA NewNamesUnknown ==
  ASSUME ScopeInv, NEW p \in Proc, Acts(p), NEW r \in db' \ db, r.tab = "name",
         NEW q \in Proc \ {p}
  PROVE  r.id \notin IdsKnown(q)
<1>1. LocalTyped /\ DbTyped /\ SecretsInv
  BY ScopeTyped DEF ScopeInv
<1>2. CASE InsertName(p)
  <2>1. PICK i \in Fresh : InsertIgnore(p, Named(i, cur[p]))
    BY <1>2 DEF InsertName
  <2>2. r = Named(i, cur[p])
    BY <1>1, <2>1 DEF InsertIgnore, Write
  <2> QED
    BY <2>1, <2>2, FreshUnseen, RowFields
<1>3. CASE db' \in {db, Current(p)}
  <2>1. r \in ins[p] /\ r \in Row
    BY <1>1, <1>3 DEF Current, DbTyped
  <2>2. r.id \in Secrets(p)
    BY <2>1, NameRowsHaveIds DEF Secrets, NameIds
  <2> QED
    BY <1>1, <2>2 DEF SecretsInv
<1>4. ASSUME NEW x \in todo[p], InsertRow(p, x) PROVE FALSE
  <2>1. r = x
    BY <1>4 DEF InsertRow, InsertIgnore, Write
  <2> QED
    BY <1>1, <2>1 DEF SecretsInv
<1>5. CASE DeleteRows(p)
  BY <1>5 DEF DeleteRows, Write
<1>6. CASE Return(p) \/ Fail(p) \/ HostEnd(p)
  BY <1>3, <1>6 DEF Return, Fail, HostEnd, Commit, Rollback
<1>7. CASE \/ \E c \in Calls : Start(p, c)
           \/ \E n \in Name : Find(p, n)
           \/ Refind(p) \/ Dispatch(p) \/ HostBegin(p)
  BY <1>7 DEF Start, BeginTx, Find, Refind, Dispatch, HostBegin
<1> QED
  BY <1>2, <1>4, <1>5, <1>6, <1>7 DEF Acts, Step

LEMMA OthersKeep ==
  ASSUME ScopeInv, NEW p \in Proc, Acts(p), NEW q \in Proc \ {p}
  PROVE  Placed(q)' /\ Holds(q)' /\ Cleared(q)'
<1>1. LocalTyped /\ DbTyped /\ Placed(q) /\ Holds(q) /\ Cleared(q)
  BY ScopeTyped
<1>2. Aside(q)
  BY <1>1, OthersAside
<1>3. /\ NameOf(q)' = NameOf(q) /\ RoleIds(q)' = RoleIds(q) /\ PermIds(q)' = PermIds(q)
      /\ AtRest(q)' = AtRest(q)
  BY <1>2 DEF Aside, NameOf, RoleIds, PermIds, AtRest
<1>4. Inserts(q)' = Inserts(q) /\ \A r : DoomedAssign(q, r)' = DoomedAssign(q, r)
  BY <1>2, <1>3 DEF Aside, Inserts, DoomedAssign, Unlisted
<1> HIDE DEF NameOf, RoleIds, PermIds, AtRest, Inserts, DoomedAssign
<1>5. Placed(q)'
  BY <1>1, <1>2, <1>3, <1>4 DEF Placed, Aside
<1>6. \A r : Asked(q, r)' = Asked(q, r)
  BY <1>2, <1>3, <1>4 DEF Asked, Aside
<1>7. Holds(q)'
  BY <1>1, <1>2, <1>3, <1>4, <1>6 DEF Holds, Aside
<1>8. Cleared(q)'
  <2> SUFFICES ASSUME call[q].kind = "deleteRole", pc[q] = "insert", NEW n \in call[q].roles,
                      IsId(db', n, ids[q][n])
               PROVE  IsId(del[q], n, ids[q][n])
    BY <1>2 DEF Cleared, Aside
  <2>1. n \in Name
    BY <1>1 DEF LocalTyped, CallType, Name
  <2>2. ids[q][n] \in Id
    <3>1. n \in NameOf(q)
      BY DEF NameOf
    <3> QED
      BY <1>1, <3>1 DEF Placed
  <2>3. ids[q][n] \in IdsKnown(q)
    BY <2>1, <2>2 DEF IdsKnown
  <2>4. Named(ids[q][n], n) \in db
    BY <2>3, NewNamesUnknown, RowFields DEF IsId
  <2> QED
    BY <1>1, <2>4 DEF Cleared, IsId
<1> QED
  BY <1>5, <1>7, <1>8

(* A step that writes nothing leaves what p holds, which is at most names    *)
(* while the call resolves them.                                            *)
LEMMA QuietHolds ==
  ASSUME ScopeInv, NEW p \in Proc, pc[p] \notin Deleting \cup {"insert"},
         ins'[p] = ins[p], del'[p] = del[p], call'[p] = call[p]
  PROVE  Holds(p)'
<1>1. Holds(p)
  BY ScopeTyped
<1>2. NameOf(p)' = NameOf(p)
  BY DEF NameOf
<1>3. del[p] = {} /\ \A r \in ins[p] : /\ r.tab = "name" /\ r.name \in NameOf(p)
                                       /\ call[p].kind \notin FindOnlyKinds
  BY <1>1 DEF Holds
<1> HIDE DEF NameOf
<1> QED
  BY <1>2, <1>3 DEF Holds

LEMMA EmptyHolds ==
  ASSUME NEW p \in Proc, ins'[p] = {}, del'[p] = {}
  PROVE  Holds(p)'
BY DEF Holds

LEMMA StartOwn ==
  ASSUME ScopeInv, OwnTransactions, NEW p \in Proc, NEW c \in Calls, Start(p, c)
  PROVE  Placed(p)' /\ Holds(p)' /\ Cleared(p)'
<1>1. LocalTyped /\ DbTyped /\ KeysInv /\ Placed(p)
  BY ScopeTyped
<1>2. pc'[p] = "find" /\ call'[p] = c /\ want'[p] = c.roles \cup c.perms
  BY <1>1 DEF LocalTyped, Start, Goto
<1>3. tx[p] = "none" /\ ins[p] = {} /\ del[p] = {}
  BY <1>1 DEF Start, Placed, KeysInv
<1>4. tx'[p] = IF c.kind \in TxKinds THEN "own" ELSE "none"
  BY <1>1, <1>3 DEF Start, OwnTransactions, BeginTx, txn, DbTyped
<1>5. ins'[p] = {} /\ del'[p] = {}
  BY <1>3 DEF Start, BeginTx, txn
<1>6. Placed(p)'
  BY <1>2, <1>4 DEF Placed, AtRest, NameOf, Deleting
<1> QED
  BY <1>2, <1>5, <1>6, EmptyHolds DEF Cleared

LEMMA FindOwn ==
  ASSUME ScopeInv, NEW p \in Proc, NEW n \in Name, Find(p, n)
  PROVE  Placed(p)' /\ Holds(p)' /\ Cleared(p)'
<1>1. LocalTyped /\ Placed(p) /\ UNCHANGED <<call, todo, txn>> /\ pc[p] = "find"
  BY ScopeTyped DEF Find
<1>2. n \in want[p]
  BY DEF Find, NextNames
<1>3. want'[p] \subseteq want[p]
  BY <1>1 DEF Find, Resolve, LocalTyped
<1>4. \/ pc'[p] = "find"
      \/ pc'[p] = "insertName" /\ call[p].kind \notin FindOnlyKinds /\ cur'[p] = n
  BY <1>1 DEF Find, Goto, LocalTyped
<1>5. Placed(p)'
  BY <1>1, <1>2, <1>3, <1>4 DEF Placed, AtRest, NameOf, Deleting, txn
<1>6. Holds(p)'
  BY <1>1, QuietHolds DEF Deleting, txn
<1> QED
  BY <1>4, <1>5, <1>6 DEF Cleared

LEMMA InsertNameOwn ==
  ASSUME ScopeInv, NEW p \in Proc, InsertName(p)
  PROVE  Placed(p)' /\ Holds(p)' /\ Cleared(p)'
<1>1. LocalTyped /\ DbTyped /\ Placed(p) /\ Holds(p) /\ pc[p] = "insertName"
  BY ScopeTyped DEF InsertName
<1>2. pc'[p] = "refind" /\ UNCHANGED <<call, want, cur, todo>>
  BY <1>1 DEF InsertName, Goto, LocalTyped
<1>3. PICK j \in Fresh : InsertIgnore(p, Named(j, cur[p]))
  BY DEF InsertName
<1> DEFINE add == IF \E x \in Current(p) : SameKey(Named(j, cur[p]), x) THEN {}
                  ELSE {Named(j, cur[p])}
<1>4. Write(p, add, {}) /\ add \subseteq {Named(j, cur[p])}
  BY <1>3 DEF InsertIgnore
<1> HIDE DEF add
<1>5. tx' = tx /\ ins'[p] \subseteq ins[p] \cup add /\ del'[p] \subseteq del[p]
  BY <1>1, <1>4 DEF Write, DbTyped
<1>6. Placed(p)'
  BY <1>1, <1>2, <1>5 DEF Placed, AtRest, NameOf, Deleting
<1>7. Holds(p)'
  <2>1. del[p] = {} /\ \A r \in ins[p] : /\ r.tab = "name" /\ r.name \in NameOf(p)
                                         /\ call[p].kind \notin FindOnlyKinds
    BY <1>1 DEF Holds, Deleting
  <2>2. cur[p] \in NameOf(p) /\ call[p].kind \notin FindOnlyKinds
    BY <1>1 DEF Placed
  <2>3. \A r \in ins'[p] : r.tab = "name" /\ r.name \in NameOf(p)
    BY <1>4, <1>5, <2>1, <2>2, RowFields
  <2>4. NameOf(p)' = NameOf(p)
    BY <1>2 DEF NameOf
  <2> HIDE DEF NameOf
  <2> QED
    BY <1>2, <1>5, <2>1, <2>2, <2>3, <2>4 DEF Holds
<1> QED
  BY <1>2, <1>6, <1>7 DEF Cleared

LEMMA RefindOwn ==
  ASSUME ScopeInv, NEW p \in Proc, Refind(p)
  PROVE  Placed(p)' /\ Holds(p)' /\ Cleared(p)'
<1>1. LocalTyped /\ Placed(p) /\ UNCHANGED <<call, todo, txn>> /\ pc[p] = "refind"
  BY ScopeTyped DEF Refind
<1>2. pc'[p] = "find" /\ want'[p] \subseteq want[p]
  BY <1>1 DEF Refind, Resolve, Goto, LocalTyped
<1>3. Placed(p)'
  BY <1>1, <1>2 DEF Placed, AtRest, NameOf, Deleting, txn
<1>4. Holds(p)'
  BY <1>1, QuietHolds DEF Deleting, txn
<1> QED
  BY <1>2, <1>3, <1>4 DEF Cleared

(* By the time a call writes, it has an id for each of its names. *)
LEMMA DispatchOwn ==
  ASSUME ScopeInv, NEW p \in Proc, Dispatch(p)
  PROVE  Placed(p)' /\ Holds(p)' /\ Cleared(p)'
<1>1. /\ LocalTyped /\ Placed(p) /\ TypeInv /\ pc[p] = "find" /\ want[p] = {}
      /\ UNCHANGED <<call, want, ids, txn>>
  BY ScopeTyped DEF Dispatch
<1> DEFINE c == call[p]
<1>2. c \in Calls /\ c.kind \in AllKinds
  <2>1. c \in Calls
    BY <1>1 DEF TypeInv, CallsOK, AtRest
  <2> QED
    BY <2>1, CallShapes
<1>3. \/ pc'[p] = "return"
      \/ /\ pc'[p] = FirstWrite(c.kind) /\ todo'[p] = Inserts(p)
         /\ \A n \in NameOf(p) : ids[p][n] \in Id
  <2>1. \A n \in NameOf(p) : ids[p][n] \in Id \cup {NoId}
    BY <1>1 DEF LocalTyped, CallType, NameOf, Name
  <2>2. c.kind \notin FindOnlyKinds => \A n \in NameOf(p) : ids[p][n] \in Id
    BY <1>1 DEF TypeInv, ResolvedOK, Creating, AtRest, NameOf
  <2> QED
    BY <1>1, <2>1, <2>2 DEF Dispatch, Goto, LocalTyped, NameOf
<1>4. CASE pc'[p] = "return"
  BY <1>1, <1>4, QuietHolds DEF Placed, AtRest, NameOf, Deleting, txn, Cleared
<1>5. CASE pc'[p] # "return"
  <2>1. Inserts(p)' = Inserts(p) /\ NameOf(p)' = NameOf(p)
    BY <1>1 DEF Inserts, RoleIds, PermIds, NameOf
  <2>2. pc'[p] = FirstWrite(c.kind) /\ pc'[p] \in Deleting \cup {"insert"}
    BY <1>3, <1>5 DEF FirstWrite, Deleting
  <2>3. tx[p] = IF c.kind \in TxKinds THEN "own" ELSE "none"
    BY <1>1 DEF Placed, AtRest
  <2>4. /\ pc'[p] = "grant"  => c.kind \in {"revokePermissionFromRole", "deleteRole",
                                            "syncRolePermissions"}
        /\ pc'[p] = "assign" => c.kind \in {"removeRole", "setSubjectRoles", "removeSubject",
                                            "deleteRole"}
        /\ pc'[p] = "direct" => c.kind \in {"removeSubject", "revokeSubjectPermission"}
        /\ pc'[p] = "name"   => c.kind = "deleteRole"
        /\ pc'[p] = "insert" => c.kind # "deleteRole"
    BY <2>2 DEF FirstWrite
  <2>5. Placed(p)'
    <3> HIDE DEF Inserts, NameOf
    <3> QED
      BY <1>1, <1>3, <1>5, <2>1, <2>2, <2>3, <2>4 DEF Placed, AtRest, Deleting, txn
  <2>6. Holds(p)'
    BY <1>1, QuietHolds DEF Deleting, txn
  <2> QED
    BY <1>1, <2>4, <2>5, <2>6 DEF Cleared
<1> QED
  BY <1>4, <1>5

(* A DELETE in a transaction takes rows of the call's own scope, and the    *)
(* last one of deleteRole the role itself.                                  *)
LEMMA DeleteRowsOwn ==
  ASSUME ScopeInv, NEW p \in Proc, DeleteRows(p)
  PROVE  Placed(p)' /\ Holds(p)' /\ Cleared(p)'
<1>1. /\ LocalTyped /\ DbTyped /\ KeysInv /\ Placed(p) /\ Holds(p) /\ pc[p] \in Deleting
      /\ UNCHANGED <<call, want, cur, ids, todo>>
  BY ScopeTyped DEF DeleteRows, Deleting
<1> DEFINE c == call[p]
<1>2. pc'[p] = NextWrite(c.kind, pc[p])
  BY <1>1 DEF DeleteRows, Goto, LocalTyped
<1>3. Write(p, {}, Doomed(p)) /\ tx' = tx
  BY DEF DeleteRows, Write
<1>4. /\ NameOf(p)' = NameOf(p) /\ RoleIds(p)' = RoleIds(p) /\ Inserts(p)' = Inserts(p)
      /\ \A r : DoomedAssign(p, r)' = DoomedAssign(p, r)
  BY <1>1 DEF NameOf, RoleIds, PermIds, Inserts, DoomedAssign, Unlisted
<1>5. /\ pc'[p] \in {"assign", "direct", "name", "insert"}
      /\ pc'[p] = "assign" => c.kind = "deleteRole"
      /\ pc'[p] = "direct" => c.kind = "removeSubject"
      /\ pc'[p] = "name"   => c.kind = "deleteRole"
      /\ c.kind = "deleteRole" /\ pc'[p] = "insert" => pc[p] \notin {"grant", "assign"}
  BY <1>2 DEF NextWrite
<1>6. Placed(p)'
  <2> HIDE DEF NameOf, RoleIds, Inserts
  <2> QED
    BY <1>1, <1>3, <1>4, <1>5 DEF Placed, AtRest, Deleting
<1>7. \A r \in Doomed(p) : c.kind \in TxKinds => Asked(p, r)
  <2> SUFFICES ASSUME NEW r \in Doomed(p), c.kind \in TxKinds PROVE Asked(p, r)
    OBVIOUS
  <2>1. r.tab = pc[p]
    BY DEF Doomed
  <2>2. CASE pc[p] = "grant"
    <3>1. DoomedGrant(p, r) /\ c.kind \in {"deleteRole", "syncRolePermissions"}
      BY <1>1, <2>1, <2>2 DEF Doomed, Placed, TxKinds
    <3> QED
      BY <2>1, <2>2, <3>1 DEF Asked, DoomedGrant
  <2>3. CASE pc[p] = "assign"
    BY <2>1, <2>3 DEF Asked, Doomed
  <2>4. CASE pc[p] = "direct"
    <3>1. DoomedDirect(p, r) /\ c.kind = "removeSubject"
      BY <1>1, <2>1, <2>4 DEF Doomed, Placed, TxKinds
    <3> QED
      BY <2>1, <2>4, <3>1 DEF Asked, DoomedDirect
  <2>5. CASE pc[p] = "name"
    <3>1. r.id \in RoleIds(p) /\ c.kind = "deleteRole"
      BY <1>1, <2>1, <2>5 DEF Doomed, Placed
    <3> QED
      BY <2>1, <2>5, <3>1 DEF Asked
  <2> QED
    BY <1>1, <2>2, <2>3, <2>4, <2>5 DEF Deleting
<1>8. CASE tx[p] = "none"
  <2>1. ins'[p] = {} /\ del'[p] = {}
    BY <1>1, <1>3, <1>8 DEF Write, KeysInv
  <2>2. c.kind # "deleteRole"
    BY <1>1, <1>8 DEF Placed, AtRest, TxKinds, Deleting
  <2> QED
    BY <1>1, <1>6, <2>1, <2>2, EmptyHolds DEF Cleared
<1>9. CASE tx[p] # "none"
  <2>1. c.kind \in TxKinds
    BY <1>1, <1>9 DEF Placed
  <2>2. /\ db' = db /\ ins'[p] \subseteq ins[p] /\ del'[p] = del[p] \cup (Doomed(p) \cap db)
    BY <1>1, <1>3, <1>9 DEF Write, DbTyped
  <2>3. \A r : Asked(p, r)' = Asked(p, r)
    <3> HIDE DEF RoleIds, DoomedAssign
    <3> QED
      BY <1>1, <1>4 DEF Asked
  <2>4. Holds(p)'
    <3>1. \A r \in ins[p] : /\ r.tab = "name" /\ r.name \in NameOf(p)
                            /\ call[p].kind \notin FindOnlyKinds
      BY <1>1 DEF Holds, Deleting
    <3>2. \A r \in del'[p] : Asked(p, r)
      BY <1>1, <1>7, <2>1, <2>2 DEF Holds
    <3> HIDE DEF NameOf, Asked
    <3> QED
      BY <1>1, <1>4, <1>5, <2>2, <2>3, <3>1, <3>2 DEF Holds, Deleting
  <2>5. Cleared(p)'
    <3> SUFFICES ASSUME c.kind = "deleteRole", pc'[p] = "insert", NEW n \in c.roles,
                        IsId(db, n, ids[p][n])
                 PROVE  IsId(del'[p], n, ids[p][n])
      BY <1>1, <2>2 DEF Cleared
    <3> DEFINE r == Named(ids[p][n], n)
    <3>1. pc[p] = "name"
      BY <1>1, <1>5 DEF Placed, Deleting
    <3>2. r.tab = "name" /\ r.id \in RoleIds(p)
      BY RowFields DEF RoleIds
    <3>3. CASE r \in Current(p)
      <4>1. r \in Doomed(p)
        BY <3>1, <3>2, <3>3 DEF Doomed
      <4> QED
        BY <2>2, <4>1 DEF IsId
    <3>4. CASE r \notin Current(p)
      BY <2>2, <3>4 DEF IsId, Current
    <3> QED
      BY <3>3, <3>4
  <2> QED
    BY <1>6, <2>4, <2>5
<1> QED
  BY <1>8, <1>9

LEMMA InsertRowOwn ==
  ASSUME ScopeInv, NEW p \in Proc, NEW r \in todo[p], InsertRow(p, r)
  PROVE  Placed(p)' /\ Holds(p)' /\ Cleared(p)'
<1>1. /\ LocalTyped /\ DbTyped /\ SecretsInv /\ Placed(p) /\ Holds(p) /\ pc[p] = "insert"
      /\ UNCHANGED <<pc, call, want, cur, ids>>
  BY ScopeTyped DEF InsertRow, ScopeInv
<1>2. todo'[p] \subseteq todo[p]
  BY <1>1 DEF InsertRow, LocalTyped
<1>3. /\ NameOf(p)' = NameOf(p) /\ RoleIds(p)' = RoleIds(p) /\ Inserts(p)' = Inserts(p)
      /\ \A x : DoomedAssign(p, x)' = DoomedAssign(p, x)
  BY <1>1 DEF NameOf, RoleIds, PermIds, Inserts, DoomedAssign, Unlisted
<1>4. r \in Inserts(p) /\ r.tab # "name"
  BY <1>1 DEF Placed, SecretsInv
<1> DEFINE add == IF \E x \in Current(p) : SameKey(r, x) THEN {} ELSE {r}
<1>5. Write(p, add, {}) /\ add \subseteq {r}
  BY DEF InsertRow, InsertIgnore
<1> HIDE DEF add
<1>6. tx' = tx /\ ins'[p] \subseteq ins[p] \cup {r} /\ del'[p] \subseteq del[p]
  BY <1>1, <1>5 DEF Write, DbTyped
<1>7. Placed(p)'
  <2> HIDE DEF NameOf, Inserts
  <2> QED
    BY <1>1, <1>2, <1>3, <1>6 DEF Placed, AtRest
<1>8. Holds(p)'
  <2>1. \A x : Asked(p, x)' = Asked(p, x)
    <3> HIDE DEF RoleIds, DoomedAssign
    <3> QED
      BY <1>1, <1>3 DEF Asked
  <2> HIDE DEF NameOf, Inserts, Asked
  <2> QED
    BY <1>1, <1>3, <1>4, <1>6, <2>1 DEF Holds
<1>9. Cleared(p)'
  <2>1. call[p].kind # "deleteRole"
    BY <1>4 DEF Inserts, RowsToAdd
  <2> QED
    BY <1>1, <2>1 DEF Cleared
<1> QED
  BY <1>7, <1>8, <1>9

LEMMA EndOwn ==
  ASSUME ScopeInv, NEW p \in Proc, Return(p) \/ Fail(p)
  PROVE  Placed(p)' /\ Holds(p)' /\ Cleared(p)'
<1>1. LocalTyped /\ DbTyped /\ KeysInv /\ Placed(p)
  BY ScopeTyped
<1>2. /\ pc'[p] \in {"idle", "failed"} /\ call'[p] = NoCall /\ want'[p] = {}
  BY <1>1, FinishedAside DEF Return, Fail
<1>3. tx'[p] = "none" /\ ins'[p] = {} /\ del'[p] = {}
  <2>1. CASE Commit(p) \/ Rollback(p)
    BY <1>1, <2>1, EndAside
  <2>2. CASE tx[p] # "own" /\ UNCHANGED <<db, txn>>
    <3>1. tx[p] = "none"
      BY <1>1, <2>2 DEF Placed
    <3> QED
      BY <1>1, <2>2, <3>1 DEF KeysInv, txn
  <2> QED
    BY <2>1, <2>2 DEF Return, Fail
<1>4. Placed(p)'
  BY <1>2, <1>3 DEF Placed, AtRest, Deleting
<1>5. Cleared(p)'
  BY <1>2 DEF Cleared
<1> QED
  BY <1>3, <1>4, <1>5, EmptyHolds

LEMMA CommitInvStep ==
  ASSUME ScopeInv, OwnTransactions, NEW p \in Proc, Acts(p)
  PROVE  CommitInv'
<1>1. OneMeaning'
  BY MeaningStep
<1>2. \A q \in Proc \ {p} : Placed(q)' /\ Holds(q)' /\ Cleared(q)'
  BY OthersKeep
<1>3. Placed(p)
  BY ScopeTyped
<1>4. ~HostBegin(p) /\ ~HostEnd(p)
  BY <1>3 DEF HostBegin, HostEnd, OwnTransactions, Placed
<1>5. Placed(p)' /\ Holds(p)' /\ Cleared(p)'
  BY <1>4, StartOwn, FindOwn, InsertNameOwn, RefindOwn, DispatchOwn, DeleteRowsOwn,
     InsertRowOwn, EndOwn DEF Acts, Step
<1> QED
  BY <1>1, <1>2, <1>5 DEF CommitInv

LEMMA ScopeInit == Init => ScopeInv
<1> SUFFICES ASSUME Init PROVE ScopeInv
  OBVIOUS
<1>1. NamesInv
  <2>1. KeysInv
    BY DEF Init, KeysInv, UniqueNames, Current, Held
  <2> QED
    BY <2>1, TypeInit DEF NamesInv
<1>2. SecretsInv
  BY DEF Init, SecretsInv, Secrets, NameIds, RowIds, IdsKnown
<1>3. OneMeaning
  <2>1. \A i \in Id : i # NoId
    BY DEF Id, NoId
  <2> QED
    BY <2>1 DEF Init, OneMeaning, Stands, IsId
<1>4. \A p \in Proc : Placed(p) /\ Holds(p) /\ Cleared(p)
  BY DEF Init, Placed, Holds, Cleared, AtRest, Deleting, NoCall, Call
<1> QED
  BY <1>1, <1>2, <1>3, <1>4 DEF ScopeInv, CommitInv

LEMMA ScopeStep ==
  ASSUME OwnTransactions, ScopeInv, [Next]_vars
  PROVE  ScopeInv'
<1>1. NamesInv' /\ SecretsInv'
  BY KeysStep, BirthStep, TypeStep DEF ScopeInv, NamesInv, BirthInv
<1>2. CASE Next
  <2>1. PICK p \in Proc : Acts(p)
    BY <1>2 DEF Next, Acts
  <2> QED
    BY <1>1, <2>1, CommitInvStep DEF ScopeInv
<1>3. CASE UNCHANGED vars
  <2>1. CommitInv' = CommitInv
    BY <1>3 DEF vars, local, txn, CommitInv, OneMeaning, Stands, Placed, Holds, Cleared,
       Asked, NameOf, RoleIds, PermIds, Inserts, DoomedAssign, Unlisted, AtRest
  <2> QED
    BY <1>1, <2>1 DEF ScopeInv
<1> QED
  BY <1>2, <1>3

-----------------------------------------------------------------------------
(* A step of p, in terms of what stands. *)

LEMMA StepBirths ==
  ASSUME ScopeInv, NEW p \in Proc, Acts(p)
  PROVE  db \in SUBSET Row /\ db' \in SUBSET Row /\ Births(db, db')
<1>1. [Next]_vars
  BY DEF Acts, Next
<1>2. BirthInv /\ BornEmpty /\ TypeInv /\ TypeInv'
  BY <1>1, BirthStep, TypeStep, ScopeTyped
<1>3. db \in SUBSET Row /\ db' \in SUBSET Row
  BY <1>2 DEF TypeInv, TypeOK
<1>4. ASSUME NEW n, NEW i, IsId(db', n, i), ~IsId(db, n, i) PROVE Unseen(db, i)
  <2>1. i \in Id /\ i \notin RowIds(db)
    BY <1>2, <1>3, <1>4, RowFields, NameRowsHaveIds DEF IsId, BornEmpty
  <2> SUFFICES \A r \in db : i \notin IdsIn(r)
    BY DEF Unseen, IdsIn, Granted, Assigned, Direct
  <2> QED
    BY <2>1 DEF RowIds
<1> QED
  BY <1>3, <1>4 DEF Births

(* The ids of p's names mean those names and no other. *)
LEMMA OnlyMeaning ==
  ASSUME ScopeInv, NEW p \in Proc, NEW n \in NameOf(p), ids[p][n] \in Id
  PROVE  /\ n \in Name
         /\ \A m \in Name : IsId(db, m, ids[p][n]) \/ IsId(Current(p), m, ids[p][n]) => m = n
         /\ \A m \in NameOf(p) : ids[p][m] = ids[p][n] => m = n
<1>1. LocalTyped /\ DbTyped /\ OneMeaning
  BY ScopeTyped DEF CommitInv
<1>2. NameOf(p) \subseteq Name
  BY <1>1 DEF LocalTyped, CallType, NameOf, Name
<1>3. Stands(ids[p][n], n)
  BY DEF Stands
<1>4. \A m \in Name : Stands(ids[p][n], m) => m = n
  BY <1>1, <1>2, <1>3 DEF OneMeaning
<1>5. \A m \in Name : IsId(db, m, ids[p][n]) \/ IsId(Current(p), m, ids[p][n])
                      => Stands(ids[p][n], m)
  BY <1>1, ReadStands DEF Stands
<1>6. \A m \in Name : ids[p][m] = ids[p][n] => Stands(ids[p][n], m)
  BY DEF Stands
<1> QED
  BY <1>2, <1>4, <1>5, <1>6

-----------------------------------------------------------------------------
(* The contract, step by step.  Statements outside a transaction first.     *)

(* The contract's words are the store's. *)
LEMMA ScopeWords ==
  /\ ScopedContract!Calls = Calls
  /\ ScopedContract!NoCall = NoCall
  /\ ScopedContract!FindOnlyKinds = FindOnlyKinds
BY DEF ScopedContract!Calls, ScopedContract!AllCalls, ScopedContract!RoleCalls,
       ScopedContract!PairCalls, ScopedContract!DirectCalls, ScopedContract!SyncCalls,
       ScopedContract!CreatePermissionCalls, ScopedContract!AssignCalls,
       ScopedContract!RemoveCalls, ScopedContract!SetCalls, ScopedContract!RemoveSubjectCalls,
       ScopedContract!Call, ScopedContract!NoCall, ScopedContract!FindOnlyKinds,
       Calls, AllCalls, RoleCalls, PairCalls, DirectCalls, CreatePermissionCalls, SyncCalls,
       AssignCalls, RemoveCalls, SetCalls, RemoveSubjectCalls, Call, NoCall, FindOnlyKinds

(* The step shows nothing at the level of names. *)
DataSame == UNCHANGED <<roles, perms, grants, members, direct>>

LEMMA SameData == UNCHANGED db => DataSame
BY DEF DataSame, roles, perms, grants, members, direct

(* A step that shows as one write, as the name a call needs, or as nothing. *)
LEMMA ScopedStep ==
  ASSUME LocalTyped, NEW p \in Proc,
         \/ UNCHANGED call /\ (DataSame \/ ScopedContract!Create(call[p]) \/ ScopedContract!Write(call[p]))
         \/ ScopedContract!Ends(p) /\ (DataSame \/ ScopedContract!Write(call[p]))
  PROVE  ScopedContract!Next \/ UNCHANGED ScopedContract!vars
<1> HIDE DEF roles, perms, grants, members, direct
<1>1. DataSame => UNCHANGED ScopedContract!data
  BY DEF DataSame, ScopedContract!data
<1>2. lost' = lost /\ \A gone : ScopedContract!Loses(gone)
  BY DEF lost, ScopedContract!Loses
<1>3. ScopedContract!Without(call[p], lost[p]) = call[p]
  BY DEF ScopedContract!Without, lost, LocalTyped, CallType
<1>4. ScopedContract!MayFail
  BY DEF ScopedContract!MayFail
<1> HIDE DEF lost
<1>5. CASE UNCHANGED call /\ DataSame
  BY <1>1, <1>2, <1>5 DEF ScopedContract!vars
<1>6. CASE UNCHANGED call /\ ScopedContract!Create(call[p])
  BY <1>2, <1>6 DEF ScopedContract!Next
<1>7. CASE (UNCHANGED call \/ ScopedContract!Ends(p)) /\ ScopedContract!Write(call[p])
  BY <1>2, <1>3, <1>4, <1>7 DEF ScopedContract!Next
<1>8. CASE ScopedContract!Ends(p) /\ DataSame
  BY <1>1, <1>2, <1>4, <1>8 DEF ScopedContract!Next
<1> QED
  BY <1>5, <1>6, <1>7, <1>8

LEMMA ScopedBegin ==
  ASSUME NEW p \in Proc, ScopedContract!Begin(p)
  PROVE  ScopedContract!Next
<1>1. ScopedContract!Loses({})
  BY DEF lost, ScopedContract!Loses
<1> HIDE DEF roles, perms, grants, members, direct, lost
<1> QED
  BY <1>1 DEF ScopedContract!Next

LEMMA InsertNameContract ==
  ASSUME ScopeInv, NEW p \in Proc, InsertName(p)
  PROVE  UNCHANGED call /\ (DataSame \/ ScopedContract!Create(call[p]))
<1>1. /\ DbTyped /\ Placed(p) /\ TypeInv /\ pc[p] = "insertName" /\ UNCHANGED call
      /\ \E i \in Fresh : InsertIgnore(p, Named(i, cur[p]))
  BY ScopeTyped DEF InsertName
<1>2. db \in SUBSET Row
  BY <1>1 DEF DbTyped
<1>3. CASE db' = db
  BY <1>1, <1>3, SameData
<1>4. CASE db' # db
  <2> DEFINE n == cur[p]
  <2>1. PICK i \in Fresh : db' = db \cup {Named(i, n)}
    BY <1>1, <1>4 DEF InsertIgnore, Write
  <2>2. n \in call[p].roles \cup call[p].perms /\ call[p].kind \notin FindOnlyKinds
    BY <1>1 DEF Placed, NameOf
  <2>3. i \in Id /\ i \notin RowIds(db) /\ n \in Name
    BY <1>1, FreshUnseen DEF TypeInv, CurOK
  <2>4. Unseen(db, i)
    <3>1. \A r \in db : i \notin IdsIn(r)
      BY <2>3 DEF RowIds
    <3> QED
      BY <3>1, RowFields DEF Unseen, IdsIn
  <2> HIDE DEF n
  <2>5. /\ \A N : NamesIn(db', N) = NamesIn(db, N) \cup ({n} \cap N)
        /\ Grants(db') = Grants(db) /\ Memberships(db') = Memberships(db)
        /\ Directs(db') = Directs(db)
    BY <1>2, <2>1, <2>3, <2>4, NameAdded
  <2>6. /\ roles' = roles \cup ({n} \cap Role) /\ perms' = perms \cup ({n} \cap Perm)
        /\ grants' = grants /\ members' = members /\ direct' = direct
    BY <2>5 DEF roles, perms, grants, members, direct
  <2>7. ScopedContract!Create(call[p])
    <3> HIDE DEF roles, perms, grants, members, direct
    <3> QED
      BY <2>2, <2>6, ScopeWords DEF ScopedContract!Create
  <2> QED
    BY <1>1, <2>7
<1> QED
  BY <1>3, <1>4

LEMMA OneId ==
  ASSUME ScopeInv
  PROVE  \A n, i, j : IsId(db, n, i) /\ IsId(db, n, j) => i = j
<1>1. UniqueNames(db)
  BY ScopeTyped DEF KeysInv
<1> QED
  BY <1>1, RowFields DEF UniqueNames, IsId

(* A DELETE outside a transaction: of a call that takes one thing away. *)
LEMMA OutsideDelete ==
  ASSUME ScopeInv, NEW p \in Proc, DeleteRows(p), tx[p] = "none"
  PROVE  /\ db \in SUBSET Row /\ db' \in SUBSET Row /\ Births(db, db')
         /\ db' = db \ Doomed(p) /\ Doomed(p) \subseteq db /\ Current(p) = db
         /\ call[p] \in Calls /\ \A n \in NameOf(p) : ids[p][n] \in Id
         /\ \/ call[p].kind = "revokePermissionFromRole" /\ pc[p] = "grant"
            \/ call[p].kind = "removeRole" /\ pc[p] = "assign"
            \/ call[p].kind = "revokeSubjectPermission" /\ pc[p] = "direct"
         /\ \A n, i : IsId(db, n, i) <=> IsId(db', n, i)
<1>1. /\ db \in SUBSET Row /\ db' \in SUBSET Row /\ Births(db, db')
      /\ TypeInv /\ Placed(p) /\ KeysInv /\ pc[p] \in Deleting
  BY StepBirths, ScopeTyped DEF Acts, Step, DeleteRows, Deleting
<1>2. Current(p) = db /\ db' = db \ Doomed(p) /\ Doomed(p) \subseteq db
  BY <1>1 DEF KeysInv, Current, DeleteRows, Write, Doomed
<1>3. call[p] \in Calls
  BY <1>1 DEF TypeInv, CallsOK, AtRest, Deleting
<1>4. call[p].kind \notin TxKinds
  BY <1>1 DEF Placed, AtRest, Deleting
<1>5. \/ call[p].kind = "revokePermissionFromRole" /\ pc[p] = "grant"
      \/ call[p].kind = "removeRole" /\ pc[p] = "assign"
      \/ call[p].kind = "revokeSubjectPermission" /\ pc[p] = "direct"
  BY <1>1, <1>4 DEF Placed, Deleting, TxKinds
<1>6. \A r \in Doomed(p) : r.tab # "name"
  BY <1>5 DEF Doomed
<1>7. \A n, i : IsId(db, n, i) <=> IsId(db', n, i)
  BY <1>2, <1>6, RowFields DEF IsId
<1>8. \A n \in NameOf(p) : ids[p][n] \in Id
  BY <1>1 DEF Placed
<1> QED
  BY <1>1, <1>2, <1>3, <1>5, <1>7, <1>8

LEMMA RevokeContract ==
  ASSUME ScopeInv, NEW p \in Proc, DeleteRows(p), tx[p] = "none",
         call[p].kind = "revokePermissionFromRole"
  PROVE  DataSame \/ ScopedContract!Revoke(call[p])
<1> DEFINE c == call[p]
<1>1. /\ db \in SUBSET Row /\ db' \in SUBSET Row /\ Births(db, db')
      /\ db' = db \ Doomed(p) /\ c \in Calls /\ pc[p] = "grant"
      /\ \A n \in NameOf(p) : ids[p][n] \in Id
      /\ \A n, i : IsId(db, n, i) <=> IsId(db', n, i)
      /\ Current(p) = db
  BY OutsideDelete
<1>2. One(c.roles) /\ One(c.perms)
  BY <1>1, CallShapes
<1>3. PICK n \in c.roles, q \in c.perms : c.roles = {n} /\ c.perms = {q}
  BY <1>2 DEF One
<1> DEFINE i0 == ids[p][n]
           j0 == ids[p][q]
<1>4. n \in NameOf(p) /\ q \in NameOf(p)
  BY DEF NameOf
<1>5. /\ \A m \in Name : IsId(db, m, i0) => m = n
      /\ \A m \in Name : IsId(db, m, j0) => m = q
  BY <1>1, <1>4, OnlyMeaning
<1>6. RoleIds(p) = {i0} /\ PermIds(p) = {j0}
  BY <1>3 DEF RoleIds, PermIds
<1>7. Doomed(p) = {r \in db : r.tab = "grant" /\ r.role = i0 /\ r.perm = j0}
  BY <1>1, <1>6 DEF Doomed, DoomedGrant
<1> HIDE DEF i0, j0
<1>8. /\ \A i, j : Granted(i, j) \in db' <=> Granted(i, j) \in db /\ ~(i = i0 /\ j = j0)
      /\ \A u, i, t, s : Assigned(u, i, t, s) \in db <=> Assigned(u, i, t, s) \in db'
      /\ \A u, j : Direct(u, j) \in db <=> Direct(u, j) \in db'
  BY <1>1, <1>7, RowFields
<1>9. /\ roles' = roles /\ perms' = perms /\ members' = members /\ direct' = direct
  <2>1. \A N : NamesIn(db', N) = NamesIn(db, N)
    BY <1>1, SameNames
  <2>2. Memberships(db') = Memberships(db) /\ Directs(db') = Directs(db)
    BY <1>1, <1>8, SameRows
  <2> QED
    BY <2>1, <2>2 DEF roles, perms, members, direct
<1>10. grants' \subseteq grants
  <2>1. \A g \in Grants(db') \ Grants(db) : FALSE
    BY <1>1, GrantChanges
  <2> QED
    BY <2>1 DEF grants
<1>11. \A g \in grants \ grants' : g = <<n, q>> /\ IsId(db, n, i0) /\ IsId(db, q, j0)
  <2> SUFFICES ASSUME NEW g \in Grants(db) \ Grants(db')
               PROVE  g = <<n, q>> /\ IsId(db, n, i0) /\ IsId(db, q, j0)
    BY DEF grants
  <2>1. /\ g[1] \in Role /\ g[2] \in Perm /\ g = <<g[1], g[2]>>
        /\ \E i, j : /\ IsId(db, g[1], i) /\ IsId(db, g[2], j) /\ Granted(i, j) \in db
                     /\ ~(Granted(i, j) \in db' /\ IsId(db', g[1], i) /\ IsId(db', g[2], j))
    BY <1>1, GrantChanges
  <2>2. IsId(db, g[1], i0) /\ IsId(db, g[2], j0)
    BY <1>1, <1>8, <2>1
  <2> QED
    BY <1>5, <2>1, <2>2 DEF Name
<1>12. IsId(db, n, i0) /\ IsId(db, q, j0) => <<n, q>> \notin grants'
  <2> SUFFICES ASSUME IsId(db, n, i0), IsId(db, q, j0), <<n, q>> \in Grants(db')
               PROVE  FALSE
    BY DEF grants
  <2>1. n \in Role /\ q \in Perm
    BY DEF Grants
  <2>2. PICK i, j : IsId(db', n, i) /\ IsId(db', q, j) /\ Granted(i, j) \in db'
    BY <1>1, <2>1, GrantsAre
  <2>3. i = i0 /\ j = j0
    BY <1>1, <2>2, OneId
  <2> QED
    BY <1>8, <2>2, <2>3
<1>13. CASE IsId(db, n, i0) /\ IsId(db, q, j0)
  <2>1. grants' = grants \ (c.roles \X c.perms)
    <3>1. c.roles \X c.perms = {<<n, q>>}
      BY <1>3
    <3>2. grants' = grants \ {<<n, q>>}
      BY <1>10, <1>11, <1>12, <1>13
    <3> QED
      BY <3>1, <3>2
  <2> QED
    BY <1>9, <2>1 DEF ScopedContract!Revoke
<1>14. CASE ~(IsId(db, n, i0) /\ IsId(db, q, j0))
  <2>1. grants' = grants
    BY <1>10, <1>11, <1>14
  <2> QED
    BY <1>9, <2>1 DEF DataSame
<1> QED
  BY <1>13, <1>14

LEMMA RemoveContract ==
  ASSUME ScopeInv, NEW p \in Proc, DeleteRows(p), tx[p] = "none",
         call[p].kind = "removeRole"
  PROVE  DataSame \/ ScopedContract!Remove(call[p])
<1> DEFINE c == call[p]
<1>1. /\ db \in SUBSET Row /\ db' \in SUBSET Row /\ Births(db, db')
      /\ db' = db \ Doomed(p) /\ c \in Calls /\ pc[p] = "assign"
      /\ \A n \in NameOf(p) : ids[p][n] \in Id
      /\ \A n, i : IsId(db, n, i) <=> IsId(db', n, i)
      /\ Current(p) = db
  BY OutsideDelete
<1>2. One(c.roles)
  BY <1>1, CallShapes
<1>3. PICK n \in c.roles : c.roles = {n}
  BY <1>2 DEF One
<1> DEFINE i0 == ids[p][n]
           Mine(u, t, s) == u = c.subj /\ t = c.tenant /\ s \in c.sources
<1>4. n \in NameOf(p)
  BY DEF NameOf
<1>5. \A m \in Name : IsId(db, m, i0) => m = n
  BY <1>1, <1>4, OnlyMeaning
<1>6. RoleIds(p) = {i0}
  BY <1>3 DEF RoleIds
<1>7. Doomed(p) = {r \in db : r.tab = "assign" /\ Mine(r.subj, r.tenant, r.source) /\ r.role = i0}
  BY <1>1, <1>6 DEF Doomed, DoomedAssign, InScope
<1> HIDE DEF i0
<1>8. /\ \A i, j : Granted(i, j) \in db <=> Granted(i, j) \in db'
      /\ \A u, i, t, s : Assigned(u, i, t, s) \in db' <=>
           Assigned(u, i, t, s) \in db /\ ~(Mine(u, t, s) /\ i = i0)
      /\ \A u, j : Direct(u, j) \in db <=> Direct(u, j) \in db'
  <2> HIDE DEF Mine
  <2> QED
    BY <1>1, <1>7, RowFields
<1>9. /\ roles' = roles /\ perms' = perms /\ grants' = grants /\ direct' = direct
  <2>1. \A N : NamesIn(db', N) = NamesIn(db, N)
    BY <1>1, SameNames
  <2>2. Grants(db') = Grants(db) /\ Directs(db') = Directs(db)
    BY <1>1, <1>8, SameRows
  <2> QED
    BY <2>1, <2>2 DEF roles, perms, grants, direct
<1>10. members' \subseteq members /\ members \subseteq Member
  <2>1. \A m \in Memberships(db') \ Memberships(db) : FALSE
    BY <1>1, MemberChanges
  <2>2. Memberships(db) \subseteq Member
    BY <1>1, MembersAre
  <2> QED
    BY <2>1, <2>2 DEF members
<1>11. \A m \in members \ members' :
         Mine(m.subj, m.tenant, m.source) /\ m.role = n /\ IsId(db, n, i0)
  <2> SUFFICES ASSUME NEW m \in Memberships(db) \ Memberships(db')
               PROVE  Mine(m.subj, m.tenant, m.source) /\ m.role = n /\ IsId(db, n, i0)
    BY DEF members
  <2>1. /\ m.role \in Role
        /\ \E i : /\ IsId(db, m.role, i) /\ Assigned(m.subj, i, m.tenant, m.source) \in db
                  /\ ~(Assigned(m.subj, i, m.tenant, m.source) \in db' /\ IsId(db', m.role, i))
    BY <1>1, MemberChanges DEF Member
  <2>2. IsId(db, m.role, i0) /\ Mine(m.subj, m.tenant, m.source)
    BY <1>1, <1>8, <2>1
  <2> QED
    BY <1>5, <2>1, <2>2 DEF Name
<1>12. IsId(db, n, i0) =>
         \A m \in members' : ~(Mine(m.subj, m.tenant, m.source) /\ m.role = n)
  <2> SUFFICES ASSUME IsId(db, n, i0), NEW m \in Memberships(db'),
                      Mine(m.subj, m.tenant, m.source), m.role = n
               PROVE  FALSE
    BY DEF members
  <2>1. PICK i : IsId(db', n, i) /\ Assigned(m.subj, i, m.tenant, m.source) \in db'
    BY <1>1, MembersAre
  <2>2. i = i0
    BY <1>1, <2>1, OneId
  <2> QED
    BY <1>8, <2>1, <2>2
<1>13. CASE IsId(db, n, i0)
  <2>1. \A m \in Member :
          m \in ScopedContract!ListedBy(c) <=> Mine(m.subj, m.tenant, m.source) /\ m.role = n
    BY <1>3 DEF ScopedContract!ListedBy, Member
  <2>2. members' = members \ ScopedContract!ListedBy(c)
    <3> HIDE DEF Mine
    <3> QED
      BY <1>10, <1>11, <1>12, <1>13, <2>1
  <2> QED
    BY <1>9, <2>2 DEF ScopedContract!Remove
<1>14. CASE ~IsId(db, n, i0)
  BY <1>9, <1>10, <1>11, <1>14 DEF DataSame
<1> QED
  BY <1>13, <1>14

LEMMA RevokeDirectContract ==
  ASSUME ScopeInv, NEW p \in Proc, DeleteRows(p), tx[p] = "none",
         call[p].kind = "revokeSubjectPermission"
  PROVE  DataSame \/ ScopedContract!RevokeDirect(call[p])
<1> DEFINE c == call[p]
<1>1. /\ db \in SUBSET Row /\ db' \in SUBSET Row /\ Births(db, db')
      /\ db' = db \ Doomed(p) /\ c \in Calls /\ pc[p] = "direct"
      /\ \A n \in NameOf(p) : ids[p][n] \in Id
      /\ \A n, i : IsId(db, n, i) <=> IsId(db', n, i)
      /\ Current(p) = db
  BY OutsideDelete
<1>2. One(c.perms)
  BY <1>1, CallShapes
<1>3. PICK q \in c.perms : c.perms = {q}
  BY <1>2 DEF One
<1> DEFINE j0 == ids[p][q]
<1>4. q \in NameOf(p)
  BY DEF NameOf
<1>5. \A m \in Name : IsId(db, m, j0) => m = q
  BY <1>1, <1>4, OnlyMeaning
<1>6. PermIds(p) = {j0}
  BY <1>3 DEF PermIds
<1>7. Doomed(p) = {r \in db : r.tab = "direct" /\ r.subj = c.subj /\ r.perm = j0}
  BY <1>1, <1>6 DEF Doomed, DoomedDirect
<1> HIDE DEF j0
<1>8. /\ \A i, j : Granted(i, j) \in db <=> Granted(i, j) \in db'
      /\ \A u, i, t, s : Assigned(u, i, t, s) \in db <=> Assigned(u, i, t, s) \in db'
      /\ \A u, j : Direct(u, j) \in db' <=> Direct(u, j) \in db /\ ~(u = c.subj /\ j = j0)
  BY <1>1, <1>7, RowFields
<1>9. /\ roles' = roles /\ perms' = perms /\ grants' = grants /\ members' = members
  <2>1. \A N : NamesIn(db', N) = NamesIn(db, N)
    BY <1>1, SameNames
  <2>2. Grants(db') = Grants(db) /\ Memberships(db') = Memberships(db)
    BY <1>1, <1>8, SameRows
  <2> QED
    BY <2>1, <2>2 DEF roles, perms, grants, members
<1>10. direct' \subseteq direct
  <2>1. \A d \in Directs(db') \ Directs(db) : FALSE
    BY <1>1, DirectChanges
  <2> QED
    BY <2>1 DEF direct
<1>11. \A d \in direct \ direct' : d = <<c.subj, q>> /\ IsId(db, q, j0)
  <2> SUFFICES ASSUME NEW d \in Directs(db) \ Directs(db')
               PROVE  d = <<c.subj, q>> /\ IsId(db, q, j0)
    BY DEF direct
  <2>1. /\ d[1] \in Subject /\ d[2] \in Perm /\ d = <<d[1], d[2]>>
        /\ \E j : /\ IsId(db, d[2], j) /\ Direct(d[1], j) \in db
                  /\ ~(Direct(d[1], j) \in db' /\ IsId(db', d[2], j))
    BY <1>1, DirectChanges
  <2>2. IsId(db, d[2], j0) /\ d[1] = c.subj
    BY <1>1, <1>8, <2>1
  <2> QED
    BY <1>5, <2>1, <2>2 DEF Name
<1>12. IsId(db, q, j0) => <<c.subj, q>> \notin direct'
  <2> SUFFICES ASSUME IsId(db, q, j0), <<c.subj, q>> \in Directs(db') PROVE FALSE
    BY DEF direct
  <2>1. c.subj \in Subject /\ q \in Perm
    BY DEF Directs
  <2>2. PICK j : IsId(db', q, j) /\ Direct(c.subj, j) \in db'
    BY <1>1, <2>1, DirectsAre
  <2>3. j = j0
    BY <1>1, <2>2, OneId
  <2> QED
    BY <1>8, <2>2, <2>3
<1>13. CASE IsId(db, q, j0)
  <2>1. direct' = direct \ ({c.subj} \X c.perms)
    <3>1. {c.subj} \X c.perms = {<<c.subj, q>>}
      BY <1>3
    <3>2. direct' = direct \ {<<c.subj, q>>}
      BY <1>10, <1>11, <1>12, <1>13
    <3> QED
      BY <3>1, <3>2
  <2> QED
    BY <1>9, <2>1 DEF ScopedContract!RevokeDirect
<1>14. CASE ~IsId(db, q, j0)
  <2>1. direct' = direct
    BY <1>10, <1>11, <1>14
  <2> QED
    BY <1>9, <2>1 DEF DataSame
<1> QED
  BY <1>13, <1>14

LEMMA DeleteContract ==
  ASSUME ScopeInv, NEW p \in Proc, DeleteRows(p)
  PROVE  UNCHANGED call /\ (DataSame \/ ScopedContract!Write(call[p]))
<1>1. UNCHANGED call
  BY DEF DeleteRows
<1>2. CASE tx[p] = "none"
  <2>1. call[p].kind \in {"revokePermissionFromRole", "removeRole", "revokeSubjectPermission"}
    BY <1>2, OutsideDelete
  <2> QED
    BY <1>1, <1>2, <2>1, RevokeContract, RemoveContract, RevokeDirectContract
       DEF ScopedContract!Write
<1>3. CASE tx[p] # "none"
  BY <1>1, <1>3, SameData DEF DeleteRows, Write
<1> QED
  BY <1>2, <1>3

(* An assignment names one source. *)
LEMMA AssignSource ==
  ASSUME NEW c \in Calls, c.kind = "assignRole"
  PROVE  One(c.sources)
<1> DEFINE Single(S) == \A x \in S : x.kind = "assignRole" => One(x.sources)
<1>1. \A k : k # "assignRole" =>
        Single(RoleCalls(k)) /\ Single(PairCalls(k)) /\ Single(DirectCalls(k))
  BY DEF RoleCalls, PairCalls, DirectCalls, Call
<1>2. Single(CreatePermissionCalls) /\ Single(SyncCalls) /\ Single(RemoveSubjectCalls)
  BY DEF CreatePermissionCalls, SyncCalls, RemoveSubjectCalls, Call
<1>3. Single(AssignCalls)
  BY DEF AssignCalls, Call, One
<1>4. Single(RemoveCalls)
  BY DEF RemoveCalls, Call
<1>5. Single(SetCalls)
  BY DEF SetCalls, Call
<1>6. /\ Single(RoleCalls("createRole")) /\ Single(RoleCalls("deleteRole"))
      /\ Single(PairCalls("givePermissionToRole"))
      /\ Single(PairCalls("revokePermissionFromRole"))
      /\ Single(DirectCalls("giveSubjectPermission"))
      /\ Single(DirectCalls("revokeSubjectPermission"))
  BY <1>1
<1> QED
  BY <1>2, <1>3, <1>4, <1>5, <1>6 DEF Calls, AllCalls

(* An INSERT outside a transaction: of a call that adds one thing. *)
LEMMA OutsideInsert ==
  ASSUME ScopeInv, NEW p \in Proc, NEW r \in todo[p], InsertRow(p, r), tx[p] = "none",
         db' # db
  PROVE  /\ db \in SUBSET Row /\ db' \in SUBSET Row /\ Births(db, db')
         /\ db' = db \cup {r} /\ r \in Inserts(p)
         /\ call[p] \in Calls /\ \A n \in NameOf(p) : ids[p][n] \in Id
         /\ call[p].kind \in {"givePermissionToRole", "assignRole", "giveSubjectPermission"}
         /\ \A n, i : IsId(db, n, i) <=> IsId(db', n, i)
<1>1. /\ db \in SUBSET Row /\ db' \in SUBSET Row /\ Births(db, db')
      /\ TypeInv /\ SecretsInv /\ Placed(p) /\ pc[p] = "insert"
  BY StepBirths, ScopeTyped DEF Acts, Step, InsertRow, ScopeInv
<1>2. db' = db \cup {r}
  BY DEF InsertRow, InsertIgnore, Write
<1>3. r \in Inserts(p) /\ r.tab # "name" /\ \A n \in NameOf(p) : ids[p][n] \in Id
  BY <1>1 DEF Placed, SecretsInv
<1>4. call[p] \in Calls /\ call[p].kind \notin TxKinds
  BY <1>1 DEF TypeInv, CallsOK, AtRest, Placed
<1>5. call[p].kind \in {"givePermissionToRole", "assignRole", "giveSubjectPermission"}
  BY <1>3, <1>4 DEF Inserts, RowsToAdd, TxKinds
<1>6. \A n, i : IsId(db, n, i) <=> IsId(db', n, i)
  BY <1>2, <1>3, RowFields DEF IsId
<1> QED
  BY <1>1, <1>2, <1>3, <1>4, <1>5, <1>6

LEMMA GrantContract ==
  ASSUME ScopeInv, NEW p \in Proc, NEW r \in todo[p], InsertRow(p, r), tx[p] = "none",
         db' # db, call[p].kind = "givePermissionToRole"
  PROVE  DataSame \/ ScopedContract!Grant(call[p])
<1> DEFINE c == call[p]
<1>1. /\ db \in SUBSET Row /\ db' \in SUBSET Row /\ Births(db, db')
      /\ db' = db \cup {r} /\ r \in Inserts(p) /\ c \in Calls /\ c \in CallType
      /\ \A n \in NameOf(p) : ids[p][n] \in Id
      /\ \A n, i : IsId(db, n, i) <=> IsId(db', n, i)
  BY OutsideInsert, CallsTyped
<1>2. One(c.roles) /\ One(c.perms)
  BY <1>1, CallShapes
<1>3. PICK n \in c.roles, q \in c.perms : c.roles = {n} /\ c.perms = {q}
  BY <1>2 DEF One
<1> DEFINE i0 == ids[p][n]
           j0 == ids[p][q]
<1>4. n \in NameOf(p) /\ q \in NameOf(p) /\ n \in Role /\ q \in Perm
  BY <1>1 DEF NameOf, CallType
<1>5. /\ \A m \in Name : IsId(db, m, i0) => m = n
      /\ \A m \in Name : IsId(db, m, j0) => m = q
  BY <1>1, <1>4, OnlyMeaning
<1>6. r = Granted(i0, j0)
  BY <1>1, <1>3 DEF Inserts, RowsToAdd, RoleIds, PermIds
<1> HIDE DEF i0, j0
<1>7. /\ \A i, j : Granted(i, j) \in db' <=> Granted(i, j) \in db \/ (i = i0 /\ j = j0)
      /\ \A u, i, t, s : Assigned(u, i, t, s) \in db <=> Assigned(u, i, t, s) \in db'
      /\ \A u, j : Direct(u, j) \in db <=> Direct(u, j) \in db'
  BY <1>1, <1>6, RowFields
<1>8. /\ roles' = roles /\ perms' = perms /\ members' = members /\ direct' = direct
  <2>1. \A N : NamesIn(db', N) = NamesIn(db, N)
    BY <1>1, SameNames
  <2>2. Memberships(db') = Memberships(db) /\ Directs(db') = Directs(db)
    BY <1>1, <1>7, SameRows
  <2> QED
    BY <2>1, <2>2 DEF roles, perms, members, direct
<1>9. grants \subseteq grants'
  <2>1. ASSUME NEW g \in Grants(db) \ Grants(db') PROVE FALSE
    <3>1. \E i, j : /\ IsId(db, g[1], i) /\ IsId(db, g[2], j) /\ Granted(i, j) \in db
                    /\ ~(Granted(i, j) \in db' /\ IsId(db', g[1], i) /\ IsId(db', g[2], j))
      BY <1>1, GrantChanges
    <3> QED
      BY <1>1, <1>7, <3>1
  <2> QED
    BY <2>1 DEF grants
<1>10. \A g \in grants' \ grants : g = <<n, q>> /\ IsId(db, n, i0) /\ IsId(db, q, j0)
  <2> SUFFICES ASSUME NEW g \in Grants(db') \ Grants(db)
               PROVE  g = <<n, q>> /\ IsId(db, n, i0) /\ IsId(db, q, j0)
    BY DEF grants
  <2>1. /\ g[1] \in Role /\ g[2] \in Perm /\ g = <<g[1], g[2]>>
        /\ \E i, j : IsId(db', g[1], i) /\ IsId(db', g[2], j) /\ Granted(i, j) \in db' \ db
    BY <1>1, GrantChanges
  <2>2. IsId(db, g[1], i0) /\ IsId(db, g[2], j0)
    BY <1>1, <1>7, <2>1
  <2> QED
    BY <1>5, <2>1, <2>2 DEF Name
<1>11. CASE IsId(db, n, i0) /\ IsId(db, q, j0)
  <2>1. <<n, q>> \in grants'
    BY <1>1, <1>4, <1>7, <1>11, GrantsAre DEF grants
  <2>2. n \in roles /\ q \in perms
    BY <1>1, <1>4, <1>11, NamesAre DEF roles, perms
  <2>3. c.roles \X c.perms = {<<n, q>>}
    BY <1>3
  <2>4. grants' = grants \cup (c.roles \X c.perms)
    BY <1>9, <1>10, <2>1, <2>3
  <2>5. c.roles \subseteq roles /\ c.perms \subseteq perms
    BY <1>3, <2>2
  <2> QED
    BY <1>8, <2>4, <2>5 DEF ScopedContract!Grant
<1>12. CASE ~(IsId(db, n, i0) /\ IsId(db, q, j0))
  <2>1. grants' = grants
    BY <1>9, <1>10, <1>12
  <2> QED
    BY <1>8, <2>1 DEF DataSame
<1> QED
  BY <1>11, <1>12

LEMMA AssignContract ==
  ASSUME ScopeInv, NEW p \in Proc, NEW r \in todo[p], InsertRow(p, r), tx[p] = "none",
         db' # db, call[p].kind = "assignRole"
  PROVE  DataSame \/ ScopedContract!Assign(call[p])
<1> DEFINE c == call[p]
<1>1. /\ db \in SUBSET Row /\ db' \in SUBSET Row /\ Births(db, db')
      /\ db' = db \cup {r} /\ r \in Inserts(p) /\ c \in Calls /\ c \in CallType
      /\ \A n \in NameOf(p) : ids[p][n] \in Id
      /\ \A n, i : IsId(db, n, i) <=> IsId(db', n, i)
  BY OutsideInsert, CallsTyped
<1>2. One(c.roles) /\ One(c.sources)
  BY <1>1, CallShapes, AssignSource
<1>3. PICK n \in c.roles, s0 \in c.sources : c.roles = {n} /\ c.sources = {s0}
  BY <1>2 DEF One
<1> DEFINE i0 == ids[p][n]
           m0 == [subj |-> c.subj, role |-> n, tenant |-> c.tenant, source |-> s0]
<1>4. n \in NameOf(p) /\ n \in Role /\ m0 \in Member
  BY <1>1, <1>3, CallSubjects DEF NameOf, CallType, Member
<1>5. \A m \in Name : IsId(db, m, i0) => m = n
  BY <1>1, <1>4, OnlyMeaning
<1>6. r = Assigned(c.subj, i0, c.tenant, s0)
  BY <1>1, <1>3 DEF Inserts, RowsToAdd, RoleIds
<1>7. ScopedContract!ListedBy(c) = {m0}
  <2>1. ScopedContract!ListedBy(c) =
          [subj : {c.subj}, role : {n}, tenant : {c.tenant}, source : {s0}]
    BY <1>3 DEF ScopedContract!ListedBy
  <2>2. \A m \in [subj : {c.subj}, role : {n}, tenant : {c.tenant}, source : {s0}] : m = m0
    OBVIOUS
  <2>3. m0 \in [subj : {c.subj}, role : {n}, tenant : {c.tenant}, source : {s0}]
    OBVIOUS
  <2> HIDE DEF m0
  <2> QED
    BY <2>1, <2>2, <2>3
<1>8. /\ m0.subj = c.subj /\ m0.role = n /\ m0.tenant = c.tenant /\ m0.source = s0
      /\ \A m \in Member : m.subj = c.subj /\ m.role = n /\ m.tenant = c.tenant /\ m.source = s0
                           => m = m0
  BY DEF Member
<1> HIDE DEF i0, m0
<1>9. /\ \A i, j : Granted(i, j) \in db <=> Granted(i, j) \in db'
      /\ \A u, i, t, s : Assigned(u, i, t, s) \in db' <=>
           \/ Assigned(u, i, t, s) \in db
           \/ u = c.subj /\ i = i0 /\ t = c.tenant /\ s = s0
      /\ \A u, j : Direct(u, j) \in db <=> Direct(u, j) \in db'
  BY <1>1, <1>6, RowFields
<1>10. /\ roles' = roles /\ perms' = perms /\ grants' = grants /\ direct' = direct
  <2>1. \A N : NamesIn(db', N) = NamesIn(db, N)
    BY <1>1, SameNames
  <2>2. Grants(db') = Grants(db) /\ Directs(db') = Directs(db)
    BY <1>1, <1>9, SameRows
  <2> QED
    BY <2>1, <2>2 DEF roles, perms, grants, direct
<1>11. members \subseteq members'
  <2>1. ASSUME NEW m \in Memberships(db) \ Memberships(db') PROVE FALSE
    <3>1. \E i : /\ IsId(db, m.role, i) /\ Assigned(m.subj, i, m.tenant, m.source) \in db
                 /\ ~(Assigned(m.subj, i, m.tenant, m.source) \in db' /\ IsId(db', m.role, i))
      BY <1>1, MemberChanges
    <3> QED
      BY <1>1, <1>9, <3>1
  <2> QED
    BY <2>1 DEF members
<1>12. \A m \in members' \ members : m = m0 /\ IsId(db, n, i0)
  <2> SUFFICES ASSUME NEW m \in Memberships(db') \ Memberships(db)
               PROVE  m = m0 /\ IsId(db, n, i0)
    BY DEF members
  <2>1. /\ m \in Member /\ m.role \in Role
        /\ \E i : IsId(db', m.role, i) /\ Assigned(m.subj, i, m.tenant, m.source) \in db' \ db
    BY <1>1, MemberChanges DEF Member
  <2>2. IsId(db, m.role, i0) /\ m.subj = c.subj /\ m.tenant = c.tenant /\ m.source = s0
    BY <1>1, <1>9, <2>1
  <2> QED
    BY <1>5, <1>8, <2>1, <2>2 DEF Name
<1>13. CASE IsId(db, n, i0)
  <2>1. m0 \in members'
    <3>1. Assigned(m0.subj, i0, m0.tenant, m0.source) \in db' /\ IsId(db', m0.role, i0)
      BY <1>1, <1>8, <1>9, <1>13
    <3> QED
      BY <1>1, <1>4, <3>1, MembersAre DEF members
  <2>2. n \in roles
    BY <1>1, <1>4, <1>13, NamesAre DEF roles
  <2>3. members' = members \cup ScopedContract!ListedBy(c) /\ c.roles \subseteq roles
    BY <1>3, <1>7, <1>11, <1>12, <2>1, <2>2
  <2> QED
    BY <1>10, <2>3 DEF ScopedContract!Assign
<1>14. CASE ~IsId(db, n, i0)
  BY <1>10, <1>11, <1>12, <1>14 DEF DataSame
<1> QED
  BY <1>13, <1>14

LEMMA GiveDirectContract ==
  ASSUME ScopeInv, NEW p \in Proc, NEW r \in todo[p], InsertRow(p, r), tx[p] = "none",
         db' # db, call[p].kind = "giveSubjectPermission"
  PROVE  DataSame \/ ScopedContract!GiveDirect(call[p])
<1> DEFINE c == call[p]
<1>1. /\ db \in SUBSET Row /\ db' \in SUBSET Row /\ Births(db, db')
      /\ db' = db \cup {r} /\ r \in Inserts(p) /\ c \in Calls /\ c \in CallType
      /\ \A n \in NameOf(p) : ids[p][n] \in Id
      /\ \A n, i : IsId(db, n, i) <=> IsId(db', n, i)
  BY OutsideInsert, CallsTyped
<1>2. One(c.perms) /\ c.subj \in Subject
  BY <1>1, CallShapes, CallSubjects
<1>3. PICK q \in c.perms : c.perms = {q}
  BY <1>2 DEF One
<1> DEFINE j0 == ids[p][q]
<1>4. q \in NameOf(p) /\ q \in Perm
  BY <1>1 DEF NameOf, CallType
<1>5. \A m \in Name : IsId(db, m, j0) => m = q
  BY <1>1, <1>4, OnlyMeaning
<1>6. r = Direct(c.subj, j0)
  BY <1>1, <1>3 DEF Inserts, RowsToAdd, PermIds
<1> HIDE DEF j0
<1>7. /\ \A i, j : Granted(i, j) \in db <=> Granted(i, j) \in db'
      /\ \A u, i, t, s : Assigned(u, i, t, s) \in db <=> Assigned(u, i, t, s) \in db'
      /\ \A u, j : Direct(u, j) \in db' <=> Direct(u, j) \in db \/ (u = c.subj /\ j = j0)
  BY <1>1, <1>6, RowFields
<1>8. /\ roles' = roles /\ perms' = perms /\ grants' = grants /\ members' = members
  <2>1. \A N : NamesIn(db', N) = NamesIn(db, N)
    BY <1>1, SameNames
  <2>2. Grants(db') = Grants(db) /\ Memberships(db') = Memberships(db)
    BY <1>1, <1>7, SameRows
  <2> QED
    BY <2>1, <2>2 DEF roles, perms, grants, members
<1>9. direct \subseteq direct'
  <2>1. ASSUME NEW d \in Directs(db) \ Directs(db') PROVE FALSE
    <3>1. \E j : /\ IsId(db, d[2], j) /\ Direct(d[1], j) \in db
                 /\ ~(Direct(d[1], j) \in db' /\ IsId(db', d[2], j))
      BY <1>1, DirectChanges
    <3> QED
      BY <1>1, <1>7, <3>1
  <2> QED
    BY <2>1 DEF direct
<1>10. \A d \in direct' \ direct : d = <<c.subj, q>> /\ IsId(db, q, j0)
  <2> SUFFICES ASSUME NEW d \in Directs(db') \ Directs(db)
               PROVE  d = <<c.subj, q>> /\ IsId(db, q, j0)
    BY DEF direct
  <2>1. /\ d[1] \in Subject /\ d[2] \in Perm /\ d = <<d[1], d[2]>>
        /\ \E j : IsId(db', d[2], j) /\ Direct(d[1], j) \in db' \ db
    BY <1>1, DirectChanges
  <2>2. IsId(db, d[2], j0) /\ d[1] = c.subj
    BY <1>1, <1>7, <2>1
  <2> QED
    BY <1>5, <2>1, <2>2 DEF Name
<1>11. CASE IsId(db, q, j0)
  <2>1. <<c.subj, q>> \in direct'
    BY <1>1, <1>2, <1>4, <1>7, <1>11, DirectsAre DEF direct
  <2>2. q \in perms
    BY <1>1, <1>4, <1>11, NamesAre DEF perms
  <2>3. {c.subj} \X c.perms = {<<c.subj, q>>}
    BY <1>3
  <2>4. direct' = direct \cup ({c.subj} \X c.perms) /\ c.perms \subseteq perms
    BY <1>3, <1>9, <1>10, <2>1, <2>2, <2>3
  <2> QED
    BY <1>8, <2>4 DEF ScopedContract!GiveDirect
<1>12. CASE ~IsId(db, q, j0)
  <2>1. direct' = direct
    BY <1>9, <1>10, <1>12
  <2> QED
    BY <1>8, <2>1 DEF DataSame
<1> QED
  BY <1>11, <1>12

LEMMA InsertContract ==
  ASSUME ScopeInv, NEW p \in Proc, NEW r \in todo[p], InsertRow(p, r)
  PROVE  UNCHANGED call /\ (DataSame \/ ScopedContract!Write(call[p]))
<1>1. UNCHANGED call
  BY DEF InsertRow
<1>2. CASE tx[p] = "none" /\ db' # db
  <2>1. call[p].kind \in {"givePermissionToRole", "assignRole", "giveSubjectPermission"}
    BY <1>2, OutsideInsert
  <2> QED
    BY <1>1, <1>2, <2>1, GrantContract, AssignContract, GiveDirectContract
       DEF ScopedContract!Write
<1>3. CASE tx[p] # "none" \/ db' = db
  <2>1. db' = db
    BY <1>3 DEF InsertRow, InsertIgnore, Write
  <2> QED
    BY <1>1, <2>1, SameData
<1> QED
  BY <1>2, <1>3

-----------------------------------------------------------------------------
(* Then the commit of a call that replaces or clears a set.                 *)

LEMMA OwnCommit ==
  ASSUME ScopeInv, NEW p \in Proc, Return(p), tx[p] = "own"
  PROVE  /\ db \in SUBSET Row /\ db' \in SUBSET Row /\ Births(db, db')
         /\ db' = Current(p) /\ call[p] \in Calls /\ call[p] \in CallType
         /\ call[p].kind \in TxKinds
         /\ pc[p] = "insert" => \A n \in NameOf(p) : ids[p][n] \in Id
         /\ \A r \in db' \ db : IF r.tab = "name"
              THEN r.name \in NameOf(p) /\ call[p].kind \notin FindOnlyKinds
              ELSE pc[p] = "insert" /\ r \in Inserts(p)
         /\ \A r \in db \ db' : pc[p] = "insert" /\ Asked(p, r)
         /\ pc[p] \in {"return", "insert"}
<1>1. /\ db \in SUBSET Row /\ db' \in SUBSET Row /\ Births(db, db')
      /\ TypeInv /\ Placed(p) /\ Holds(p) /\ pc[p] \in {"return", "insert"}
  BY StepBirths, ScopeTyped DEF Acts, Step, Return
<1>2. db' = Current(p)
  BY DEF Return, Commit
<1>3. call[p] \in Calls /\ call[p] \in CallType /\ call[p].kind \in TxKinds
  BY <1>1, CallsTyped DEF TypeInv, CallsOK, AtRest, Placed
<1>4. (\A r \in db' \ db : r \in ins[p]) /\ (\A r \in db \ db' : r \in del[p])
  BY <1>2 DEF Current
<1>5. pc[p] = "insert" => \A n \in NameOf(p) : ids[p][n] \in Id
  BY <1>1 DEF Placed
<1>6. \A r \in db' \ db : IF r.tab = "name"
              THEN r.name \in NameOf(p) /\ call[p].kind \notin FindOnlyKinds
              ELSE pc[p] = "insert" /\ r \in Inserts(p)
  BY <1>1, <1>4 DEF Holds
<1>7. \A r \in db \ db' : pc[p] = "insert" /\ Asked(p, r)
  BY <1>1, <1>4 DEF Holds, Deleting
<1> QED
  BY <1>1, <1>2, <1>3, <1>5, <1>6, <1>7

(* An id of p's role names is, for what p sees, the id of that name. *)
LEMMA RoleMeant ==
  ASSUME ScopeInv, NEW p \in Proc, \A n \in NameOf(p) : ids[p][n] \in Id,
         NEW i \in RoleIds(p), NEW m \in Name, IsId(db, m, i) \/ IsId(Current(p), m, i)
  PROVE  m \in call[p].roles
<1>1. PICK n \in call[p].roles : i = ids[p][n]
  BY DEF RoleIds
<1>2. n \in NameOf(p)
  BY DEF NameOf
<1> QED
  BY <1>1, <1>2, OnlyMeaning

LEMMA PermMeant ==
  ASSUME ScopeInv, NEW p \in Proc, \A n \in NameOf(p) : ids[p][n] \in Id,
         NEW i \in PermIds(p), NEW m \in Name, IsId(db, m, i) \/ IsId(Current(p), m, i)
  PROVE  m \in call[p].perms
<1>1. PICK n \in call[p].perms : i = ids[p][n]
  BY DEF PermIds
<1>2. n \in NameOf(p)
  BY DEF NameOf
<1> QED
  BY <1>1, <1>2, OnlyMeaning

(* The commit of a call that deletes no role keeps every name, and adds     *)
(* none but those the call names.                                           *)
LEMMA NamesGrow ==
  ASSUME ScopeInv, NEW p \in Proc, Return(p), tx[p] = "own", call[p].kind # "deleteRole"
  PROVE  /\ \A n, i : IsId(db, n, i) => IsId(db', n, i)
         /\ roles \subseteq roles' /\ perms \subseteq perms'
         /\ roles' \ roles \subseteq call[p].roles /\ perms' \ perms \subseteq call[p].perms
<1>1. /\ db \in SUBSET Row /\ db' \in SUBSET Row /\ call[p] \in CallType
      /\ \A r \in db' \ db : r.tab = "name" => r.name \in NameOf(p)
      /\ \A r \in db \ db' : Asked(p, r)
  BY OwnCommit
<1>2. \A n, i : IsId(db, n, i) => IsId(db', n, i)
  BY <1>1, RowFields DEF IsId, Asked
<1>3. \A n, i : IsId(db', n, i) => IsId(db, n, i) \/ n \in NameOf(p)
  BY <1>1, RowFields DEF IsId
<1>4. call[p].roles \subseteq Role /\ call[p].perms \subseteq Perm /\ Role \cap Perm = {}
  BY <1>1, TablesAssumption DEF CallType
<1>5. /\ \A n : n \in roles <=> n \in Role /\ \E i : IsId(db, n, i)
      /\ \A n : n \in roles' <=> n \in Role /\ \E i : IsId(db', n, i)
      /\ \A n : n \in perms <=> n \in Perm /\ \E i : IsId(db, n, i)
      /\ \A n : n \in perms' <=> n \in Perm /\ \E i : IsId(db', n, i)
  BY <1>1, NamesAre DEF roles, perms
<1>6. roles \subseteq roles' /\ perms \subseteq perms'
  BY <1>2, <1>5
<1>7. roles' \ roles \subseteq call[p].roles /\ perms' \ perms \subseteq call[p].perms
  BY <1>3, <1>4, <1>5 DEF NameOf
<1> QED
  BY <1>2, <1>6, <1>7

LEMMA SetContract ==
  ASSUME ScopeInv, NEW p \in Proc, Return(p), tx[p] = "own", call[p].kind = "setSubjectRoles"
  PROVE  ScopedContract!SetSubjectRoles(call[p])
<1> DEFINE c == call[p]
<1>1. /\ db \in SUBSET Row /\ db' \in SUBSET Row /\ Births(db, db')
      /\ db' = Current(p) /\ c \in Calls /\ c \in CallType
      /\ pc[p] = "insert" => \A n \in NameOf(p) : ids[p][n] \in Id
      /\ \A r \in db' \ db : r.tab # "name" => pc[p] = "insert" /\ r \in Inserts(p)
      /\ \A r \in db \ db' : pc[p] = "insert" /\ Asked(p, r)
  BY OwnCommit
<1>2. /\ \A n, i : IsId(db, n, i) => IsId(db', n, i)
      /\ roles \subseteq roles' /\ perms \subseteq perms'
      /\ roles' \ roles \subseteq c.roles /\ perms' \ perms \subseteq c.perms
  BY NamesGrow
<1>3. c.perms = {}
  BY <1>1, CallShapes
<1>4. /\ \A i, j : Granted(i, j) \in db <=> Granted(i, j) \in db'
      /\ \A u, j : Direct(u, j) \in db <=> Direct(u, j) \in db'
  <2>1. \A r \in db' \ db : r.tab \in {"name", "assign"}
    BY <1>1, RowFields DEF Inserts, RowsToAdd
  <2>2. \A r \in db \ db' : r.tab \notin {"grant", "direct"}
    BY <1>1 DEF Asked
  <2> QED
    BY <2>1, <2>2, RowFields
<1>5. grants' = grants /\ direct' = direct
  <2>1. Grants(db') = Grants(db) /\ Directs(db') = Directs(db)
    BY <1>1, <1>2, <1>4, SameRows
  <2> QED
    BY <2>1 DEF grants, direct
<1>6. members' \ members \subseteq ScopedContract!ListedBy(c)
  <2> SUFFICES ASSUME NEW m \in Memberships(db') \ Memberships(db)
               PROVE  m \in ScopedContract!ListedBy(c)
    BY DEF members
  <2>1. m \in Member
    BY <1>1, MemberChanges
  <2>2. PICK i : IsId(db', m.role, i) /\ Assigned(m.subj, i, m.tenant, m.source) \in db' \ db
    BY <1>1, MemberChanges
  <2>3. Assigned(m.subj, i, m.tenant, m.source) \in Inserts(p) /\ pc[p] = "insert"
    BY <1>1, <2>2, RowFields
  <2>4. m.subj = c.subj /\ i \in RoleIds(p) /\ m.tenant = c.tenant /\ m.source \in c.sources
    BY <2>3, RowFields DEF Inserts, RowsToAdd
  <2>5. m.role \in c.roles
    BY <1>1, <2>1, <2>2, <2>3, <2>4, RoleMeant DEF Member, Name
  <2> QED
    BY <2>1, <2>4, <2>5 DEF ScopedContract!ListedBy, Member
<1>7. members \ members' \subseteq ScopedContract!ScopeOf(c)
  <2> SUFFICES ASSUME NEW m \in Memberships(db) \ Memberships(db')
               PROVE  m \in ScopedContract!ScopeOf(c)
    BY DEF members
  <2>1. PICK i : /\ IsId(db, m.role, i) /\ Assigned(m.subj, i, m.tenant, m.source) \in db
                 /\ ~(Assigned(m.subj, i, m.tenant, m.source) \in db' /\ IsId(db', m.role, i))
    BY <1>1, MemberChanges
  <2>2. Asked(p, Assigned(m.subj, i, m.tenant, m.source))
    BY <1>1, <1>2, <2>1
  <2>3. m.subj = c.subj /\ m.tenant = c.tenant /\ m.source \in c.sources
    BY <2>2, RowFields DEF Asked, DoomedAssign, InScope
  <2> QED
    BY <2>3 DEF ScopedContract!ScopeOf, members
<1>8. perms' = perms /\ roles' = roles \cup (roles' \ roles)
      /\ members' = (members \ (members \ members')) \cup (members' \ members)
  BY <1>2, <1>3
<1> HIDE DEF roles, perms, grants, members, direct
<1> QED
  BY <1>2, <1>5, <1>6, <1>7, <1>8 DEF ScopedContract!SetSubjectRoles

LEMMA SyncContract ==
  ASSUME ScopeInv, NEW p \in Proc, Return(p), tx[p] = "own",
         call[p].kind = "syncRolePermissions"
  PROVE  ScopedContract!SyncRolePermissions(call[p])
<1> DEFINE c == call[p]
<1>1. /\ db \in SUBSET Row /\ db' \in SUBSET Row /\ Births(db, db')
      /\ db' = Current(p) /\ c \in Calls /\ c \in CallType
      /\ pc[p] = "insert" => \A n \in NameOf(p) : ids[p][n] \in Id
      /\ \A r \in db' \ db : r.tab # "name" => pc[p] = "insert" /\ r \in Inserts(p)
      /\ \A r \in db \ db' : pc[p] = "insert" /\ Asked(p, r)
  BY OwnCommit
<1>2. /\ \A n, i : IsId(db, n, i) => IsId(db', n, i)
      /\ roles \subseteq roles' /\ perms \subseteq perms'
      /\ roles' \ roles \subseteq c.roles /\ perms' \ perms \subseteq c.perms
  BY NamesGrow
<1>3. /\ \A u, i, t, s : Assigned(u, i, t, s) \in db <=> Assigned(u, i, t, s) \in db'
      /\ \A u, j : Direct(u, j) \in db <=> Direct(u, j) \in db'
  <2>1. \A r \in db' \ db : r.tab \in {"name", "grant"}
    BY <1>1, RowFields DEF Inserts, RowsToAdd
  <2>2. \A r \in db \ db' : r.tab \notin {"assign", "direct"}
    BY <1>1 DEF Asked, DoomedAssign
  <2> QED
    BY <2>1, <2>2, RowFields
<1>4. members' = members /\ direct' = direct
  <2>1. Memberships(db') = Memberships(db) /\ Directs(db') = Directs(db)
    BY <1>1, <1>2, <1>3, SameRows
  <2> QED
    BY <2>1 DEF members, direct
<1>5. grants' \ grants \subseteq c.roles \X c.perms
  <2> SUFFICES ASSUME NEW g \in Grants(db') \ Grants(db)
               PROVE  g \in c.roles \X c.perms
    BY DEF grants
  <2>1. g[1] \in Role /\ g[2] \in Perm /\ g = <<g[1], g[2]>>
    BY <1>1, GrantChanges
  <2>2. PICK i, j : IsId(db', g[1], i) /\ IsId(db', g[2], j) /\ Granted(i, j) \in db' \ db
    BY <1>1, GrantChanges
  <2>3. Granted(i, j) \in Inserts(p) /\ pc[p] = "insert"
    BY <1>1, <2>2, RowFields
  <2>4. i \in RoleIds(p) /\ j \in PermIds(p)
    BY <2>3, RowFields DEF Inserts, RowsToAdd
  <2>5. g[1] \in c.roles /\ g[2] \in c.perms
    BY <1>1, <2>1, <2>2, <2>3, <2>4, RoleMeant, PermMeant DEF Name
  <2> QED
    BY <2>1, <2>5
<1>6. grants \ grants' \subseteq {g \in grants : g[1] \in c.roles}
  <2> SUFFICES ASSUME NEW g \in Grants(db) \ Grants(db') PROVE g[1] \in c.roles
    BY DEF grants
  <2>1. g[1] \in Role
    BY <1>1, GrantChanges
  <2>2. PICK i, j : /\ IsId(db, g[1], i) /\ IsId(db, g[2], j) /\ Granted(i, j) \in db
                    /\ ~(Granted(i, j) \in db' /\ IsId(db', g[1], i) /\ IsId(db', g[2], j))
    BY <1>1, GrantChanges
  <2>3. Asked(p, Granted(i, j)) /\ pc[p] = "insert"
    BY <1>1, <1>2, <2>2
  <2>4. i \in RoleIds(p)
    BY <2>3, RowFields DEF Asked
  <2> QED
    BY <1>1, <2>1, <2>2, <2>3, <2>4, RoleMeant DEF Name
<1>7. /\ roles' = roles \cup (roles' \ roles) /\ perms' = perms \cup (perms' \ perms)
      /\ grants' = (grants \ (grants \ grants')) \cup (grants' \ grants)
  BY <1>2
<1> HIDE DEF roles, perms, grants, members, direct
<1> QED
  BY <1>2, <1>4, <1>5, <1>6, <1>7 DEF ScopedContract!SyncRolePermissions

LEMMA DeleteRoleContract ==
  ASSUME ScopeInv, NEW p \in Proc, Return(p), tx[p] = "own", call[p].kind = "deleteRole"
  PROVE  DataSame \/ ScopedContract!DeleteRole(call[p])
<1> DEFINE c == call[p]
<1>1. /\ db \in SUBSET Row /\ db' \in SUBSET Row /\ Births(db, db')
      /\ db' = Current(p) /\ c \in Calls /\ c \in CallType
      /\ pc[p] \in {"return", "insert"}
      /\ pc[p] = "insert" => \A n \in NameOf(p) : ids[p][n] \in Id
      /\ \A r \in db \ db' : pc[p] = "insert" /\ Asked(p, r)
  BY OwnCommit
<1>2. ins[p] = {}
  <2>1. Holds(p)
    BY ScopeTyped
  <2>2. Inserts(p) = {} /\ c.kind \in FindOnlyKinds
    BY DEF Inserts, RowsToAdd, FindOnlyKinds
  <2> QED
    BY <2>1, <2>2 DEF Holds
<1>3. db' \subseteq db
  BY <1>1, <1>2 DEF Current
<1>4. CASE pc[p] = "return"
  <2>1. db' = db
    BY <1>1, <1>3, <1>4
  <2> QED
    BY <2>1, SameData
<1>5. CASE pc[p] = "insert"
  <2>1. One(c.roles)
    BY <1>1, CallShapes
  <2>2. PICK n \in c.roles : c.roles = {n}
    BY <2>1 DEF One
  <2> DEFINE i0 == ids[p][n]
  <2>3. n \in NameOf(p) /\ n \in Role /\ RoleIds(p) = {i0}
    BY <1>1, <2>2 DEF NameOf, CallType, RoleIds
  <2>4. \A m \in Name : IsId(db, m, i0) => m = n
    BY <1>1, <1>5, <2>3, OnlyMeaning
  <2>5. \A m, i : IsId(db, m, i) => m \in Name
    <3>1. \A m, i : IsId(db, m, i) => Named(i, m) \in Row
      BY <1>1 DEF IsId
    <3> QED
      BY <3>1, RowShapes, RowFields
  <2>6. Role \cap Perm = {} /\ Name = Role \cup Perm
    BY TablesAssumption DEF Name
  <2>7. Cleared(p)
    BY ScopeTyped
  <2>8. IsId(db, n, i0) => ~IsId(db', n, i0)
    BY <1>1, <1>2, <1>5, <2>2, <2>7 DEF Cleared, IsId, Current
  <2> HIDE DEF i0
  <2>9. \A m, i : IsId(db, m, i) /\ ~IsId(db', m, i) => m = n /\ IsId(db, n, i0)
    <3> SUFFICES ASSUME NEW m, NEW i, IsId(db, m, i), ~IsId(db', m, i)
                 PROVE  m = n /\ IsId(db, n, i0)
      OBVIOUS
    <3>1. Asked(p, Named(i, m))
      BY <1>1 DEF IsId
    <3>2. i = i0
      BY <2>3, <3>1, RowFields DEF Asked
    <3> QED
      BY <2>4, <2>5, <3>2
  <2>10. \A m, i : IsId(db', m, i) => IsId(db, m, i)
    BY <1>3 DEF IsId
  <2>11. \A i, j : Granted(i, j) \in db /\ Granted(i, j) \notin db' => i = i0
    BY <1>1, <2>3, RowFields DEF Asked
  <2>12. \A u, i, t, s : Assigned(u, i, t, s) \in db /\ Assigned(u, i, t, s) \notin db' => i = i0
    BY <1>1, <2>3, RowFields DEF Asked, DoomedAssign
  <2>13. \A u, j : Direct(u, j) \in db => Direct(u, j) \in db'
    BY <1>1, RowFields DEF Asked
  <2>14. grants' \subseteq grants /\ members' \subseteq members /\ direct' \subseteq direct
    <3>1. \A g \in Grants(db') \ Grants(db) : FALSE
      BY <1>1, <1>3, GrantChanges
    <3>2. \A m \in Memberships(db') \ Memberships(db) : FALSE
      BY <1>1, <1>3, MemberChanges
    <3>3. \A d \in Directs(db') \ Directs(db) : FALSE
      BY <1>1, <1>3, DirectChanges
    <3> QED
      BY <3>1, <3>2, <3>3 DEF grants, members, direct
  <2>15. \A g \in grants \ grants' : g[1] = n /\ IsId(db, n, i0)
    <3> SUFFICES ASSUME NEW g \in Grants(db) \ Grants(db')
                 PROVE  g[1] = n /\ IsId(db, n, i0)
      BY DEF grants
    <3>1. g[1] \in Role /\ g[2] \in Perm
      BY <1>1, GrantChanges
    <3>2. PICK i, j : /\ IsId(db, g[1], i) /\ IsId(db, g[2], j) /\ Granted(i, j) \in db
                      /\ ~(Granted(i, j) \in db' /\ IsId(db', g[1], i) /\ IsId(db', g[2], j))
      BY <1>1, GrantChanges
    <3>3. g[2] # n
      BY <2>3, <2>6, <3>1
    <3> QED
      BY <2>4, <2>6, <2>9, <2>11, <3>1, <3>2, <3>3
  <2>16. \A m \in members \ members' : m.role = n /\ IsId(db, n, i0)
    <3> SUFFICES ASSUME NEW m \in Memberships(db) \ Memberships(db')
                 PROVE  m.role = n /\ IsId(db, n, i0)
      BY DEF members
    <3>1. m.role \in Role
      BY <1>1, MemberChanges DEF Member
    <3>2. PICK i : /\ IsId(db, m.role, i) /\ Assigned(m.subj, i, m.tenant, m.source) \in db
                   /\ ~(Assigned(m.subj, i, m.tenant, m.source) \in db' /\ IsId(db', m.role, i))
      BY <1>1, MemberChanges
    <3> QED
      BY <2>4, <2>6, <2>9, <2>12, <3>1, <3>2
  <2>17. direct' = direct
    <3>1. ASSUME NEW d \in Directs(db) \ Directs(db') PROVE FALSE
      <4>1. d[2] \in Perm
        BY <1>1, DirectChanges
      <4>2. PICK j : /\ IsId(db, d[2], j) /\ Direct(d[1], j) \in db
                     /\ ~(Direct(d[1], j) \in db' /\ IsId(db', d[2], j))
        BY <1>1, DirectChanges
      <4> QED
        BY <2>3, <2>6, <2>9, <2>13, <4>1, <4>2
    <3> QED
      BY <2>14, <3>1 DEF direct
  <2>18. /\ \A m : m \in roles <=> m \in Role /\ \E i : IsId(db, m, i)
         /\ \A m : m \in roles' <=> m \in Role /\ \E i : IsId(db', m, i)
         /\ \A m : m \in perms <=> m \in Perm /\ \E i : IsId(db, m, i)
         /\ \A m : m \in perms' <=> m \in Perm /\ \E i : IsId(db', m, i)
    BY <1>1, NamesAre DEF roles, perms
  <2>19. perms' = perms
    BY <2>3, <2>6, <2>9, <2>10, <2>18
  <2>20. CASE IsId(db, n, i0)
    <3>1. \A i : ~IsId(db', n, i)
      BY <2>8, <2>10, <2>20, OneId
    <3>2. roles' = roles \ c.roles
      BY <2>2, <2>9, <2>10, <2>18, <3>1
    <3>3. \A g \in grants' : g[1] # n
      <4> SUFFICES ASSUME NEW g \in Grants(db') PROVE g[1] # n
        BY DEF grants
      <4>1. g[1] \in Role /\ g[2] \in Perm /\ <<g[1], g[2]>> \in Grants(db')
        BY DEF Grants
      <4>2. \E i, j : IsId(db', g[1], i) /\ IsId(db', g[2], j) /\ Granted(i, j) \in db'
        BY <1>1, <4>1, GrantsAre
      <4> QED
        BY <3>1, <4>2
    <3>4. \A m \in members' : m.role # n
      <4> SUFFICES ASSUME NEW m \in Memberships(db') PROVE m.role # n
        BY DEF members
      <4>1. \E i : IsId(db', m.role, i)
        BY <1>1, MembersAre
      <4> QED
        BY <3>1, <4>1
    <3>5. grants' = {g \in grants : g[1] \notin c.roles}
      BY <2>2, <2>14, <2>15, <3>3
    <3>6. members' = {m \in members : m.role \notin c.roles}
      BY <2>2, <2>14, <2>16, <3>4
    <3> QED
      BY <2>17, <2>19, <3>2, <3>5, <3>6 DEF ScopedContract!DeleteRole
  <2>21. CASE ~IsId(db, n, i0)
    <3>1. roles' = roles
      BY <2>9, <2>10, <2>18, <2>21
    <3>2. grants' = grants /\ members' = members
      BY <2>14, <2>15, <2>16, <2>21
    <3> QED
      BY <2>17, <2>19, <3>1, <3>2 DEF DataSame
  <2> QED
    BY <2>20, <2>21
<1> QED
  BY <1>1, <1>4, <1>5

LEMMA RemoveSubjectContract ==
  ASSUME ScopeInv, NEW p \in Proc, Return(p), tx[p] = "own", call[p].kind = "removeSubject"
  PROVE  ScopedContract!RemoveSubject(call[p])
<1> DEFINE c == call[p]
<1>1. /\ db \in SUBSET Row /\ db' \in SUBSET Row /\ Births(db, db') /\ c \in Calls
      /\ \A r \in db' \ db : IF r.tab = "name" THEN r.name \in NameOf(p) ELSE r \in Inserts(p)
      /\ \A r \in db \ db' : Asked(p, r)
  BY OwnCommit
<1>2. /\ \A n, i : IsId(db, n, i) => IsId(db', n, i)
      /\ roles \subseteq roles' /\ perms \subseteq perms'
      /\ roles' \ roles \subseteq c.roles /\ perms' \ perms \subseteq c.perms
  BY NamesGrow
<1>3. c.roles = {} /\ c.perms = {} /\ NameOf(p) = {} /\ Inserts(p) = {}
  BY <1>1, CallShapes DEF NameOf, Inserts, RowsToAdd
<1>4. db' \subseteq db
  BY <1>1, <1>3
<1>5. \A i, j : Granted(i, j) \in db <=> Granted(i, j) \in db'
  BY <1>1, <1>4, RowFields DEF Asked
<1>6. grants' = grants
  BY <1>1, <1>2, <1>5, SameRows DEF grants
<1>7. members' \subseteq members /\ direct' \subseteq direct
  <2>1. \A m \in Memberships(db') \ Memberships(db) : FALSE
    BY <1>1, <1>4, MemberChanges
  <2>2. \A d \in Directs(db') \ Directs(db) : FALSE
    BY <1>1, <1>4, DirectChanges
  <2> QED
    BY <2>1, <2>2 DEF members, direct
<1>8. members \ members' \subseteq {m \in members : m.subj = c.subj}
  <2> SUFFICES ASSUME NEW m \in Memberships(db) \ Memberships(db') PROVE m.subj = c.subj
    BY DEF members
  <2>1. PICK i : /\ IsId(db, m.role, i) /\ Assigned(m.subj, i, m.tenant, m.source) \in db
                 /\ ~(Assigned(m.subj, i, m.tenant, m.source) \in db' /\ IsId(db', m.role, i))
    BY <1>1, MemberChanges
  <2>2. Asked(p, Assigned(m.subj, i, m.tenant, m.source))
    BY <1>1, <1>2, <2>1
  <2> QED
    BY <2>2, RowFields DEF Asked, DoomedAssign
<1>9. direct \ direct' \subseteq {d \in direct : d[1] = c.subj}
  <2> SUFFICES ASSUME NEW d \in Directs(db) \ Directs(db') PROVE d[1] = c.subj
    BY DEF direct
  <2>1. PICK j : /\ IsId(db, d[2], j) /\ Direct(d[1], j) \in db
                 /\ ~(Direct(d[1], j) \in db' /\ IsId(db', d[2], j))
    BY <1>1, DirectChanges
  <2>2. Asked(p, Direct(d[1], j))
    BY <1>1, <1>2, <2>1
  <2> QED
    BY <2>2, RowFields DEF Asked
<1>10. /\ roles' = roles /\ perms' = perms
       /\ members' = members \ (members \ members') /\ direct' = direct \ (direct \ direct')
  BY <1>2, <1>3, <1>7
<1> HIDE DEF roles, perms, grants, members, direct
<1> QED
  BY <1>6, <1>8, <1>9, <1>10 DEF ScopedContract!RemoveSubject

LEMMA ReturnContract ==
  ASSUME ScopeInv, NEW p \in Proc, Return(p)
  PROVE  /\ ScopedContract!Ends(p)
         /\ DataSame \/ ScopedContract!Write(call[p])
<1>1. ScopedContract!Ends(p)
  BY ScopeWords DEF ScopedContract!Ends, Return, Finished
<1>2. CASE tx[p] = "own"
  <2>1. call[p].kind \in TxKinds
    BY <1>2, OwnCommit
  <2> QED
    BY <1>1, <1>2, <2>1, SetContract, SyncContract, DeleteRoleContract, RemoveSubjectContract
       DEF ScopedContract!Write, TxKinds
<1>3. CASE tx[p] # "own"
  BY <1>1, <1>3, SameData DEF Return
<1> QED
  BY <1>2, <1>3

(* The Lucid store implements the contract when calls overlap: every change *)
(* a caller can see committed is one write's of the contract, within that   *)
(* write's scope, and deleteRole and the single writes do exactly what the  *)
(* contract says, at either isolation level, wherever a call fails.         *)
THEOREM LucidImplementsScoped ==
  ASSUME OwnTransactions
  PROVE  Spec => ImplementsScopedContract
<1>1. Init => ScopedContract!Init
  <2> SUFFICES ASSUME Init PROVE ScopedContract!Init
    OBVIOUS
  <2>1. db = {} /\ call = [p \in Proc |-> NoCall]
    BY DEF Init
  <2>2. roles = {} /\ perms = {} /\ grants = {} /\ members = {} /\ direct = {}
    BY <2>1 DEF roles, perms, grants, members, direct, NamesIn, Grants, Memberships, Directs,
                RolePermissions, DirectPermissions, Ids
  <2> QED
    BY <2>1, <2>2, ScopeWords DEF ScopedContract!Init, lost
<1>2. ScopeInv /\ [Next]_vars => [ScopedContract!Next]_(ScopedContract!vars)
  <2> SUFFICES ASSUME ScopeInv, [Next]_vars
               PROVE  ScopedContract!Next \/ UNCHANGED ScopedContract!vars
    OBVIOUS
  <2> HIDE DEF roles, perms, grants, members, direct
  <2>1. DataSame => UNCHANGED ScopedContract!data
    BY DEF DataSame, ScopedContract!data
  <2>2. LocalTyped
    BY ScopeTyped
  <2>3. ASSUME NEW p \in Proc, NEW c \in Calls, Start(p, c) PROVE ScopedContract!Next
    <3>1. call[p] = NoCall /\ DataSame
      <4>1. Placed(p)
        BY ScopeTyped
      <4> QED
        BY <2>3, <4>1, SameData DEF Start, Placed, BeginTx
    <3>2. ScopedContract!Begin(p)
      BY <2>1, <2>3, <3>1, ScopeWords DEF Start, ScopedContract!Begin
    <3> QED
      BY <3>2, ScopedBegin
  <2>4. ASSUME NEW p \in Proc, Step(p)
        PROVE  ScopedContract!Next \/ UNCHANGED ScopedContract!vars
    <3>1. CASE InsertName(p)
      BY <2>2, <3>1, InsertNameContract, ScopedStep
    <3>2. CASE DeleteRows(p)
      BY <2>2, <3>2, DeleteContract, ScopedStep
    <3>3. CASE \E r \in todo[p] : InsertRow(p, r)
      BY <2>2, <3>3, InsertContract, ScopedStep
    <3>4. CASE Return(p)
      BY <2>2, <3>4, ReturnContract, ScopedStep
    <3>5. CASE (\E n \in Name : Find(p, n)) \/ Refind(p) \/ Dispatch(p)
      BY <2>2, <3>5, SameData, ScopedStep DEF Find, Refind, Dispatch
    <3> QED
      BY <2>4, <3>1, <3>2, <3>3, <3>4, <3>5 DEF Step
  <2>5. ASSUME NEW p \in Proc, Fail(p)
        PROVE  ScopedContract!Next \/ UNCHANGED ScopedContract!vars
    <3>1. ScopedContract!Ends(p) /\ DataSame
      BY <2>5, SameData, ScopeWords DEF Fail, Finished, Rollback, ScopedContract!Ends
    <3> QED
      BY <2>2, <3>1, ScopedStep
  <2>6. ASSUME NEW p \in Proc, HostBegin(p) \/ HostEnd(p) PROVE FALSE
    <3>1. Placed(p)
      BY ScopeTyped
    <3> QED
      BY <2>6, <3>1 DEF HostBegin, HostEnd, OwnTransactions, Placed
  <2>7. CASE UNCHANGED vars
    <3>1. UNCHANGED call /\ DataSame
      BY <2>7, SameData DEF vars, local
    <3>2. UNCHANGED lost
      BY DEF lost
    <3> QED
      BY <2>1, <3>1, <3>2 DEF ScopedContract!vars
  <2> QED
    BY <2>3, <2>4, <2>5, <2>6, <2>7 DEF Next
<1>3. ScopeInv /\ [Next]_vars => ScopeInv'
  BY ScopeStep
<1> QED
  BY <1>1, <1>2, <1>3, ScopeInit, PTL DEF Spec, ImplementsScopedContract, ScopedContract!Spec

-----------------------------------------------------------------------------
(* When calls do not overlap the contract holds to the letter.  Nobody      *)
(* writes between two statements of a call, so whatever a statement finds,  *)
(* takes away or puts in place stays so until the call returns.             *)

OneAtWork == \A p, q \in Proc : ~AtRest(p) /\ ~AtRest(q) => p = q

(* What p has resolved n to is what the tables say. *)
Found(p, n) ==
  IF ids[p][n] = NoId
    THEN call[p].kind \in FindOnlyKinds /\ Ids(Current(p), {n}) = {}
    ELSE IsId(Current(p), n, ids[p][n])

(* The row is one the call is to take away, and not one it puts back. *)
Taken(p, r) ==
  CASE call[p].kind \in {"revokePermissionFromRole", "syncRolePermissions"} ->
         r.tab = "grant" /\ DoomedGrant(p, r) /\ r \notin Inserts(p)
    [] call[p].kind \in {"removeRole", "setSubjectRoles"} ->
         r.tab = "assign" /\ DoomedAssign(p, r)
    [] call[p].kind = "removeSubject" ->
         r.tab \in {"assign", "direct"} /\ r.subj = call[p].subj
    [] call[p].kind = "revokeSubjectPermission" ->
         r.tab = "direct" /\ DoomedDirect(p, r)
    [] OTHER -> FALSE

(* Where p's call is in finding its names ... *)
Finding(p) ==
  /\ Isolation = "RepeatableRead" /\ tx[p] # "none" => snap[p] = db
  /\ call[p].kind \in FindOnlyKinds => \A n \in want[p] : ids[p][n] = NoId
  /\ pc[p] \in {"insertName", "refind"} => cur[p] \in want[p]
  /\ pc[p] = "refind" => Ids(Current(p), {cur[p]}) # {}
  /\ pc[p] \in Deleting \cup {"insert", "return"} => want[p] = {}
  /\ pc[p] = "return" => /\ call[p].kind \in FindOnlyKinds
                         /\ \E n \in NameOf(p) : ids[p][n] = NoId

(* ... and what it has achieved. *)
Achieved(p) ==
  /\ IF call[p].kind = "deleteRole" /\ pc[p] = "insert"
       THEN \A n \in NameOf(p) : Ids(Current(p), {n}) = {}
       ELSE \A n \in NameOf(p) \ want[p] : Found(p, n)
  /\ pc[p] \in Deleting => Inserts(p) \subseteq todo[p]
  /\ pc[p] = "direct" /\ call[p].kind = "removeSubject" =>
       \A r \in Current(p) : r.tab = "assign" => r.subj # call[p].subj
  /\ pc[p] = "insert" => /\ \A r \in Inserts(p) : r \in todo[p] \/ r \in Current(p)
                         /\ \A r \in Current(p) : ~Taken(p, r)

ProgressInv ==
  \A p \in Proc : IF AtRest(p) THEN \A n \in Name : ids[p][n] = NoId
                               ELSE Finding(p) /\ Achieved(p)

LoneInv == ScopeInv /\ ProgressInv

LEMMA LoneTyped ==
  ASSUME LoneInv, NEW p \in Proc
  PROVE  /\ LocalTyped /\ DbTyped /\ TypeInv /\ SecretsInv /\ KeysInv
         /\ Placed(p) /\ Holds(p) /\ Cleared(p)
         /\ ~AtRest(p) => Finding(p) /\ Achieved(p)
BY ScopeTyped DEF LoneInv, ProgressInv, ScopeInv

(* The view of a call at work is the present, whatever the isolation level. *)
LEMMA SeesAll ==
  ASSUME LoneInv, NEW p \in Proc, ~AtRest(p)
  PROVE  /\ View(p) = Current(p) /\ Current(p) \in SUBSET Row
         /\ \A n : \A i : i \in Ids(Current(p), {n}) <=> IsId(Current(p), n, i)
<1>1. View(p) = Current(p) /\ Current(p) \in SUBSET Row
  BY LoneTyped DEF Finding, View, Current, DbTyped
<1> QED
  BY <1>1, IdsOfOne

LEMMA RowsTyped ==
  ASSUME LoneInv, NEW p \in Proc, Acts(p)
  PROVE  Current(p)' \in SUBSET Row
<1>1. [Next]_vars /\ TypeInv
  BY LoneTyped DEF Acts, Next
<1>2. TypeInv'
  BY <1>1, TypeStep
<1> QED
  BY <1>2 DEF TypeInv, TypeOK, Current

LEMMA StartProgress ==
  ASSUME LoneInv, OwnTransactions, NEW p \in Proc, NEW c \in Calls, Start(p, c)
  PROVE  Finding(p)' /\ Achieved(p)'
<1>1. LocalTyped /\ DbTyped /\ KeysInv /\ Placed(p) /\ \A n \in Name : ids[p][n] = NoId
  BY LoneTyped DEF LoneInv, ProgressInv, Start
<1>2. /\ pc'[p] = "find" /\ call'[p] = c /\ want'[p] = c.roles \cup c.perms
      /\ ids' = ids /\ db' = db
  BY <1>1 DEF LocalTyped, Start, Goto, BeginTx
<1>3. Isolation = "RepeatableRead" /\ tx'[p] # "none" => snap'[p] = db
  <2>1. tx[p] = "none"
    BY <1>1 DEF Start, Placed
  <2> QED
    BY <1>1, <2>1 DEF Start, BeginTx, txn, DbTyped
<1>4. c.roles \cup c.perms \subseteq Name
  BY CallsTyped DEF CallType, Name
<1>5. Finding(p)'
  BY <1>1, <1>2, <1>3, <1>4 DEF Finding, Deleting
<1>6. Achieved(p)'
  BY <1>2 DEF Achieved, NameOf, Deleting
<1> QED
  BY <1>5, <1>6

LEMMA FindProgress ==
  ASSUME LoneInv, NEW p \in Proc, NEW n \in Name, Find(p, n)
  PROVE  Finding(p)' /\ Achieved(p)'
<1>1. /\ LocalTyped /\ DbTyped /\ Placed(p) /\ pc[p] = "find" /\ ~AtRest(p)
      /\ UNCHANGED <<db, call, todo, txn>>
  BY LoneTyped DEF Find, AtRest
<1>2. Finding(p) /\ Achieved(p) /\ n \in want[p]
  BY <1>1, LoneTyped DEF Find, NextNames
<1>3. Current(p)' = Current(p) /\ NameOf(p)' = NameOf(p)
  BY <1>1 DEF Current, txn, NameOf
<1>4. \A m \in NameOf(p) \ want[p] : Found(p, m)
  BY <1>1, <1>2 DEF Achieved
<1>5. NameOf(p) \subseteq Name /\ NoId \notin Id
  BY <1>1 DEF LocalTyped, CallType, NameOf, Name, NoId, Id
<1> HIDE DEF NameOf, Current
<1>6. ASSUME NEW i \in Ids(View(p), {n}), SetId(p, n, i), Resolve(p, n), UNCHANGED <<pc, cur>>
      PROVE  Finding(p)' /\ Achieved(p)'
  <2>1. IsId(Current(p), n, i) /\ i \in Id
    BY <1>1, <1>6, SeesAll, ReadStands
  <2>2. /\ want'[p] = want[p] \ {n} /\ ids'[p][n] = i /\ pc' = pc
        /\ \A m \in Name : m # n => ids'[p][m] = ids[p][m]
    BY <1>1, <1>6 DEF SetId, Resolve, LocalTyped
  <2>3. \A m \in NameOf(p) \ want'[p] : Found(p, m)'
    BY <1>1, <1>3, <1>4, <1>5, <2>1, <2>2 DEF Found, IsId
  <2>4. want[p] \subseteq Name
    BY <1>1 DEF LocalTyped
  <2>5. Finding(p)'
    BY <1>1, <1>2, <2>2, <2>4 DEF Finding, txn, Deleting
  <2>6. Achieved(p)'
    BY <1>1, <1>3, <2>2, <2>3 DEF Achieved, Deleting
  <2> QED
    BY <2>5, <2>6
<1>7. ASSUME Ids(View(p), {n}) = {}, Resolve(p, n), UNCHANGED <<pc, cur, ids>>,
             call[p].kind \in FindOnlyKinds
      PROVE  Finding(p)' /\ Achieved(p)'
  <2>1. want'[p] = want[p] \ {n} /\ ids[p][n] = NoId /\ Ids(Current(p), {n}) = {}
    BY <1>1, <1>2, <1>7, SeesAll DEF Resolve, LocalTyped, Finding
  <2>2. \A m \in NameOf(p) \ want'[p] : Found(p, m)'
    BY <1>1, <1>3, <1>4, <1>7, <2>1 DEF Found, IsId
  <2>3. Finding(p)'
    BY <1>1, <1>2, <1>7, <2>1 DEF Finding, txn, Deleting
  <2>4. Achieved(p)'
    BY <1>1, <1>3, <1>7, <2>2 DEF Achieved, Deleting
  <2> QED
    BY <2>3, <2>4
<1>8. ASSUME cur' = [cur EXCEPT ![p] = n], Goto(p, "insertName"), UNCHANGED <<want, ids>>
      PROVE  Finding(p)' /\ Achieved(p)'
  <2>1. pc'[p] = "insertName" /\ cur'[p] = n
    BY <1>1, <1>8 DEF Goto, LocalTyped
  <2>2. \A m \in NameOf(p) \ want'[p] : Found(p, m)'
    BY <1>1, <1>3, <1>4, <1>8 DEF Found, IsId
  <2>3. Finding(p)'
    BY <1>1, <1>2, <1>8, <2>1 DEF Finding, txn, Deleting
  <2>4. Achieved(p)'
    BY <1>1, <1>3, <1>8, <2>1, <2>2 DEF Achieved, Deleting
  <2> QED
    BY <2>3, <2>4
<1> QED
  BY <1>6, <1>7, <1>8 DEF Find

(* After the INSERT the name is there, whoever put it there. *)
LEMMA InsertNameProgress ==
  ASSUME LoneInv, NEW p \in Proc, InsertName(p)
  PROVE  Finding(p)' /\ Achieved(p)'
<1>1. /\ LocalTyped /\ DbTyped /\ KeysInv /\ Placed(p) /\ pc[p] = "insertName" /\ ~AtRest(p)
      /\ UNCHANGED <<call, want, cur, todo>>
  BY LoneTyped DEF InsertName, AtRest
<1>2. Finding(p) /\ Achieved(p)
  BY <1>1, LoneTyped
<1>3. PICK j \in Fresh : InsertIgnore(p, Named(j, cur[p])) /\ SetId(p, cur[p], j)
  BY DEF InsertName
<1> DEFINE r == Named(j, cur[p])
           add == IF \E x \in Current(p) : SameKey(r, x) THEN {} ELSE {r}
<1>4. Write(p, add, {})
  BY <1>3 DEF InsertIgnore
<1>5. \A x \in Row : SameKey(r, x) => \E i : x = Named(i, cur[p])
  BY RowShapes, RowFields DEF SameKey
<1>6. Current(p) \in SUBSET Row
  BY <1>1, SeesAll
<1>7. (\E i : IsId(Current(p), cur[p], i)) \/ IsId(add, cur[p], j)
  BY <1>5, <1>6 DEF IsId
<1> HIDE DEF add
<1>8. /\ tx' = tx /\ snap' = snap /\ (tx[p] # "none" => db' = db)
      /\ \A x : x \in Current(p) \/ x \in add => x \in Current(p)'
  <2>1. CASE tx[p] = "none"
    BY <1>1, <1>4, <2>1 DEF Write, Current, KeysInv
  <2>2. CASE tx[p] # "none"
    <3>1. db' = db /\ ins'[p] = ins[p] \cup add /\ del'[p] = del[p] \ add
      BY <1>1, <1>4, <2>2 DEF Write, DbTyped
    <3> QED
      BY <1>4, <2>2, <3>1 DEF Write, Current
  <2> QED
    BY <2>1, <2>2
<1>9. pc'[p] = "refind" /\ \A m \in Name : m # cur[p] => ids'[p][m] = ids[p][m]
  BY <1>1, <1>3 DEF InsertName, Goto, SetId, LocalTyped
<1>10. Ids(Current(p)', {cur[p]}) # {}
  <2>1. \E i : IsId(Current(p)', cur[p], i)
    BY <1>7, <1>8 DEF IsId
  <2>2. Current(p)' \in SUBSET Row
    BY RowsTyped DEF Acts, Step
  <2> QED
    BY <2>1, <2>2, IdsOfOne
<1>11. NameOf(p)' = NameOf(p) /\ NameOf(p) \subseteq Name /\ cur[p] \in want[p]
  BY <1>1, <1>2 DEF NameOf, LocalTyped, CallType, Name, Finding
<1>12. call[p].kind \notin FindOnlyKinds
  BY <1>1 DEF Placed
<1> HIDE DEF Current, NameOf
<1>13. \A m \in NameOf(p) \ want[p] : Found(p, m)'
  <2> SUFFICES ASSUME NEW m \in NameOf(p) \ want[p] PROVE Found(p, m)'
    OBVIOUS
  <2>1. Found(p, m) /\ ids'[p][m] = ids[p][m]
    BY <1>1, <1>2, <1>9, <1>11 DEF Achieved
  <2> QED
    BY <1>1, <1>8, <1>12, <2>1 DEF Found, IsId
<1>14. Finding(p)'
  BY <1>1, <1>2, <1>8, <1>9, <1>10, <1>12 DEF Finding, Deleting
<1>15. Achieved(p)'
  BY <1>1, <1>9, <1>11, <1>13 DEF Achieved, Deleting
<1> QED
  BY <1>14, <1>15

LEMMA RefindProgress ==
  ASSUME LoneInv, NEW p \in Proc, Refind(p)
  PROVE  Finding(p)' /\ Achieved(p)'
<1>1. /\ LocalTyped /\ DbTyped /\ Placed(p) /\ pc[p] = "refind" /\ ~AtRest(p)
      /\ UNCHANGED <<db, call, todo, txn>>
  BY LoneTyped DEF Refind, AtRest
<1>2. Finding(p) /\ Achieved(p)
  BY <1>1, LoneTyped
<1>3. Current(p)' = Current(p) /\ NameOf(p)' = NameOf(p)
  BY <1>1 DEF Current, txn, NameOf
<1>4. \A m \in NameOf(p) \ want[p] : Found(p, m)
  BY <1>1, <1>2 DEF Achieved
<1>5. NameOf(p) \subseteq Name /\ NoId \notin Id /\ want[p] \subseteq Name
  BY <1>1 DEF LocalTyped, CallType, NameOf, Name, NoId, Id
<1>6. cur[p] \in want[p] /\ call[p].kind \notin FindOnlyKinds
  BY <1>1, <1>2 DEF Finding, Placed
<1> HIDE DEF NameOf, Current
<1>7. PICK i \in Ids(View(p), {cur[p]}) : SetId(p, cur[p], i)
  BY <1>1, <1>2, SeesAll DEF Refind, Finding
<1>8. IsId(Current(p), cur[p], i) /\ i \in Id
  BY <1>1, <1>5, <1>6, <1>7, SeesAll, ReadStands
<1>9. /\ want'[p] = want[p] \ {cur[p]} /\ pc'[p] = "find" /\ ids'[p][cur[p]] = i
      /\ \A m \in Name : m # cur[p] => ids'[p][m] = ids[p][m]
  BY <1>1, <1>5, <1>6, <1>7 DEF Refind, SetId, Resolve, Goto, LocalTyped
<1>10. \A m \in NameOf(p) \ want'[p] : Found(p, m)'
  BY <1>1, <1>3, <1>4, <1>5, <1>8, <1>9 DEF Found, IsId
<1>11. Finding(p)'
  BY <1>1, <1>2, <1>6, <1>9 DEF Finding, txn, Deleting
<1>12. Achieved(p)'
  BY <1>1, <1>3, <1>9, <1>10 DEF Achieved, Deleting
<1> QED
  BY <1>11, <1>12

(* A call with nothing to delete goes on with nothing to take away.         *)
LEMMA DispatchProgress ==
  ASSUME LoneInv, NEW p \in Proc, Dispatch(p)
  PROVE  Finding(p)' /\ Achieved(p)'
<1>1. /\ LocalTyped /\ DbTyped /\ Placed(p) /\ TypeInv /\ pc[p] = "find" /\ want[p] = {}
      /\ ~AtRest(p) /\ UNCHANGED <<db, call, want, cur, ids, txn>>
  BY LoneTyped DEF Dispatch, AtRest
<1> DEFINE c == call[p]
<1>2. Finding(p) /\ Achieved(p) /\ c.kind \in AllKinds
  <2>1. c \in Calls
    BY <1>1 DEF TypeInv, CallsOK
  <2> QED
    BY <1>1, <2>1, LoneTyped, CallShapes
<1>3. /\ Current(p)' = Current(p) /\ NameOf(p)' = NameOf(p)
      /\ RoleIds(p)' = RoleIds(p) /\ PermIds(p)' = PermIds(p)
  BY <1>1 DEF Current, txn, NameOf, RoleIds, PermIds
<1>4. Inserts(p)' = Inserts(p)
  BY <1>1, <1>3 DEF Inserts
<1>5. \A m \in NameOf(p) \ want'[p] : Found(p, m)'
  <2>1. \A m \in NameOf(p) : Found(p, m)
    BY <1>1, <1>2 DEF Achieved
  <2> HIDE DEF Current, NameOf
  <2> QED
    BY <1>1, <1>3, <2>1 DEF Found, IsId
<1>6. CASE pc'[p] = "return" /\ todo' = todo /\ c.kind \in FindOnlyKinds
           /\ \E n \in NameOf(p) : ids[p][n] = NoId
  <2> HIDE DEF NameOf
  <2>1. Finding(p)'
    BY <1>1, <1>2, <1>3, <1>6 DEF Finding, txn, Deleting
  <2>2. Achieved(p)'
    BY <1>1, <1>3, <1>5, <1>6 DEF Achieved, Deleting
  <2> QED
    BY <2>1, <2>2
<1>7. CASE pc'[p] = FirstWrite(c.kind) /\ todo'[p] = Inserts(p)
  <2>1. pc'[p] \in {"grant", "assign", "direct", "insert"}
    BY <1>7 DEF FirstWrite
  <2>2. Finding(p)'
    BY <1>1, <1>2, <2>1 DEF Finding, txn, Deleting
  <2>3. pc'[p] = "direct" => c.kind # "removeSubject"
    BY <1>7 DEF FirstWrite
  <2>4. pc'[p] = "insert" => /\ c.kind # "deleteRole"
                             /\ \A r : ~Taken(p, r)'
    <3>1. pc'[p] = "insert" =>
            c.kind \notin {"revokePermissionFromRole", "deleteRole", "syncRolePermissions",
                          "removeRole", "setSubjectRoles", "removeSubject",
                          "revokeSubjectPermission"}
      BY <1>7 DEF FirstWrite
    <3> QED
      BY <1>1, <3>1 DEF Taken
  <2>5. Achieved(p)'
    <3> HIDE DEF NameOf, Inserts
    <3> QED
      BY <1>1, <1>3, <1>4, <1>5, <1>7, <2>1, <2>3, <2>4 DEF Achieved, Deleting
  <2> QED
    BY <2>2, <2>5
<1> QED
  BY <1>1, <1>6, <1>7 DEF Dispatch, Goto, LocalTyped, NameOf

(* What a DELETE leaves of what p sees. *)
LEMMA DeleteLeaves ==
  ASSUME LoneInv, NEW p \in Proc, DeleteRows(p)
  PROVE  /\ Current(p)' = Current(p) \ Doomed(p)
         /\ tx' = tx /\ snap' = snap /\ (tx[p] # "none" => db' = db)
<1>1. DbTyped /\ KeysInv /\ Write(p, {}, Doomed(p))
  BY LoneTyped DEF DeleteRows
<1>2. Doomed(p) \subseteq Current(p)
  BY DEF Doomed
<1>3. CASE tx[p] = "none"
  <2>1. db' = db \ Doomed(p) /\ ins'[p] = {} /\ del'[p] = {} /\ ins[p] = {} /\ del[p] = {}
    BY <1>1, <1>3 DEF Write, KeysInv
  <2> QED
    BY <1>1, <1>3, <2>1 DEF Write, Current
<1>4. CASE tx[p] # "none"
  <2> DEFINE D == Doomed(p)
  <2>1. db' = db /\ ins'[p] = ins[p] \ D /\ del'[p] = del[p] \cup (D \cap db)
    BY <1>1, <1>4 DEF Write, DbTyped
  <2>2. tx' = tx /\ snap' = snap
    BY <1>1 DEF Write
  <2> HIDE DEF D
  <2>3. Current(p)' = Current(p) \ D
    BY <2>1 DEF Current
  <2> QED
    BY <2>1, <2>2, <2>3 DEF D
<1> QED
  BY <1>3, <1>4

LEMMA FoundKept ==
  ASSUME LoneInv, NEW p \in Proc, Acts(p), ~AtRest(p), NEW n, Found(p, n),
         UNCHANGED <<call, ids>>,
         \A i : IsId(Current(p)', n, i) <=> IsId(Current(p), n, i)
  PROVE  Found(p, n)'
<1>1. Current(p) \in SUBSET Row /\ Current(p)' \in SUBSET Row
  BY SeesAll, RowsTyped
<1>2. \A i : i \in Ids(Current(p)', {n}) <=> i \in Ids(Current(p), {n})
  BY <1>1, IdsOfOne
<1>3. Ids(Current(p)', {n}) = Ids(Current(p), {n})
  BY <1>2
<1> HIDE DEF Current
<1> QED
  BY <1>3 DEF Found

(* The last DELETE of a call leaves nothing it was to take away. *)
LEMMA DeleteTakes ==
  ASSUME LoneInv, NEW p \in Proc, DeleteRows(p), pc'[p] = "insert",
         NEW r \in Current(p) \ Doomed(p)
  PROVE  ~Taken(p, r)
<1>1. /\ LocalTyped /\ Placed(p) /\ pc[p] \in Deleting /\ ~AtRest(p)
      /\ pc'[p] = NextWrite(call[p].kind, pc[p])
  BY LoneTyped DEF DeleteRows, Deleting, AtRest, Goto, LocalTyped
<1>2. Achieved(p) /\ r \in Row
  BY <1>1, LoneTyped, SeesAll
<1>3. r.tab = pc[p] => ~CASE r.tab = "grant"  -> DoomedGrant(p, r)
                          [] r.tab = "assign" -> DoomedAssign(p, r)
                          [] r.tab = "direct" -> DoomedDirect(p, r)
                          [] r.tab = "name"   -> r.id \in RoleIds(p)
  BY DEF Doomed
<1> SUFFICES ASSUME Taken(p, r) PROVE FALSE
  OBVIOUS
<1>4. CASE call[p].kind \in {"revokePermissionFromRole", "syncRolePermissions"}
  <2>1. pc[p] = "grant" /\ r.tab = "grant" /\ DoomedGrant(p, r)
    BY <1>1, <1>4 DEF Placed, Deleting, Taken
  <2> QED
    BY <1>3, <2>1
<1>5. CASE call[p].kind \in {"removeRole", "setSubjectRoles"}
  <2>1. pc[p] = "assign" /\ r.tab = "assign" /\ DoomedAssign(p, r)
    BY <1>1, <1>5 DEF Placed, Deleting, Taken
  <2> QED
    BY <1>3, <2>1
<1>6. CASE call[p].kind = "removeSubject"
  <2>1. pc[p] = "direct"
    BY <1>1, <1>6 DEF Placed, Deleting, NextWrite
  <2>2. r.tab \in {"assign", "direct"} /\ r.subj = call[p].subj
    BY <1>6 DEF Taken
  <2>3. r.tab = "direct"
    BY <1>2, <1>6, <2>1, <2>2 DEF Achieved
  <2> QED
    BY <1>3, <1>6, <2>1, <2>2, <2>3 DEF DoomedDirect
<1>7. CASE call[p].kind = "revokeSubjectPermission"
  <2>1. pc[p] = "direct" /\ r.tab = "direct" /\ DoomedDirect(p, r)
    BY <1>1, <1>7 DEF Placed, Deleting, Taken
  <2> QED
    BY <1>3, <2>1
<1> QED
  BY <1>4, <1>5, <1>6, <1>7 DEF Taken

LEMMA DeleteRowsProgress ==
  ASSUME LoneInv, NEW p \in Proc, DeleteRows(p)
  PROVE  Finding(p)' /\ Achieved(p)'
<1>1. /\ LocalTyped /\ DbTyped /\ KeysInv /\ TypeInv /\ Placed(p) /\ ~AtRest(p)
      /\ pc[p] \in Deleting /\ UNCHANGED <<call, want, cur, ids, todo>>
  BY LoneTyped DEF DeleteRows, Deleting, AtRest
<1> DEFINE c == call[p]
<1>2. Finding(p) /\ Achieved(p)
  BY <1>1, LoneTyped
<1>3. /\ Current(p)' = Current(p) \ Doomed(p)
      /\ tx' = tx /\ snap' = snap /\ (tx[p] # "none" => db' = db)
  BY DeleteLeaves
<1>4. pc'[p] = NextWrite(c.kind, pc[p])
  BY <1>1 DEF DeleteRows, Goto, LocalTyped
<1>5. /\ NameOf(p)' = NameOf(p) /\ RoleIds(p)' = RoleIds(p) /\ PermIds(p)' = PermIds(p)
      /\ Inserts(p)' = Inserts(p)
      /\ \A r : DoomedAssign(p, r)' = DoomedAssign(p, r)
      /\ \A r : DoomedGrant(p, r)' = DoomedGrant(p, r)
      /\ \A r : DoomedDirect(p, r)' = DoomedDirect(p, r)
  BY <1>1 DEF NameOf, RoleIds, PermIds, Inserts, DoomedAssign, DoomedGrant, DoomedDirect, Unlisted
<1>6. \A r : Taken(p, r)' = Taken(p, r)
  <2> HIDE DEF Inserts, DoomedAssign, DoomedGrant, DoomedDirect
  <2> QED
    BY <1>1, <1>5 DEF Taken
<1>7. pc'[p] \in {"assign", "direct", "name", "insert"}
  BY <1>4 DEF NextWrite
<1>8. Finding(p)'
  BY <1>1, <1>2, <1>3, <1>7 DEF Finding, Deleting
<1>9. want[p] = {} /\ \A n \in NameOf(p) : Found(p, n)
  BY <1>1, <1>2 DEF Finding, Achieved, Deleting
<1>10. Inserts(p) \subseteq todo[p] /\ (pc'[p] = "insert" => \A r \in Current(p)' : ~Taken(p, r)')
  BY <1>1, <1>2, <1>3, <1>6, DeleteTakes DEF Achieved
<1>11. CASE pc[p] = "name"
  <2>1. c.kind = "deleteRole" /\ pc'[p] = "insert"
    BY <1>1, <1>4, <1>11 DEF Placed, NextWrite
  <2>2. c.perms = {}
    BY <1>1, <2>1, CallShapes DEF TypeInv, CallsOK
  <2>3. ASSUME NEW n \in NameOf(p) PROVE Ids(Current(p)', {n}) = {}
    <3>1. ids[p][n] \in Id /\ ids[p][n] \in RoleIds(p)
      BY <1>1, <2>2 DEF Placed, Deleting, NameOf, RoleIds
    <3>2. IsId(Current(p), n, ids[p][n])
      <4>1. ids[p][n] # NoId /\ Found(p, n)
        BY <1>9, <3>1 DEF Id, NoId
      <4> QED
        BY <4>1 DEF Found
    <3>3. \A i : IsId(Current(p), n, i) => i = ids[p][n]
      <4>1. UniqueNames(Current(p))
        BY <1>1 DEF KeysInv
      <4> QED
        BY <3>2, <4>1, RowFields DEF UniqueNames, IsId
    <3>4. \A i : IsId(Current(p), n, i) => Named(i, n) \in Doomed(p)
      <4> SUFFICES ASSUME NEW i, IsId(Current(p), n, i) PROVE Named(i, n) \in Doomed(p)
        OBVIOUS
      <4>1. Named(i, n).tab = "name" /\ Named(i, n).id \in RoleIds(p)
        BY <3>1, <3>3, RowFields
      <4> QED
        BY <1>11, <4>1 DEF Doomed, IsId
    <3>5. \A i : ~IsId(Current(p)', n, i)
      BY <1>3, <3>4 DEF IsId
    <3> QED
      BY <3>5, RowsTyped, IdsOfOne DEF Acts, Step
  <2> HIDE DEF NameOf, Inserts, Current, Taken
  <2> QED
    BY <1>1, <1>5, <1>8, <1>10, <2>1, <2>3 DEF Achieved, Deleting
<1>12. CASE pc[p] # "name"
  <2>1. ~(c.kind = "deleteRole" /\ pc'[p] = "insert")
    BY <1>1, <1>4, <1>12 DEF Placed, NextWrite, Deleting
  <2>2. \A n, i : IsId(Current(p)', n, i) <=> IsId(Current(p), n, i)
    <3>1. \A r \in Doomed(p) : r.tab # "name"
      BY <1>12 DEF Doomed
    <3> HIDE DEF Current, Doomed
    <3> QED
      BY <1>3, <3>1, RowFields DEF IsId
  <2>3. \A n \in NameOf(p) : Found(p, n)'
    BY <1>1, <1>9, <2>2, FoundKept DEF Acts, Step
  <2>4. pc'[p] = "direct" /\ c.kind = "removeSubject" =>
          \A r \in Current(p)' : r.tab = "assign" => r.subj # c.subj
    <3> SUFFICES ASSUME pc'[p] = "direct", c.kind = "removeSubject",
                        NEW r \in Current(p) \ Doomed(p), r.tab = "assign", r.subj = c.subj
                 PROVE  FALSE
      BY <1>3
    <3>1. pc[p] = "assign"
      BY <1>1, <1>4 DEF Placed, NextWrite, Deleting
    <3>2. DoomedAssign(p, r)
      BY DEF DoomedAssign
    <3> QED
      BY <3>1, <3>2 DEF Doomed
  <2> HIDE DEF NameOf, Inserts, Current, Taken
  <2> QED
    BY <1>1, <1>5, <1>8, <1>10, <2>1, <2>3, <2>4 DEF Achieved, Deleting
<1> QED
  BY <1>11, <1>12

(* What a call adds is never what it takes away.                            *)
LEMMA AddedStays ==
  ASSUME NEW p \in Proc, NEW r \in Inserts(p)
  PROVE  ~Taken(p, r) /\ call[p].kind # "deleteRole"
<1>1. CASE call[p].kind = "setSubjectRoles"
  <2>1. PICK i \in RoleIds(p), s \in call[p].sources :
          r = Assigned(call[p].subj, i, call[p].tenant, s)
    BY <1>1 DEF Inserts, RowsToAdd
  <2>2. r.role \in RoleIds(p)
    BY <2>1, RowFields
  <2> QED
    BY <1>1, <2>2 DEF Taken, DoomedAssign, Unlisted
<1>2. CASE call[p].kind # "setSubjectRoles"
  BY <1>2 DEF Inserts, RowsToAdd, Taken
<1> QED
  BY <1>1, <1>2

LEMMA InsertRowProgress ==
  ASSUME LoneInv, NEW p \in Proc, NEW r \in todo[p], InsertRow(p, r)
  PROVE  Finding(p)' /\ Achieved(p)'
<1>1. /\ LocalTyped /\ DbTyped /\ KeysInv /\ SecretsInv /\ Placed(p) /\ ~AtRest(p)
      /\ pc[p] = "insert" /\ UNCHANGED <<pc, call, want, cur, ids>>
  BY LoneTyped DEF InsertRow, AtRest
<1>2. Finding(p) /\ Achieved(p)
  BY <1>1, LoneTyped
<1>3. r \in Inserts(p) /\ r.tab # "name"
  BY <1>1 DEF Placed, SecretsInv
<1> DEFINE add == IF \E x \in Current(p) : SameKey(r, x) THEN {} ELSE {r}
<1>4. Write(p, add, {}) /\ add \subseteq {r}
  BY DEF InsertRow, InsertIgnore
<1>5. r \in Current(p) \/ r \in add
  BY <1>3 DEF SameKey
<1> HIDE DEF add
<1>6. /\ tx' = tx /\ snap' = snap /\ (tx[p] # "none" => db' = db)
      /\ Current(p)' = Current(p) \cup add
  <2>1. CASE tx[p] = "none"
    BY <1>1, <1>4, <2>1 DEF Write, Current, KeysInv
  <2>2. CASE tx[p] # "none"
    <3>1. db' = db /\ ins'[p] = ins[p] \cup add /\ del'[p] = del[p] \ add
      BY <1>1, <1>4, <2>2 DEF Write, DbTyped
    <3>2. del[p] \subseteq db
      BY <1>1 DEF KeysInv
    <3> QED
      BY <1>4, <2>2, <3>1, <3>2 DEF Write, Current
  <2> QED
    BY <2>1, <2>2
<1>7. todo'[p] = todo[p] \ {r}
  BY <1>1 DEF InsertRow, LocalTyped
<1>8. /\ NameOf(p)' = NameOf(p) /\ RoleIds(p)' = RoleIds(p) /\ PermIds(p)' = PermIds(p)
      /\ Inserts(p)' = Inserts(p)
      /\ \A x : DoomedAssign(p, x)' = DoomedAssign(p, x)
      /\ \A x : DoomedGrant(p, x)' = DoomedGrant(p, x)
      /\ \A x : DoomedDirect(p, x)' = DoomedDirect(p, x)
  BY <1>1 DEF NameOf, RoleIds, PermIds, Inserts, DoomedAssign, DoomedGrant, DoomedDirect, Unlisted
<1>9. \A x : Taken(p, x)' = Taken(p, x)
  <2> HIDE DEF Inserts, DoomedAssign, DoomedGrant, DoomedDirect
  <2> QED
    BY <1>1, <1>8 DEF Taken
<1>10. call[p].kind # "deleteRole" /\ ~Taken(p, r)
  BY <1>3, AddedStays
<1>11. want[p] = {} /\ \A n \in NameOf(p) : Found(p, n)
  BY <1>1, <1>2, <1>10 DEF Finding, Achieved
<1>12. \A n \in NameOf(p) : Found(p, n)'
  <2>1. \A n, i : IsId(Current(p)', n, i) <=> IsId(Current(p), n, i)
    BY <1>3, <1>4, <1>6, RowFields DEF IsId
  <2> QED
    BY <1>1, <1>11, <2>1, FoundKept DEF Acts, Step
<1>13. /\ \A x \in Inserts(p) : x \in todo'[p] \/ x \in Current(p)'
       /\ \A x \in Current(p)' : ~Taken(p, x)'
  <2>1. /\ \A x \in Inserts(p) : x \in todo[p] \/ x \in Current(p)
        /\ \A x \in Current(p) : ~Taken(p, x)
    BY <1>1, <1>2 DEF Achieved
  <2> HIDE DEF Inserts, Current, Taken
  <2> QED
    BY <1>4, <1>5, <1>6, <1>7, <1>9, <1>10, <2>1
<1>14. Finding(p)'
  BY <1>1, <1>2, <1>6 DEF Finding, Deleting
<1>15. Achieved(p)'
  <2> HIDE DEF NameOf, Inserts, Current, Taken
  <2> QED
    BY <1>1, <1>8, <1>10, <1>12, <1>13 DEF Achieved, Deleting
<1> QED
  BY <1>14, <1>15

(* A call that goes on had the database to itself, and a call that begins   *)
(* has it from then on.                                                     *)
LEMMA OthersRest ==
  ASSUME LoneInv, OwnTransactions, OneAtWork, OneAtWork', NEW p \in Proc, Acts(p),
         NEW q \in Proc \ {p}
  PROVE  AtRest(q)' /\ \A n \in Name : ids'[q][n] = NoId
<1>1. LocalTyped /\ DbTyped /\ Placed(p)
  BY LoneTyped
<1>2. Aside(q)
  BY <1>1, OthersAside
<1>3. AtRest(q)' <=> AtRest(q)
  BY <1>2 DEF AtRest, Aside
<1>4. AtRest(q)
  <2>1. CASE \E c \in Calls : Start(p, c)
    <3>1. pc'[p] = "find"
      BY <1>1, <2>1 DEF Start, Goto, LocalTyped
    <3> QED
      BY <1>3, <3>1 DEF OneAtWork, AtRest
  <2>2. CASE Step(p) \/ Fail(p)
    <3>1. ~AtRest(p)
      BY <2>2 DEF Step, Fail, Find, InsertName, Refind, Dispatch, DeleteRows, InsertRow, Return,
         AtRest
    <3> QED
      BY <3>1 DEF OneAtWork
  <2>3. CASE HostBegin(p) \/ HostEnd(p)
    BY <1>1, <2>3 DEF HostBegin, HostEnd, OwnTransactions, Placed
  <2> QED
    BY <2>1, <2>2, <2>3 DEF Acts
<1> QED
  BY <1>2, <1>3, <1>4 DEF LoneInv, ProgressInv, Aside

LEMMA LoneStep ==
  ASSUME OwnTransactions, LoneInv, OneAtWork, OneAtWork', [Next]_vars
  PROVE  LoneInv'
<1>1. ScopeInv'
  BY ScopeStep DEF LoneInv
<1>2. ASSUME NEW p \in Proc, Acts(p) PROVE ProgressInv'
  <2>1. \A q \in Proc \ {p} : AtRest(q)' /\ \A n \in Name : ids'[q][n] = NoId
    BY <1>2, OthersRest
  <2>2. CASE Return(p) \/ Fail(p)
    <3>1. AtRest(p)' /\ \A n \in Name : ids'[p][n] = NoId
      BY <2>2, LoneTyped, FinishedAside DEF Return, Fail, AtRest
    <3> QED
      BY <2>1, <3>1 DEF ProgressInv
  <2>3. CASE ~(Return(p) \/ Fail(p))
    <3>1. ~HostBegin(p) /\ ~HostEnd(p)
      BY LoneTyped DEF HostBegin, HostEnd, OwnTransactions, Placed
    <3>2. Finding(p)' /\ Achieved(p)'
      BY <1>2, <2>3, <3>1, StartProgress, FindProgress, InsertNameProgress, RefindProgress,
         DispatchProgress, DeleteRowsProgress, InsertRowProgress DEF Acts, Step
    <3>3. ~AtRest(p)'
      <4>1. LocalTyped
        BY LoneTyped
      <4> QED
        BY <1>2, <2>3, <3>1, <4>1 DEF Acts, Step, Start, Find, InsertName, Refind, Dispatch,
           DeleteRows, InsertRow, Goto, AtRest, LocalTyped, FirstWrite, NextWrite
    <3> QED
      BY <2>1, <3>2, <3>3 DEF ProgressInv
  <2> QED
    BY <2>2, <2>3
<1>3. CASE UNCHANGED vars
  <2>1. ProgressInv' = ProgressInv
    BY <1>3 DEF vars, local, txn, ProgressInv, Finding, Achieved, Found, Taken, Current, AtRest,
       NameOf, RoleIds, PermIds, Inserts, DoomedAssign, DoomedGrant, DoomedDirect, Unlisted
  <2> QED
    BY <1>1, <2>1 DEF LoneInv
<1> QED
  BY <1>1, <1>2, <1>3 DEF Next, Acts, LoneInv

LEMMA LoneInit == Init => LoneInv
BY ScopeInit DEF Init, LoneInv, ProgressInv, AtRest

-----------------------------------------------------------------------------
(* What a call that returns has achieved. *)

LEMMA PermissionsAre ==
  ASSUME NEW D \in SUBSET Row
  PROVE  /\ \A n, q : q \in RolePermissions(D, n) <=>
              q \in Perm /\ \E i, j : IsId(D, n, i) /\ IsId(D, q, j) /\ Granted(i, j) \in D
         /\ \A u, q : q \in DirectPermissions(D, u) <=>
              q \in Perm /\ \E j : IsId(D, q, j) /\ Direct(u, j) \in D
<1>1. \A n, i : i \in Ids(D, {n}) <=> IsId(D, n, i)
  BY IdsOfOne
<1> QED
  BY <1>1 DEF RolePermissions, DirectPermissions

(* Nothing is left of what it was to take away, everything it was to add is *)
(* there, under the names it was asked for.                                 *)
Settled(p) ==
  /\ pc[p] = "insert" /\ call[p].kind # "deleteRole"
  /\ \A n \in NameOf(p) : ids[p][n] \in Id /\ IsId(Current(p), n, ids[p][n])
  /\ \A i \in RoleIds(p) : \A m \in Name : IsId(Current(p), m, i) => m \in call[p].roles
  /\ \A i \in PermIds(p) : \A m \in Name : IsId(Current(p), m, i) => m \in call[p].perms
  /\ \A r \in Inserts(p) : r \in Current(p)
  /\ \A r \in Current(p) : ~Taken(p, r)

(* One of the names it only looks up does not exist. *)
Absent(p) ==
  /\ call[p].kind \in FindOnlyKinds
  /\ \E n \in NameOf(p) : \A i : ~IsId(Current(p), n, i)

LEMMA AtReturn ==
  ASSUME LoneInv, NEW p \in Proc, Return(p)
  PROVE  /\ call[p] \in Calls /\ call[p] \in CallType /\ Current(p) \in SUBSET Row
         /\ \A n, i, j : IsId(Current(p), n, i) /\ IsId(Current(p), n, j) => i = j
         /\ Settled(p) \/ Absent(p)
<1>1. /\ LocalTyped /\ TypeInv /\ KeysInv /\ Placed(p) /\ ~AtRest(p)
      /\ pc[p] = "return" \/ (pc[p] = "insert" /\ todo[p] = {})
  BY LoneTyped DEF Return, AtRest
<1>2. Finding(p) /\ Achieved(p) /\ Current(p) \in SUBSET Row
      /\ \A n, i : i \in Ids(Current(p), {n}) <=> IsId(Current(p), n, i)
  BY <1>1, LoneTyped, SeesAll
<1>3. call[p] \in Calls /\ call[p] \in CallType
  BY <1>1 DEF TypeInv, CallsOK, LocalTyped
<1>4. \A n, i, j : IsId(Current(p), n, i) /\ IsId(Current(p), n, j) => i = j
  <2>1. UniqueNames(Current(p))
    BY <1>1 DEF KeysInv
  <2> HIDE DEF Current
  <2> QED
    BY <2>1, RowFields DEF UniqueNames, IsId
<1>5. want[p] = {}
  BY <1>1, <1>2 DEF Finding
<1>6. CASE pc[p] = "return"
  <2>1. PICK n \in NameOf(p) : ids[p][n] = NoId
    BY <1>2, <1>6 DEF Finding
  <2>2. Ids(Current(p), {n}) = {}
    BY <1>2, <1>5, <1>6, <2>1 DEF Achieved, Found
  <2>3. Absent(p)
    BY <1>2, <1>6, <2>1, <2>2 DEF Absent, Finding
  <2> QED
    BY <1>2, <1>3, <1>4, <2>3
<1>7. CASE pc[p] = "insert" /\ call[p].kind = "deleteRole"
  <2>1. One(call[p].roles)
    BY <1>3, <1>7, CallShapes
  <2>2. PICK n \in NameOf(p) : TRUE
    BY <2>1 DEF One, NameOf
  <2>3. Ids(Current(p), {n}) = {}
    BY <1>2, <1>7 DEF Achieved
  <2>4. Absent(p)
    BY <1>2, <1>7, <2>3 DEF Absent, FindOnlyKinds
  <2> QED
    BY <1>2, <1>3, <1>4, <2>4
<1>8. CASE pc[p] = "insert" /\ call[p].kind # "deleteRole"
  <2>1. \A n \in NameOf(p) : ids[p][n] \in Id /\ ids[p][n] # NoId
    BY <1>1, <1>8 DEF Placed, Id, NoId
  <2>2. \A n \in NameOf(p) : IsId(Current(p), n, ids[p][n])
    <3>1. \A n \in NameOf(p) : Found(p, n)
      BY <1>2, <1>5, <1>8 DEF Achieved
    <3> QED
      BY <2>1, <3>1 DEF Found
  <2>3. /\ \A i \in RoleIds(p) : \A m \in Name : IsId(Current(p), m, i) => m \in call[p].roles
        /\ \A i \in PermIds(p) : \A m \in Name : IsId(Current(p), m, i) => m \in call[p].perms
    BY <2>1, RoleMeant, PermMeant DEF LoneInv
  <2>4. /\ \A r \in Inserts(p) : r \in Current(p)
        /\ \A r \in Current(p) : ~Taken(p, r)
    <3> HIDE DEF Inserts, Current, Taken
    <3> QED
      BY <1>1, <1>2, <1>8 DEF Achieved
  <2>5. Settled(p)
    BY <1>8, <2>1, <2>2, <2>3, <2>4 DEF Settled
  <2> QED
    BY <1>2, <1>3, <1>4, <2>5
<1> QED
  BY <1>1, <1>6, <1>7, <1>8

LEMMA AddingHasEffect ==
  ASSUME LoneInv, NEW p \in Proc, Return(p), Settled(p),
         call[p].kind \in {"createRole", "createPermission", "givePermissionToRole",
                           "assignRole", "giveSubjectPermission"}
  PROVE  Effect(call[p], Current(p))
<1> DEFINE c == call[p]
           D == Current(p)
<1>1. /\ c \in Calls /\ c \in CallType /\ D \in SUBSET Row
      /\ \A n \in NameOf(p) : IsId(D, n, ids[p][n])
      /\ \A r \in Inserts(p) : r \in D
  BY AtReturn DEF Settled
<1>2. c.roles \subseteq Role /\ c.perms \subseteq Perm /\ c.sources \subseteq Source
      /\ c.tenant \in Tenant
  BY <1>1 DEF CallType
<1>3. /\ \A i : i \in RoleIds(p) <=> \E n \in c.roles : i = ids[p][n]
      /\ \A i : i \in PermIds(p) <=> \E q \in c.perms : i = ids[p][q]
  BY DEF RoleIds, PermIds
<1>4. \A n \in c.roles \cup c.perms : IsId(D, n, ids[p][n])
  BY <1>1 DEF NameOf
<1> SUFFICES Effect(c, D)
  OBVIOUS
<1> HIDE DEF D
<1>5. CASE c.kind = "createRole" \/ c.kind = "createPermission"
  <2>1. \A n : n \in NamesIn(D, Name) <=> n \in Name /\ \E i : IsId(D, n, i)
    BY <1>1, NamesAre
  <2>2. c.roles \cup c.perms \subseteq NamesIn(D, Name)
    BY <1>2, <1>4, <2>1 DEF Name
  <2> HIDE DEF c
  <2>3. CASE c.kind = "createRole"
    BY <2>2, <2>3 DEF Effect
  <2>4. CASE c.kind = "createPermission"
    BY <2>2, <2>4 DEF Effect
  <2> QED
    BY <1>5, <2>3, <2>4
<1>6. CASE c.kind = "givePermissionToRole"
  <2>1. PICK n \in c.roles : TRUE
    BY <1>1, <1>6, CallShapes DEF One
  <2>2. ASSUME NEW q \in c.perms PROVE q \in RolePermissions(D, n)
    <3>1. Granted(ids[p][n], ids[p][q]) \in Inserts(p)
      BY <1>3, <1>6 DEF Inserts, RowsToAdd
    <3> QED
      BY <1>1, <1>2, <1>4, <3>1, PermissionsAre
  <2> QED
    BY <1>6, <2>2 DEF Effect
<1>7. CASE c.kind = "assignRole"
  <2>1. ASSUME NEW n \in c.roles, NEW s \in c.sources
        PROVE  [subj |-> c.subj, role |-> n, tenant |-> c.tenant, source |-> s]
                 \in {m \in Memberships(D) : /\ m.subj = c.subj /\ m.tenant = c.tenant
                                             /\ m.source \in c.sources}
    <3> DEFINE m == [subj |-> c.subj, role |-> n, tenant |-> c.tenant, source |-> s]
    <3>1. Assigned(c.subj, ids[p][n], c.tenant, s) \in Inserts(p)
      BY <1>3, <1>7 DEF Inserts, RowsToAdd
    <3>2. m \in Member
      BY <1>1, <1>2, <1>7, CallSubjects DEF Member
    <3>3. m \in Memberships(D)
      BY <1>1, <1>4, <3>1, <3>2, MembersAre
    <3> QED
      BY <3>3
  <2> QED
    BY <1>7, <2>1 DEF Effect
<1>8. CASE c.kind = "giveSubjectPermission"
  <2>1. ASSUME NEW q \in c.perms PROVE q \in DirectPermissions(D, c.subj)
    <3>1. Direct(c.subj, ids[p][q]) \in Inserts(p)
      BY <1>3, <1>8 DEF Inserts, RowsToAdd
    <3> QED
      BY <1>1, <1>2, <1>4, <3>1, PermissionsAre
  <2> QED
    BY <1>8, <2>1 DEF Effect
<1> QED
  BY <1>5, <1>6, <1>7, <1>8

LEMMA TakingHasEffect ==
  ASSUME LoneInv, NEW p \in Proc, Return(p), Settled(p),
         call[p].kind \in {"revokePermissionFromRole", "removeRole", "revokeSubjectPermission",
                           "removeSubject"}
  PROVE  Effect(call[p], Current(p))
<1> DEFINE c == call[p]
           D == Current(p)
<1>1. /\ c \in Calls /\ c \in CallType /\ D \in SUBSET Row
      /\ \A n, i, j : IsId(D, n, i) /\ IsId(D, n, j) => i = j
      /\ \A n \in c.roles : IsId(D, n, ids[p][n]) /\ ids[p][n] \in RoleIds(p)
      /\ \A n \in c.perms : IsId(D, n, ids[p][n]) /\ ids[p][n] \in PermIds(p)
      /\ \A r \in D : ~Taken(p, r)
  BY AtReturn DEF Settled, NameOf, RoleIds, PermIds
<1> SUFFICES Effect(c, D)
  OBVIOUS
<1> HIDE DEF D
<1>2. CASE c.kind = "revokePermissionFromRole"
  <2>1. ASSUME NEW q \in c.perms, NEW n \in c.roles, q \in RolePermissions(D, n) PROVE FALSE
    <3>1. PICK i, j : IsId(D, n, i) /\ IsId(D, q, j) /\ Granted(i, j) \in D
      BY <1>1, <2>1, PermissionsAre
    <3>2. i \in RoleIds(p) /\ j \in PermIds(p)
      BY <1>1, <3>1
    <3>3. DoomedGrant(p, Granted(i, j)) /\ Granted(i, j) \notin Inserts(p)
      BY <1>2, <3>2, RowFields DEF DoomedGrant, Inserts, RowsToAdd
    <3>4. Taken(p, Granted(i, j))
      BY <1>2, <3>3, RowFields DEF Taken
    <3> QED
      BY <1>1, <3>1, <3>4
  <2> QED
    BY <1>2, <2>1 DEF Effect
<1>3. CASE c.kind = "removeRole"
  <2>1. ASSUME NEW m \in Memberships(D), m.subj = c.subj, m.tenant = c.tenant,
               m.source \in c.sources, m.role \in c.roles
        PROVE  FALSE
    <3>1. PICK i : IsId(D, m.role, i) /\ Assigned(m.subj, i, m.tenant, m.source) \in D
      BY <1>1, MembersAre
    <3> DEFINE r == Assigned(m.subj, i, m.tenant, m.source)
    <3>2. i \in RoleIds(p)
      BY <1>1, <2>1, <3>1
    <3>3. r.tab = "assign" /\ InScope(c, r) /\ r.role \in RoleIds(p)
      BY <2>1, <3>2, RowFields DEF InScope
    <3> HIDE DEF r
    <3>4. Taken(p, r)
      BY <1>3, <3>3 DEF Taken, DoomedAssign
    <3> QED
      BY <1>1, <3>1, <3>4 DEF r
  <2> QED
    BY <1>3, <2>1 DEF Effect
<1>4. CASE c.kind = "revokeSubjectPermission"
  <2>1. ASSUME NEW q \in c.perms, q \in DirectPermissions(D, c.subj) PROVE FALSE
    <3>1. PICK j : IsId(D, q, j) /\ Direct(c.subj, j) \in D
      BY <1>1, <2>1, PermissionsAre
    <3>2. j \in PermIds(p)
      BY <1>1, <3>1
    <3>3. Taken(p, Direct(c.subj, j))
      BY <1>4, <3>2, RowFields DEF Taken, DoomedDirect
    <3> QED
      BY <1>1, <3>1, <3>3
  <2> QED
    BY <1>4, <2>1 DEF Effect
<1>5. CASE c.kind = "removeSubject"
  <2>1. \A r \in D : ~(r.tab \in {"assign", "direct"} /\ r.subj = c.subj)
    BY <1>1, <1>5 DEF Taken
  <2> QED
    BY <1>5, <2>1 DEF Effect
<1> QED
  BY <1>2, <1>3, <1>4, <1>5

LEMMA ReplacingHasEffect ==
  ASSUME LoneInv, NEW p \in Proc, Return(p), Settled(p),
         call[p].kind \in {"setSubjectRoles", "syncRolePermissions"}
  PROVE  Effect(call[p], Current(p))
<1> DEFINE c == call[p]
           D == Current(p)
<1>1. /\ c \in Calls /\ c \in CallType /\ D \in SUBSET Row
      /\ \A n, i, j : IsId(D, n, i) /\ IsId(D, n, j) => i = j
      /\ \A n \in c.roles : IsId(D, n, ids[p][n]) /\ ids[p][n] \in RoleIds(p)
      /\ \A n \in c.perms : IsId(D, n, ids[p][n]) /\ ids[p][n] \in PermIds(p)
      /\ \A i \in RoleIds(p) : \A m \in Name : IsId(D, m, i) => m \in c.roles
      /\ \A i \in PermIds(p) : \A m \in Name : IsId(D, m, i) => m \in c.perms
      /\ \A r \in Inserts(p) : r \in D
      /\ \A r \in D : ~Taken(p, r)
  BY AtReturn DEF Settled, NameOf, RoleIds, PermIds
<1>2. c.roles \subseteq Role /\ c.perms \subseteq Perm /\ c.sources \subseteq Source
      /\ c.tenant \in Tenant
  BY <1>1 DEF CallType
<1> SUFFICES Effect(c, D)
  OBVIOUS
<1> HIDE DEF D
<1>3. CASE c.kind = "setSubjectRoles"
  <2> DEFINE listed == {[subj |-> c.subj, role |-> n, tenant |-> c.tenant, source |-> s] :
                          n \in c.roles, s \in c.sources}
             scope == {m \in Memberships(D) : /\ m.subj = c.subj /\ m.tenant = c.tenant
                                              /\ m.source \in c.sources}
  <2>1. ASSUME NEW n \in c.roles, NEW s \in c.sources
        PROVE  [subj |-> c.subj, role |-> n, tenant |-> c.tenant, source |-> s] \in scope
    <3> DEFINE m == [subj |-> c.subj, role |-> n, tenant |-> c.tenant, source |-> s]
    <3>1. Assigned(c.subj, ids[p][n], c.tenant, s) \in Inserts(p)
      BY <1>1, <1>3 DEF Inserts, RowsToAdd
    <3>2. m \in Member
      BY <1>1, <1>2, <1>3, CallSubjects DEF Member
    <3>3. m \in Memberships(D)
      BY <1>1, <3>1, <3>2, MembersAre
    <3> QED
      BY <3>3
  <2>2. ASSUME NEW m \in scope PROVE m \in listed
    <3>1. m \in Member
      BY <1>1, MembersAre
    <3>2. PICK i : IsId(D, m.role, i) /\ Assigned(m.subj, i, m.tenant, m.source) \in D
      BY <1>1, MembersAre
    <3> DEFINE r == Assigned(m.subj, i, m.tenant, m.source)
    <3>3. r.tab = "assign" /\ InScope(c, r) /\ r.role = i /\ ~Taken(p, r)
      BY <1>1, <3>2, RowFields DEF InScope
    <3> HIDE DEF r
    <3>4. i \in RoleIds(p)
      BY <1>3, <3>3 DEF Taken, DoomedAssign, Unlisted
    <3>5. m.role \in c.roles
      BY <1>1, <3>1, <3>2, <3>4 DEF Member, Name
    <3>6. m = [subj |-> c.subj, role |-> m.role, tenant |-> c.tenant, source |-> m.source]
      BY <3>1 DEF Member
    <3> QED
      BY <3>5, <3>6
  <2>3. scope = listed
    BY <2>1, <2>2
  <2> QED
    BY <1>3, <2>3 DEF Effect
<1>5. D \in SUBSET Row
  BY <1>1
<1>4. CASE c.kind = "syncRolePermissions"
  <2> DEFINE granted == UNION {RolePermissions(D, n) : n \in c.roles}
  <2>1. ASSUME NEW q \in c.perms PROVE q \in granted
    <3>1. PICK n \in c.roles : TRUE
      BY <1>1, <1>4, CallShapes DEF One
    <3>2. Granted(ids[p][n], ids[p][q]) \in Inserts(p)
      BY <1>1, <1>4 DEF Inserts, RowsToAdd
    <3>3. q \in RolePermissions(D, n)
      BY <1>1, <1>2, <3>2, PermissionsAre
    <3> QED
      BY <3>3
  <2>2. ASSUME NEW n \in c.roles, NEW q \in RolePermissions(D, n) PROVE q \in c.perms
    <3>1. PICK i, j : IsId(D, n, i) /\ IsId(D, q, j) /\ Granted(i, j) \in D
      BY <1>5, PermissionsAre
    <3>2. q \in Perm
      BY <1>5, PermissionsAre
    <3> DEFINE r == Granted(i, j)
    <3>3. r.tab = "grant" /\ r.role \in RoleIds(p) /\ ~Taken(p, r)
      BY <1>1, <3>1, RowFields
    <3>4. r \in Inserts(p)
      <4> HIDE DEF r
      <4> QED
        BY <1>4, <3>3 DEF Taken, DoomedGrant
    <3>5. j \in PermIds(p)
      BY <1>4, <3>4, RowFields DEF Inserts, RowsToAdd
    <3> QED
      BY <1>1, <3>1, <3>2, <3>5 DEF Name
  <2>3. granted = c.perms
    BY <2>1, <2>2
  <2> QED
    BY <1>4, <2>3 DEF Effect
<1> QED
  BY <1>3, <1>4

(* Nothing to take: the name it would be taken from does not exist. *)
LEMMA AbsentHasEffect ==
  ASSUME LoneInv, NEW p \in Proc, Return(p), Absent(p)
  PROVE  Effect(call[p], Current(p))
<1> DEFINE c == call[p]
           D == Current(p)
<1>1. c \in Calls /\ D \in SUBSET Row
  BY AtReturn
<1>2. PICK n \in c.roles \cup c.perms : \A i : ~IsId(D, n, i)
  BY DEF Absent, NameOf
<1>3. c.kind \in FindOnlyKinds
  BY DEF Absent
<1> SUFFICES Effect(c, D)
  OBVIOUS
<1> HIDE DEF D
<1>4. CASE c.kind = "revokePermissionFromRole"
  <2>1. One(c.roles) /\ One(c.perms)
    BY <1>1, <1>4, CallShapes
  <2>2. ASSUME NEW m \in c.roles, NEW q \in c.perms, q \in RolePermissions(D, m) PROVE FALSE
    <3>1. n = m \/ n = q
      BY <2>1 DEF One
    <3>2. PICK i, j : IsId(D, m, i) /\ IsId(D, q, j)
      BY <1>1, <2>2, PermissionsAre
    <3> QED
      BY <1>2, <3>1, <3>2
  <2> QED
    BY <1>4, <2>2 DEF Effect
<1>5. CASE c.kind = "removeRole"
  <2>1. One(c.roles) /\ c.perms = {}
    BY <1>1, <1>5, CallShapes
  <2>2. \A m \in Memberships(D) : m.role \notin c.roles
    BY <1>1, <1>2, <2>1, MembersAre DEF One
  <2> QED
    BY <1>5, <2>2 DEF Effect
<1>6. CASE c.kind = "deleteRole"
  <2>1. One(c.roles) /\ c.perms = {}
    BY <1>1, <1>6, CallShapes
  <2>2. NamesIn(D, c.roles) = {}
    BY <1>1, <1>2, <2>1, NamesAre DEF One
  <2> QED
    BY <1>6, <2>2 DEF Effect
<1>7. CASE c.kind = "revokeSubjectPermission"
  <2>1. One(c.perms) /\ c.roles = {}
    BY <1>1, <1>7, CallShapes
  <2>2. \A q \in c.perms : q \notin DirectPermissions(D, c.subj)
    BY <1>1, <1>2, <2>1, PermissionsAre DEF One
  <2> QED
    BY <1>7, <2>2 DEF Effect
<1> QED
  BY <1>3, <1>4, <1>5, <1>6, <1>7 DEF FindOnlyKinds

LEMMA LoneEffect ==
  ASSUME LoneInv, NEW p \in Proc, Return(p)
  PROVE  Effect(call[p], Current(p))
<1>1. call[p] \in Calls /\ (Settled(p) \/ Absent(p))
  BY AtReturn
<1>2. CASE Settled(p)
  <2>1. call[p].kind \in AllKinds
    BY <1>1, CallShapes
  <2> QED
    BY <1>2, <2>1, AddingHasEffect, TakingHasEffect, ReplacingHasEffect
       DEF Settled, AllKinds, TxKinds, FindOnlyKinds
<1> QED
  BY <1>1, <1>2, AbsentHasEffect

(* A call that returns without an error has had its effect, however many    *)
(* callers there are, when no call begins before the last one has ended:    *)
(* also removeRole, setSubjectRoles, syncRolePermissions and the others     *)
(* that take rows away, whose effect an overlapping call can undo.          *)
THEOREM LoneReturns ==
  ASSUME OwnTransactions
  PROVE  Spec /\ []OneAtWork => ReturnHasEffect
<1>1. LoneInv /\ OneAtWork /\ OneAtWork' /\ [Next]_vars => LoneInv'
  BY LoneStep
<1>2. LoneInv /\ [Next]_vars =>
        [\A p \in Proc : pc[p] # "idle" /\ pc'[p] = "idle"
                           => Effect(call[p], Current(p)')]_vars
  <2> SUFFICES ASSUME LoneInv, Next, NEW p \in Proc, pc[p] # "idle", pc'[p] = "idle"
               PROVE  Effect(call[p], Current(p)')
    BY DEF vars, local
  <2>1. LocalTyped /\ DbTyped
    BY LoneTyped
  <2>2. Return(p)
    <3>1. PICK q \in Proc : Acts(q)
      BY DEF Next, Acts
    <3>2. \/ Return(q) /\ p = q
          \/ pc'[p] # "idle" \/ pc'[p] = pc[p]
      BY <2>1, <3>1 DEF Acts, Start, Step, Find, InsertName, Refind, Dispatch, DeleteRows,
         InsertRow, Return, Fail, HostBegin, HostEnd, Goto, local, LocalTyped, FirstWrite, NextWrite
    <3> QED
      BY <3>2
  <2>3. Current(p)' = Current(p)
    BY <2>1, <2>2 DEF Return, Commit, CloseTx, txn, Current, DbTyped
  <2>4. Effect(call[p], Current(p))
    BY <2>2, LoneEffect
  <2> QED
    BY <2>3, <2>4
<1> QED
  BY <1>1, <1>2, LoneInit, PTL DEF Spec, ReturnHasEffect

-----------------------------------------------------------------------------
(* The exact contract, step by step.                                        *)

LEMMA ContractWords ==
  /\ Contract!Calls = Calls
  /\ Contract!NoCall = NoCall
  /\ Contract!FindOnlyKinds = FindOnlyKinds
BY DEF Contract!Calls, Contract!AllCalls, Contract!RoleCalls, Contract!PairCalls,
       Contract!DirectCalls, Contract!SyncCalls, Contract!CreatePermissionCalls,
       Contract!AssignCalls, Contract!RemoveCalls, Contract!SetCalls,
       Contract!RemoveSubjectCalls, Contract!Call, Contract!NoCall, Contract!FindOnlyKinds,
       Calls, AllCalls, RoleCalls, PairCalls, DirectCalls, CreatePermissionCalls, SyncCalls,
       AssignCalls, RemoveCalls, SetCalls, RemoveSubjectCalls, Call, NoCall, FindOnlyKinds

(* A step that shows as one write, as the name a call needs, or as nothing. *)
LEMMA ExactStep ==
  ASSUME LocalTyped, NEW p \in Proc,
         \/ UNCHANGED call /\ (DataSame \/ Contract!Create(call[p]) \/ Contract!Write(call[p]))
         \/ Contract!Ends(p) /\ (DataSame \/ Contract!Write(call[p]))
  PROVE  Contract!Next \/ UNCHANGED Contract!vars
<1> HIDE DEF roles, perms, grants, members, direct
<1>1. DataSame => UNCHANGED Contract!data
  BY DEF DataSame, Contract!data
<1>2. lost' = lost /\ \A gone : Contract!Loses(gone)
  BY DEF lost, Contract!Loses
<1>3. Contract!Without(call[p], lost[p]) = call[p]
  BY DEF Contract!Without, lost, LocalTyped, CallType
<1>4. Contract!MayFail
  BY DEF Contract!MayFail
<1> HIDE DEF lost
<1>5. CASE UNCHANGED call /\ DataSame
  BY <1>1, <1>2, <1>5 DEF Contract!vars
<1>6. CASE UNCHANGED call /\ Contract!Create(call[p])
  BY <1>2, <1>6 DEF Contract!Next
<1>7. CASE (UNCHANGED call \/ Contract!Ends(p)) /\ Contract!Write(call[p])
  BY <1>2, <1>3, <1>4, <1>7 DEF Contract!Next
<1>8. CASE Contract!Ends(p) /\ DataSame
  BY <1>1, <1>2, <1>4, <1>8 DEF Contract!Next
<1> QED
  BY <1>5, <1>6, <1>7, <1>8

LEMMA ExactBegin ==
  ASSUME NEW p \in Proc, Contract!Begin(p)
  PROVE  Contract!Next
<1>1. Contract!Loses({})
  BY DEF lost, Contract!Loses
<1> HIDE DEF roles, perms, grants, members, direct, lost
<1> QED
  BY <1>1 DEF Contract!Next

(* The two promises differ in the calls that replace or clear a set. *)
LEMMA SamePromise ==
  ASSUME NEW c
  PROVE  /\ ScopedContract!Create(c) => Contract!Create(c)
         /\ /\ ScopedContract!Write(c)
            /\ c.kind \notin {"setSubjectRoles", "syncRolePermissions", "removeSubject"}
            => Contract!Write(c)
<1> HIDE DEF roles, perms, grants, members, direct
<1>1. ScopedContract!Create(c) => Contract!Create(c)
  BY ScopeWords, ContractWords DEF ScopedContract!Create, Contract!Create
<1>2. /\ ScopedContract!Grant(c) => Contract!Grant(c)
      /\ ScopedContract!Revoke(c) => Contract!Revoke(c)
  BY DEF ScopedContract!Grant, Contract!Grant, ScopedContract!Revoke, Contract!Revoke
<1>3. /\ ScopedContract!Assign(c) => Contract!Assign(c)
      /\ ScopedContract!Remove(c) => Contract!Remove(c)
  BY DEF ScopedContract!Assign, Contract!Assign, ScopedContract!Remove, Contract!Remove,
         ScopedContract!ListedBy, Contract!ListedBy
<1>4. /\ ScopedContract!GiveDirect(c) => Contract!GiveDirect(c)
      /\ ScopedContract!RevokeDirect(c) => Contract!RevokeDirect(c)
  BY DEF ScopedContract!GiveDirect, Contract!GiveDirect, ScopedContract!RevokeDirect,
         Contract!RevokeDirect
<1>5. ScopedContract!DeleteRole(c) => Contract!DeleteRole(c)
  BY DEF ScopedContract!DeleteRole, Contract!DeleteRole
<1>6. /\ ScopedContract!SetSubjectRoles(c) => c.kind = "setSubjectRoles"
      /\ ScopedContract!SyncRolePermissions(c) => c.kind = "syncRolePermissions"
      /\ ScopedContract!RemoveSubject(c) => c.kind = "removeSubject"
  BY DEF ScopedContract!SetSubjectRoles, ScopedContract!SyncRolePermissions,
         ScopedContract!RemoveSubject
<1> QED
  BY <1>1, <1>2, <1>3, <1>4, <1>5, <1>6 DEF ScopedContract!Write, Contract!Write

(* A call in a transaction of its own that replaces or clears a set has     *)
(* found or made every name of its call by the time it commits.             *)
LEMMA LoneCommit ==
  ASSUME LoneInv, NEW p \in Proc, Return(p), tx[p] = "own",
         call[p].kind \in {"setSubjectRoles", "syncRolePermissions", "removeSubject"}
  PROVE  /\ db \in SUBSET Row /\ db' \in SUBSET Row
         /\ call[p].roles \subseteq roles' /\ call[p].perms \subseteq perms'
         /\ Effect(call[p], db')
<1>1. db' = Current(p) /\ db \in SUBSET Row /\ db' \in SUBSET Row /\ call[p] \in CallType
  BY OwnCommit DEF LoneInv
<1>2. Settled(p)
  BY AtReturn DEF Absent, FindOnlyKinds
<1>3. \A n \in NameOf(p) : \E i : IsId(db', n, i)
  BY <1>1, <1>2 DEF Settled
<1>4. call[p].roles \subseteq roles' /\ call[p].perms \subseteq perms'
  BY <1>1, <1>3, NamesAre DEF roles, perms, NameOf, CallType
<1>5. Effect(call[p], db')
  BY <1>1, LoneEffect
<1> QED
  BY <1>1, <1>4, <1>5

LEMMA SetExactly ==
  ASSUME LoneInv, NEW p \in Proc, Return(p), tx[p] = "own", call[p].kind = "setSubjectRoles"
  PROVE  Contract!SetSubjectRoles(call[p])
<1> DEFINE c == call[p]
           L == Contract!ListedBy(c)
           S == Contract!ScopeOf(c)
<1>1. /\ c.roles \subseteq roles' /\ c.perms \subseteq perms' /\ Effect(c, db')
      /\ c \in CallType
  BY LoneCommit, OwnCommit DEF LoneInv
<1>2. ScopedContract!SetSubjectRoles(c)
  BY SetContract DEF LoneInv
<1>3. /\ members' \subseteq Member
      /\ \A m \in members' : m.subj = c.subj /\ m.tenant = c.tenant /\ m.source \in c.sources
                            => m.role \in c.roles
      /\ \A n \in c.roles, s \in c.sources :
           [subj |-> c.subj, role |-> n, tenant |-> c.tenant, source |-> s] \in members'
  <2>1. {m \in members' : m.subj = c.subj /\ m.tenant = c.tenant /\ m.source \in c.sources}
        = {[subj |-> c.subj, role |-> n, tenant |-> c.tenant, source |-> s] :
             n \in c.roles, s \in c.sources}
    BY <1>1 DEF Effect, members
  <2>2. members' \subseteq Member
    BY LoneCommit, MembersAre DEF members
  <2> HIDE DEF c, members
  <2> QED
    BY <2>1, <2>2
<1>4. \A m : m \in L <=> /\ m \in members' /\ m.subj = c.subj /\ m.tenant = c.tenant
                         /\ m.source \in c.sources
  <2>1. L = [subj : {c.subj}, role : c.roles, tenant : {c.tenant}, source : c.sources]
    BY DEF Contract!ListedBy
  <2> HIDE DEF L, c, members
  <2>2. \A m \in L : /\ m.subj = c.subj /\ m.tenant = c.tenant
                     /\ m.source \in c.sources /\ m.role \in c.roles
                     /\ m = [subj |-> c.subj, role |-> m.role, tenant |-> c.tenant,
                             source |-> m.source]
    BY <2>1
  <2>3. \A m \in Member : m.subj = c.subj /\ m.tenant = c.tenant /\ m.source \in c.sources
                          /\ m.role \in c.roles => m \in L
    BY <2>1 DEF Member
  <2> QED
    BY <1>3, <2>2, <2>3
<1> HIDE DEF roles, perms, grants, members, direct
<1>5. PICK made \in SUBSET c.roles, put \in SUBSET L, gone \in SUBSET S :
        /\ roles' = roles \cup made
        /\ members' = (members \ gone) \cup put
  BY <1>2 DEF ScopedContract!SetSubjectRoles, ScopedContract!ListedBy, ScopedContract!ScopeOf,
     Contract!ListedBy, Contract!ScopeOf
<1>6. UNCHANGED <<perms, grants, direct>> /\ c.kind = "setSubjectRoles"
  BY <1>2 DEF ScopedContract!SetSubjectRoles
<1>7. roles' = roles \cup c.roles
  BY <1>1, <1>5
<1>8. members' = (members \ S) \cup L
  <2>1. \A m \in L : m.subj = c.subj /\ m.tenant = c.tenant /\ m.source \in c.sources
    BY DEF Contract!ListedBy
  <2>2. \A m : m \in S <=> /\ m \in members /\ m.subj = c.subj /\ m.tenant = c.tenant
                           /\ m.source \in c.sources
    BY DEF Contract!ScopeOf
  <2> HIDE DEF L, S, c
  <2> QED
    BY <1>4, <1>5, <2>1, <2>2
<1>9. \E created \in SUBSET c.roles, added \in SUBSET L, removed \in SUBSET S :
        /\ roles' = roles \cup created
        /\ members' = (members \ removed) \cup added
        /\ "exact" # "scoped" => created = c.roles /\ added = L /\ removed = S
  <2> HIDE DEF L, S, c
  <2> WITNESS c.roles \in SUBSET c.roles, L \in SUBSET L, S \in SUBSET S
  <2> QED
    BY <1>7, <1>8
<1> QED
  BY <1>6, <1>9 DEF Contract!SetSubjectRoles

LEMMA SyncExactly ==
  ASSUME LoneInv, NEW p \in Proc, Return(p), tx[p] = "own",
         call[p].kind = "syncRolePermissions"
  PROVE  Contract!SyncRolePermissions(call[p])
<1> DEFINE c == call[p]
           G == {g \in grants : g[1] \in c.roles}
<1>1. /\ c.roles \subseteq roles' /\ c.perms \subseteq perms' /\ Effect(c, db')
      /\ c \in CallType /\ c \in Calls
  BY LoneCommit, OwnCommit DEF LoneInv
<1>2. ScopedContract!SyncRolePermissions(c)
  BY SyncContract DEF LoneInv
<1>3. \A g : g \in grants' /\ g[1] \in c.roles <=> g \in c.roles \X c.perms
  <2>1. UNION {RolePermissions(db', n) : n \in c.roles} = c.perms
    BY <1>1 DEF Effect
  <2>2. PICK n \in c.roles : c.roles = {n}
    BY <1>1, CallShapes DEF One
  <2>3. RolePermissions(db', n) = c.perms
    BY <2>1, <2>2
  <2>4. grants' = {g \in Role \X Perm : g[2] \in RolePermissions(db', g[1])}
    BY DEF grants, Grants
  <2>5. c.roles \subseteq Role /\ c.perms \subseteq Perm
    BY <1>1 DEF CallType
  <2> HIDE DEF c, grants
  <2>6. c.roles \X c.perms = {n} \X c.perms /\ {n} \X c.perms \subseteq Role \X Perm
    BY <2>2, <2>5
  <2>7. \A g \in {n} \X c.perms : g[1] = n /\ g[2] \in c.perms
    OBVIOUS
  <2>8. \A g \in Role \X Perm : g[1] = n /\ g[2] \in c.perms => g \in {n} \X c.perms
    OBVIOUS
  <2> QED
    BY <2>2, <2>3, <2>4, <2>6, <2>7, <2>8
<1> HIDE DEF roles, perms, grants, members, direct
<1>4. PICK madeRole \in SUBSET c.roles, made \in SUBSET c.perms,
           put \in SUBSET (c.roles \X c.perms), gone \in SUBSET G :
        /\ roles' = roles \cup madeRole
        /\ perms' = perms \cup made
        /\ grants' = (grants \ gone) \cup put
  BY <1>2 DEF ScopedContract!SyncRolePermissions
<1>5. UNCHANGED <<members, direct>> /\ c.kind = "syncRolePermissions"
  BY <1>2 DEF ScopedContract!SyncRolePermissions
<1>6. roles' = roles \cup c.roles /\ perms' = perms \cup c.perms
  BY <1>1, <1>4
<1>7. grants' = (grants \ G) \cup (c.roles \X c.perms)
  <2> DEFINE A == c.roles \X c.perms
  <2>1. \A g \in A : g[1] \in c.roles
    OBVIOUS
  <2>2. \A g : g \in G <=> g \in grants /\ g[1] \in c.roles
    OBVIOUS
  <2>3. \A g : g \in grants' /\ g[1] \in c.roles <=> g \in A
    BY <1>3
  <2>4. grants' = (grants \ gone) \cup put /\ put \subseteq A /\ gone \subseteq G
    BY <1>4
  <2> HIDE DEF A, G, c
  <2>5. grants' = (grants \ G) \cup A
    BY <2>1, <2>2, <2>3, <2>4
  <2> QED
    BY <2>5 DEF A
<1>8. \E createdRole \in SUBSET c.roles, created \in SUBSET c.perms,
         added \in SUBSET (c.roles \X c.perms),
         removed \in SUBSET {g \in grants : g[1] \in c.roles} :
        /\ roles' = roles \cup createdRole
        /\ perms' = perms \cup created
        /\ grants' = (grants \ removed) \cup added
        /\ "exact" # "scoped" =>
             /\ createdRole = c.roles /\ created = c.perms
             /\ added = c.roles \X c.perms
             /\ removed = {g \in grants : g[1] \in c.roles}
  <2> HIDE DEF c
  <2> WITNESS c.roles \in SUBSET c.roles, c.perms \in SUBSET c.perms,
              c.roles \X c.perms \in SUBSET (c.roles \X c.perms),
              G \in SUBSET {g \in grants : g[1] \in c.roles}
  <2> QED
    BY <1>6, <1>7
<1> QED
  BY <1>5, <1>8 DEF Contract!SyncRolePermissions

LEMMA RemoveSubjectExactly ==
  ASSUME LoneInv, NEW p \in Proc, Return(p), tx[p] = "own", call[p].kind = "removeSubject"
  PROVE  Contract!RemoveSubject(call[p])
<1> DEFINE c == call[p]
           M == {m \in members : m.subj = c.subj}
           E == {d \in direct : d[1] = c.subj}
<1>1. /\ db' \in SUBSET Row /\ Effect(c, db') /\ c \in CallType /\ c \in Calls
  BY LoneCommit, OwnCommit DEF LoneInv
<1>2. ScopedContract!RemoveSubject(c)
  BY RemoveSubjectContract DEF LoneInv
<1>3. \A r \in db' : r.tab \in {"assign", "direct"} => r.subj # c.subj
  BY <1>1 DEF Effect
<1>4. \A m \in members' : m.subj # c.subj
  <2> SUFFICES ASSUME NEW m \in Memberships(db'), m.subj = c.subj PROVE FALSE
    BY DEF members
  <2>1. PICK i : Assigned(m.subj, i, m.tenant, m.source) \in db'
    BY <1>1, MembersAre
  <2> QED
    BY <1>3, <2>1, RowFields
<1>5. \A d \in direct' : d[1] # c.subj
  <2> SUFFICES ASSUME NEW d \in Directs(db'), d[1] = c.subj PROVE FALSE
    BY DEF direct
  <2>1. d[2] \in DirectPermissions(db', d[1])
    BY DEF Directs
  <2>2. PICK j : Direct(d[1], j) \in db'
    BY <1>1, <2>1, PermissionsAre
  <2> QED
    BY <1>3, <2>2, RowFields
<1> HIDE DEF roles, perms, grants, members, direct
<1>6. PICK gone \in SUBSET M, goneDirect \in SUBSET E :
        members' = members \ gone /\ direct' = direct \ goneDirect
  BY <1>2 DEF ScopedContract!RemoveSubject
<1>7. UNCHANGED <<roles, perms, grants>> /\ c.kind = "removeSubject"
  BY <1>2 DEF ScopedContract!RemoveSubject
<1>8. members' = members \ M /\ direct' = direct \ E
  BY <1>4, <1>5, <1>6
<1> QED
  BY <1>7, <1>8 DEF Contract!RemoveSubject

(* Each statement and each return does what the exact contract allows. *)
LEMMA LoneShows ==
  ASSUME LoneInv, NEW p \in Proc,
         InsertName(p) \/ DeleteRows(p) \/ (\E r \in todo[p] : InsertRow(p, r)) \/ Return(p)
  PROVE  \/ DataSame \/ Contract!Write(call[p])
         \/ InsertName(p) /\ Contract!Create(call[p])
<1> DEFINE Replacing == call[p].kind \in {"setSubjectRoles", "syncRolePermissions", "removeSubject"}
<1>1. ScopeInv /\ Placed(p)
  BY LoneTyped DEF LoneInv
<1>2. CASE InsertName(p)
  BY <1>1, <1>2, InsertNameContract, SamePromise
<1>3. CASE DeleteRows(p) \/ (\E r \in todo[p] : InsertRow(p, r))
  <2>1. CASE Replacing
    <3>1. tx[p] # "none"
      BY <1>1, <1>3, <2>1 DEF Placed, TxKinds, AtRest, DeleteRows, InsertRow
    <3> QED
      BY <1>3, <3>1, SameData DEF DeleteRows, InsertRow, InsertIgnore, Write
  <2>2. CASE ~Replacing
    BY <1>1, <1>3, <2>2, DeleteContract, InsertContract, SamePromise
  <2> QED
    BY <2>1, <2>2
<1>4. CASE Return(p)
  <2>1. CASE tx[p] = "own" /\ Replacing
    BY <1>4, <2>1, SetExactly, SyncExactly, RemoveSubjectExactly DEF Contract!Write
  <2>2. CASE tx[p] = "own" /\ ~Replacing
    BY <1>1, <1>4, <2>2, ReturnContract, SamePromise
  <2>3. CASE tx[p] # "own"
    BY <1>4, <2>3, SameData DEF Return
  <2> QED
    BY <2>1, <2>2, <2>3
<1> QED
  BY <1>2, <1>3, <1>4

(* The Lucid store implements the exact contract as long as no call begins  *)
(* before the last one has ended: each call's change is one atomic step     *)
(* that replaces precisely the set it names and clears precisely the        *)
(* subject or role it names, after steps that create the names it needs.    *)
THEOREM LoneImplements ==
  ASSUME OwnTransactions
  PROVE  Spec /\ []OneAtWork => ImplementsContract
<1>1. Init => Contract!Init
  <2> SUFFICES ASSUME Init PROVE Contract!Init
    OBVIOUS
  <2>1. db = {} /\ call = [p \in Proc |-> NoCall]
    BY DEF Init
  <2>2. roles = {} /\ perms = {} /\ grants = {} /\ members = {} /\ direct = {}
    BY <2>1 DEF roles, perms, grants, members, direct, NamesIn, Grants, Memberships, Directs,
                RolePermissions, DirectPermissions, Ids
  <2> QED
    BY <2>1, <2>2, ContractWords DEF Contract!Init, lost
<1>2. LoneInv /\ [Next]_vars => [Contract!Next]_(Contract!vars)
  <2> SUFFICES ASSUME LoneInv, [Next]_vars
               PROVE  Contract!Next \/ UNCHANGED Contract!vars
    OBVIOUS
  <2> HIDE DEF roles, perms, grants, members, direct
  <2>1. DataSame => UNCHANGED Contract!data
    BY DEF DataSame, Contract!data
  <2>2. ASSUME NEW p \in Proc, NEW c \in Calls, Start(p, c) PROVE Contract!Next
    <3>1. call[p] = NoCall /\ DataSame
      BY <2>2, LoneTyped, SameData DEF Start, Placed, BeginTx
    <3>2. Contract!Begin(p)
      BY <2>1, <2>2, <3>1, ContractWords DEF Start, Contract!Begin
    <3> QED
      BY <3>2, ExactBegin
  <2>3. ASSUME NEW p \in Proc, Step(p)
        PROVE  Contract!Next \/ UNCHANGED Contract!vars
    <3>1. CASE (\E n \in Name : Find(p, n)) \/ Refind(p) \/ Dispatch(p)
      BY <3>1, SameData, LoneTyped, ExactStep DEF Find, Refind, Dispatch
    <3>2. CASE InsertName(p) \/ DeleteRows(p) \/ (\E r \in todo[p] : InsertRow(p, r))
      <4>1. UNCHANGED call
        BY <3>2 DEF InsertName, DeleteRows, InsertRow
      <4> QED
        BY <3>2, <4>1, LoneShows, LoneTyped, ExactStep
    <3>3. CASE Return(p)
      <4>1. Contract!Ends(p)
        BY <3>3, ContractWords DEF Contract!Ends, Return, Finished
      <4>2. DataSame \/ Contract!Write(call[p])
        <5>1. ~InsertName(p)
          BY <3>3, LoneTyped DEF InsertName, Return
        <5> QED
          BY <3>3, <5>1, LoneShows
      <4> QED
        BY <3>3, <4>1, <4>2, LoneTyped, ExactStep
    <3> QED
      BY <2>3, <3>1, <3>2, <3>3 DEF Step
  <2>4. ASSUME NEW p \in Proc, Fail(p)
        PROVE  Contract!Next \/ UNCHANGED Contract!vars
    <3>1. Contract!Ends(p) /\ DataSame
      BY <2>4, SameData, ContractWords DEF Fail, Finished, Rollback, Contract!Ends
    <3> QED
      BY <3>1, LoneTyped, ExactStep
  <2>5. ASSUME NEW p \in Proc, HostBegin(p) \/ HostEnd(p) PROVE FALSE
    BY <2>5, LoneTyped DEF HostBegin, HostEnd, OwnTransactions, Placed
  <2>6. CASE UNCHANGED vars
    <3>1. UNCHANGED call /\ DataSame
      BY <2>6, SameData DEF vars, local
    <3>2. UNCHANGED lost
      BY DEF lost
    <3> QED
      BY <2>1, <3>1, <3>2 DEF Contract!vars
  <2> QED
    BY <2>2, <2>3, <2>4, <2>5, <2>6 DEF Next
<1>3. LoneInv /\ OneAtWork /\ OneAtWork' /\ [Next]_vars => LoneInv'
  BY LoneStep
<1> QED
  BY <1>1, <1>2, <1>3, LoneInit, PTL DEF Spec, ImplementsContract, Contract!Spec
=============================================================================
