-------------------------- MODULE MemoryStoreProofs --------------------------
(***************************************************************************)
(* Proofs about the in-memory store, for every number of callers, names,   *)
(* subjects, tenants, sources and ids.                                     *)
(***************************************************************************)
EXTENDS MemoryStore, RbacProofs, SequenceTheorems

-----------------------------------------------------------------------------
(* The queue: whoever runs is at its head or not in it at all.              *)

QueueTyped ==
  /\ queue \in Seq(Proc)
  /\ \A j, k \in DOMAIN queue : queue[j] = queue[k] => j = k

(* Nobody waits twice in s. *)
Waits(s) == s \in Seq(Proc) /\ \A j, k \in DOMAIN s : s[j] = s[k] => j = k

LEMMA RestWaits ==
  ASSUME QueueTyped, NEW p \in Proc, CanRun(p)
  PROVE  Waits(Rest(p)) /\ \A k \in DOMAIN Rest(p) : Rest(p)[k] # p
<1>1. CASE Queued(p)
  <2>1. queue # <<>> /\ Head(queue) = p /\ queue \in Seq(Proc)
    BY <1>1 DEF Queued, CanRun, QueueTyped
  <2>2. /\ Rest(p) = Tail(queue) /\ Tail(queue) \in Seq(Proc)
        /\ Len(Tail(queue)) = Len(queue) - 1
        /\ \A k \in 1 .. Len(Tail(queue)) : Tail(queue)[k] = queue[k + 1]
    BY <1>1, <2>1 DEF Rest
  <2>3. \A k \in DOMAIN Rest(p) : Rest(p)[k] = queue[k + 1] /\ k + 1 \in DOMAIN queue /\ k \in Nat
    BY <2>1, <2>2
  <2>4. queue[1] = p /\ 1 \in DOMAIN queue
    BY <2>1
  <2>5. \A j, k \in DOMAIN Rest(p) : Rest(p)[j] = Rest(p)[k] => j = k
    BY <2>3 DEF QueueTyped
  <2>6. \A k \in DOMAIN Rest(p) : Rest(p)[k] # p
    <3>1. SUFFICES ASSUME NEW k \in DOMAIN Rest(p), Rest(p)[k] = p PROVE FALSE
      OBVIOUS
    <3>2. k + 1 = 1
      BY <2>3, <2>4, <3>1 DEF QueueTyped
    <3>3. k \in 1 .. Len(Tail(queue))
      BY <2>2
    <3> QED
      BY <3>2, <3>3
  <2> QED
    BY <2>2, <2>5, <2>6 DEF Waits
<1>2. CASE ~Queued(p)
  BY <1>2 DEF Rest, Queued, QueueTyped, Waits
<1> QED
  BY <1>1, <1>2

LEMMA AwaitWaits ==
  ASSUME QueueTyped, NEW p \in Proc, CanRun(p)
  PROVE  Waits(Append(Rest(p), p))
<1> DEFINE s == Rest(p)
           t == Append(s, p)
<1>1. Waits(s) /\ \A k \in DOMAIN s : s[k] # p
  BY RestWaits
<1> HIDE DEF s
<1>2. /\ s \in Seq(Proc) /\ t \in Seq(Proc) /\ Len(t) = Len(s) + 1 /\ t[Len(s) + 1] = p
      /\ \A k \in 1 .. Len(s) : t[k] = s[k]
      /\ DOMAIN s = 1 .. Len(s) /\ DOMAIN t = 1 .. Len(s) + 1 /\ Len(s) \in Nat
  BY <1>1 DEF Waits
<1> HIDE DEF t
<1>3. \A k \in DOMAIN t : k \in DOMAIN s \/ k = Len(s) + 1
  BY <1>2
<1>4. \A j, k \in DOMAIN t : t[j] = t[k] => j = k
  BY <1>1, <1>2, <1>3 DEF Waits
<1>5. Waits(t)
  BY <1>2, <1>4 DEF Waits
<1> QED
  BY <1>5 DEF t, s

-----------------------------------------------------------------------------
(* The rows, and the ids the callers hold between their awaits.  A name has *)
(* one id and an id one name; an id a caller was given never comes to stand *)
(* for another name, however long the call waits (ids are not handed out    *)
(* again), though the role it stands for may be gone by then.               *)

StateTyped ==
  /\ db \subseteq Row
  /\ call \in [Proc -> CallType]
  /\ want \in [Proc -> SUBSET Name]
  /\ ids \in [Proc -> [Name -> Id \cup {NoId}]]

CallOK(p) ==
  /\ call[p] = NoCall \/ call[p] \in Calls
  /\ want[p] \subseteq call[p].roles \cup call[p].perms
  /\ want[p] # {} => call[p].kind \notin FindOnlyKinds
  /\ call[p].kind \in {"createRole", "createPermission"} =>
       want[p] = call[p].roles \cup call[p].perms

(* A call that goes on after creating its names holds an id for each. *)
HoldsIds(p) ==
  call[p].kind \notin FindOnlyKinds \cup {"createRole", "createPermission"} =>
    \A n \in (call[p].roles \cup call[p].perms) \ want[p] : ids[p][n] \in Id

OneId == \A n, i, j : IsId(db, n, i) /\ IsId(db, n, j) => i = j
OneName == \A n, m, i : IsId(db, n, i) /\ IsId(db, m, i) => n = m

IdsMean(p) ==
  \A n \in Name : ids[p][n] # NoId =>
    /\ \A m : IsId(db, m, ids[p][n]) => m = n
    /\ n \in Perm => IsId(db, n, ids[p][n])

(* A caller holds ids of its call's names only, and drops them at its end. *)
OwnIds(p) ==
  \A n \in Name : ids[p][n] # NoId =>
    /\ n \in (call[p].roles \cup call[p].perms) \ want[p]
    /\ call[p].kind \notin FindOnlyKinds \cup {"createRole", "createPermission"}

MemoryInv ==
  /\ StateTyped /\ QueueTyped /\ OneId /\ OneName
  /\ \A p \in Proc : CallOK(p) /\ HoldsIds(p) /\ IdsMean(p) /\ OwnIds(p)

LEMMA TypeOKIs == TypeOK <=> StateTyped /\ QueueTyped
BY DEF TypeOK, StateTyped, QueueTyped

(* A fresh id is one no row and no caller mentions. *)
LEMMA FreshIs ==
  ASSUME NEW i \in Fresh
  PROVE  /\ i \in Id /\ \A r \in db : i \notin IdsIn(r)
         /\ \A p \in Proc, n \in Name : ids[p][n] # i
BY DEF Fresh, Used

(* createRole answers the id the name has, or makes the name with a new one. *)
LEMMA CreateIs ==
  ASSUME MemoryInv, NEW p \in Proc, NEW n \in Name, Create(p, n)
  PROVE  \E i \in Id :
           /\ db' = db \cup {Named(i, n)}
           /\ \/ IsId(db, n, i) /\ db' = db
              \/ i \in Fresh /\ \A j : ~IsId(db, n, j)
           /\ IF call[p].kind \in {"createRole", "createPermission"}
                THEN Return(p)
                ELSE /\ ids' = [ids EXCEPT ![p][n] = i]
                     /\ want' = [want EXCEPT ![p] = @ \ {n}]
                     /\ Await(p)
                     /\ UNCHANGED call
<1>1. db \in SUBSET Row
  BY DEF MemoryInv, StateTyped
<1>2. PICK i \in CreatedId(n) :
        /\ db' = db \cup {Named(i, n)}
        /\ IF call[p].kind \in {"createRole", "createPermission"}
             THEN Return(p)
             ELSE /\ ids' = [ids EXCEPT ![p][n] = i]
                  /\ want' = [want EXCEPT ![p] = @ \ {n}]
                  /\ Await(p)
                  /\ UNCHANGED call
  BY DEF Create
<1>3. \A j : j \in Ids(db, {n}) <=> IsId(db, n, j)
  BY <1>1, IdsOfOne
<1>4. CASE Ids(db, {n}) # {}
  <2>1. IsId(db, n, i) /\ db' = db
    BY <1>2, <1>3, <1>4 DEF CreatedId, IsId
  <2>2. i \in Id
    BY <1>1, <2>1, RowShapes, RowFields DEF IsId
  <2> QED
    BY <1>2, <2>1, <2>2
<1>5. CASE Ids(db, {n}) = {}
  <2>1. i \in Fresh /\ \A j : ~IsId(db, n, j)
    BY <1>2, <1>3, <1>5 DEF CreatedId
  <2> QED
    BY <1>2, <2>1, FreshIs
<1> QED
  BY <1>4, <1>5

(* What the caller's own part of the invariant needs of a step: an id it    *)
(* holds keeps its meaning as long as names only go, or come with new ids.  *)
LEMMA ReturnKeeps ==
  ASSUME MemoryInv, NEW p \in Proc, CanRun(p), Return(p)
  PROVE  /\ QueueTyped'
         /\ call' \in [Proc -> CallType] /\ want' \in [Proc -> SUBSET Name]
         /\ ids' \in [Proc -> [Name -> Id \cup {NoId}]]
         /\ \A q \in Proc : CallOK(q)' /\ HoldsIds(q)' /\ OwnIds(q)'
         /\ \A q \in Proc, n \in Name : ids'[q][n] # NoId => q # p /\ ids'[q][n] = ids[q][n]
<1>1. NoCall \in CallType /\ NoCall.roles = {} /\ NoCall.perms = {}
  BY TablesAssumption DEF NoCall, Call, CallType
<1>2. /\ call' = [call EXCEPT ![p] = NoCall]
      /\ want' = [want EXCEPT ![p] = {}]
      /\ ids' = [ids EXCEPT ![p] = [n \in Name |-> NoId]]
      /\ queue' = Rest(p)
  BY DEF Return
<1>3. QueueTyped'
  <2>1. Waits(queue')
    BY <1>2, RestWaits DEF MemoryInv
  <2> QED
    BY <2>1 DEF Waits, QueueTyped
<1>4. StateTyped /\ \A q \in Proc : CallOK(q) /\ HoldsIds(q) /\ OwnIds(q)
  BY DEF MemoryInv
<1>5. /\ call' \in [Proc -> CallType] /\ want' \in [Proc -> SUBSET Name]
      /\ ids' \in [Proc -> [Name -> Id \cup {NoId}]]
  BY <1>1, <1>2, <1>4 DEF StateTyped
<1>6. /\ call'[p] = NoCall /\ want'[p] = {} /\ \A n \in Name : ids'[p][n] = NoId
      /\ \A q \in Proc \ {p} : call'[q] = call[q] /\ want'[q] = want[q] /\ ids'[q] = ids[q]
  BY <1>2, <1>4 DEF StateTyped
<1>7. \A q \in Proc : CallOK(q)' /\ HoldsIds(q)'
  BY <1>1, <1>4, <1>6 DEF CallOK, HoldsIds
<1>8. \A q \in Proc : OwnIds(q)'
  BY <1>4, <1>6 DEF OwnIds
<1> QED
  BY <1>3, <1>5, <1>6, <1>7, <1>8

LEMMA BeginStep ==
  ASSUME MemoryInv, NEW p \in Proc, NEW c \in Calls, Begin(p, c)
  PROVE  MemoryInv'
<1>1. /\ call' = [call EXCEPT ![p] = c]
      /\ want' = [want EXCEPT ![p] = IF c.kind \in FindOnlyKinds THEN {}
                                     ELSE c.roles \cup c.perms]
      /\ UNCHANGED <<db, ids, queue>>
  BY DEF Begin
<1>2. c \in CallType /\ c.roles \cup c.perms \subseteq Name
  BY CallsTyped DEF CallType, Name
<1>3. StateTyped /\ \A q \in Proc : CallOK(q) /\ HoldsIds(q) /\ OwnIds(q)
  BY DEF MemoryInv
<1>4. StateTyped'
  BY <1>1, <1>2, <1>3 DEF StateTyped
<1>5. \A q \in Proc : CallOK(q)' /\ HoldsIds(q)' /\ OwnIds(q)'
  <2>1. /\ call'[p] = c
        /\ want'[p] = IF c.kind \in FindOnlyKinds THEN {} ELSE c.roles \cup c.perms
        /\ ids'[p] = ids[p]
        /\ \A q \in Proc \ {p} : call'[q] = call[q] /\ want'[q] = want[q] /\ ids'[q] = ids[q]
    BY <1>1, <1>3 DEF StateTyped
  <2>2. \A q \in Proc \ {p} : CallOK(q)' /\ HoldsIds(q)' /\ OwnIds(q)'
    BY <1>3, <2>1 DEF CallOK, HoldsIds, OwnIds
  <2>3. CallOK(p)'
    BY <2>1 DEF CallOK, FindOnlyKinds
  <2>4. HoldsIds(p)'
    BY <2>1 DEF HoldsIds
  <2>5. OwnIds(p)'
    <3>1. \A n \in Name : ids[p][n] = NoId
      BY <1>3 DEF OwnIds, Begin, NoCall, Call
    <3> QED
      BY <2>1, <3>1 DEF OwnIds
  <2> QED
    BY <2>2, <2>3, <2>4, <2>5
<1>6. QueueTyped' /\ OneId' /\ OneName' /\ \A q \in Proc : IdsMean(q)'
  BY <1>1 DEF MemoryInv, QueueTyped, OneId, OneName, IdsMean, IsId
<1> QED
  BY <1>4, <1>5, <1>6 DEF MemoryInv

(* A name created with a fresh id is the one name of that id. *)
LEMMA CreateNames ==
  ASSUME MemoryInv, NEW n \in Name, NEW i \in Id, db' = db \cup {Named(i, n)},
         \/ IsId(db, n, i) /\ db' = db
         \/ i \in Fresh /\ \A j : ~IsId(db, n, j)
  PROVE  /\ \A m, j : IsId(db', m, j) <=> IsId(db, m, j) \/ (m = n /\ j = i)
         /\ OneId' /\ OneName'
         /\ \A q \in Proc : IdsMean(q) => \A m \in Name : ids[q][m] # NoId =>
              /\ \A k : IsId(db', k, ids[q][m]) => k = m
              /\ m \in Perm => IsId(db', m, ids[q][m])
<1>1. OneId /\ OneName
  BY DEF MemoryInv
<1>2. \A m, j : Named(j, m) = Named(i, n) => m = n /\ j = i
  BY RowFields
<1>3. \A m, j : IsId(db', m, j) <=> IsId(db, m, j) \/ (m = n /\ j = i)
  BY <1>2 DEF IsId
<1>4. CASE IsId(db, n, i) /\ db' = db
  BY <1>1, <1>3, <1>4 DEF OneId, OneName, IdsMean
<1>5. CASE i \in Fresh /\ \A j : ~IsId(db, n, j)
  <2>1. \A m : ~IsId(db, m, i)
    BY <1>5, FreshIs, RowFields DEF IsId, IdsIn
  <2>2. \A q \in Proc, m \in Name : ids[q][m] # i
    BY <1>5, FreshIs
  <2>3. OneId' /\ OneName'
    BY <1>1, <1>3, <1>5, <2>1 DEF OneId, OneName
  <2> QED
    BY <1>3, <2>2, <2>3 DEF IdsMean
<1> QED
  BY <1>4, <1>5

LEMMA CreateStep ==
  ASSUME MemoryInv, NEW p \in Proc, NEW n \in Name, Create(p, n)
  PROVE  MemoryInv'
<1>1. StateTyped /\ QueueTyped /\ \A q \in Proc : CallOK(q) /\ HoldsIds(q) /\ IdsMean(q) /\ OwnIds(q)
  BY DEF MemoryInv
<1>2. PICK i \in Id :
        /\ db' = db \cup {Named(i, n)}
        /\ \/ IsId(db, n, i) /\ db' = db
           \/ i \in Fresh /\ \A j : ~IsId(db, n, j)
        /\ IF call[p].kind \in {"createRole", "createPermission"}
             THEN Return(p)
             ELSE /\ ids' = [ids EXCEPT ![p][n] = i]
                  /\ want' = [want EXCEPT ![p] = @ \ {n}]
                  /\ Await(p)
                  /\ UNCHANGED call
  BY CreateIs
<1>3. /\ \A m, j : IsId(db', m, j) <=> IsId(db, m, j) \/ (m = n /\ j = i)
      /\ OneId' /\ OneName'
      /\ \A q \in Proc : \A m \in Name : ids[q][m] # NoId =>
              /\ \A k : IsId(db', k, ids[q][m]) => k = m
              /\ m \in Perm => IsId(db', m, ids[q][m])
  BY <1>1, <1>2, CreateNames
<1>4. db' \subseteq Row
  BY <1>1, <1>2 DEF Named, Row, NameRow, StateTyped
<1>5. CanRun(p)
  BY DEF Create
<1>6. CASE Return(p)
  <2>1. /\ QueueTyped'
        /\ call' \in [Proc -> CallType] /\ want' \in [Proc -> SUBSET Name]
        /\ ids' \in [Proc -> [Name -> Id \cup {NoId}]]
        /\ \A q \in Proc : CallOK(q)' /\ HoldsIds(q)' /\ OwnIds(q)'
        /\ \A q \in Proc, m \in Name : ids'[q][m] # NoId => q # p /\ ids'[q][m] = ids[q][m]
    BY <1>5, <1>6, ReturnKeeps
  <2>2. \A q \in Proc : IdsMean(q)'
    BY <1>3, <2>1 DEF IdsMean
  <2> QED
    BY <1>3, <1>4, <2>1, <2>2 DEF MemoryInv, StateTyped
<1>7. CASE /\ call[p].kind \notin {"createRole", "createPermission"}
           /\ ids' = [ids EXCEPT ![p][n] = i]
           /\ want' = [want EXCEPT ![p] = @ \ {n}]
           /\ Await(p)
           /\ UNCHANGED call
  <2>1. /\ want'[p] = want[p] \ {n} /\ ids'[p] = [ids[p] EXCEPT ![n] = i]
        /\ \A q \in Proc \ {p} : want'[q] = want[q] /\ ids'[q] = ids[q]
    BY <1>1, <1>7 DEF StateTyped
  <2>2. ids'[p][n] = i /\ \A m \in Name \ {n} : ids'[p][m] = ids[p][m]
    BY <1>1, <2>1 DEF StateTyped
  <2>3. StateTyped'
    BY <1>1, <1>4, <1>7 DEF StateTyped
  <2>4. QueueTyped'
    <3>1. Waits(queue')
      BY <1>1, <1>5, <1>7, AwaitWaits DEF Await
    <3> QED
      BY <3>1 DEF Waits, QueueTyped
  <2>5. \A q \in Proc : CallOK(q)'
    BY <1>1, <1>7, <2>1 DEF CallOK
  <2>6. \A q \in Proc : HoldsIds(q)'
    <3>1. call[p].roles \cup call[p].perms \subseteq Name
      BY <1>1 DEF StateTyped, CallType, Name
    <3> QED
      BY <1>1, <1>7, <2>1, <2>2, <3>1 DEF HoldsIds
  <2>7. \A q \in Proc : IdsMean(q)'
    <3>1. ASSUME NEW q \in Proc \ {p} PROVE IdsMean(q)'
      BY <1>3, <2>1 DEF IdsMean
    <3>2. IdsMean(p)'
      <4>1. IsId(db', n, i)
        BY <1>3
      <4>2. \A m : IsId(db', m, i) => m = n
        BY <1>3, <4>1 DEF OneName
      <4> QED
        BY <1>3, <2>2, <4>1, <4>2 DEF IdsMean
    <3> QED
      BY <3>1, <3>2
  <2>8. \A q \in Proc : OwnIds(q)'
    <3>1. n \in want[p] /\ n \in call[p].roles \cup call[p].perms
          /\ call[p].kind \notin FindOnlyKinds
      BY <1>1 DEF Create, NextNames, CallOK
    <3> QED
      BY <1>1, <1>7, <2>1, <2>2, <3>1 DEF OwnIds
  <2> QED
    BY <1>3, <2>3, <2>4, <2>5, <2>6, <2>7, <2>8 DEF MemoryInv
<1> QED
  BY <1>2, <1>6, <1>7

(* The last stretch of a call takes no name but the role deleteRole deletes,*)
(* and adds none.                                                           *)
LEMMA FinishNames ==
  ASSUME MemoryInv, NEW p \in Proc, Finish(p)
  PROVE  \A n, i : IsId(db', n, i) <=>
           IsId(db, n, i) /\ ~(call[p].kind = "deleteRole" /\ n \in call[p].roles)
<1> DEFINE c == call[p]
           more == RowsToAdd(c, RoleIds(p), PermIds(p))
<1>1. db \in SUBSET Row /\ OneName
  BY DEF MemoryInv, StateTyped
<1>2. db' = (db \ Doomed(p)) \cup more
  BY DEF Finish
<1>3. \A r \in more : r.tab # "name"
  BY RowFields DEF RowsToAdd
<1>4. \A n, i : IsId(db, n, i) =>
        (Named(i, n) \in Doomed(p) <=> c.kind = "deleteRole" /\ i \in RoleIds(p))
  BY RowFields DEF Doomed, IsId, OfRole, Removes, Replaces
<1>5. c.kind = "deleteRole" =>
        \A n, i : IsId(db, n, i) => (i \in RoleIds(p) <=> n \in c.roles)
  <2> SUFFICES ASSUME c.kind = "deleteRole", NEW n, NEW i, IsId(db, n, i)
               PROVE  i \in RoleIds(p) <=> n \in c.roles
    OBVIOUS
  <2>1. RoleIds(p) = Ids(db, c.roles)
    BY DEF RoleIds, IdsFor, FindOnlyKinds
  <2>2. i \in Ids(db, c.roles) <=> \E m \in c.roles : IsId(db, m, i)
    BY <1>1, IdsAre
  <2> QED
    BY <1>1, <2>1, <2>2 DEF OneName
<1> HIDE DEF more
<1>6. \A n, i : IsId(db', n, i) <=> IsId(db, n, i) /\ Named(i, n) \notin Doomed(p)
  BY <1>2, <1>3, RowFields DEF IsId
<1> QED
  BY <1>4, <1>5, <1>6

LEMMA FinishStep ==
  ASSUME MemoryInv, NEW p \in Proc, Finish(p)
  PROVE  MemoryInv'
<1> DEFINE c == call[p]
<1>1. /\ StateTyped /\ OneId /\ OneName /\ CallOK(p) /\ HoldsIds(p)
      /\ \A q \in Proc : IdsMean(q)
  BY DEF MemoryInv
<1>2. /\ CanRun(p) /\ c \in Calls /\ want[p] = {} /\ Return(p)
      /\ db' = (db \ Doomed(p)) \cup RowsToAdd(c, RoleIds(p), PermIds(p))
  BY <1>1 DEF Finish, CanRun, CallOK
<1>3. /\ QueueTyped'
      /\ call' \in [Proc -> CallType] /\ want' \in [Proc -> SUBSET Name]
      /\ ids' \in [Proc -> [Name -> Id \cup {NoId}]]
      /\ \A q \in Proc : CallOK(q)' /\ HoldsIds(q)' /\ OwnIds(q)'
      /\ \A q \in Proc, m \in Name : ids'[q][m] # NoId => q # p /\ ids'[q][m] = ids[q][m]
  BY <1>2, ReturnKeeps
<1>4. RowsToAdd(c, RoleIds(p), PermIds(p)) \subseteq Row
  <2>1. CASE c.kind \in FindOnlyKinds \cup {"createRole", "createPermission"}
    BY <2>1 DEF RowsToAdd, FindOnlyKinds
  <2>2. CASE c.kind \notin FindOnlyKinds \cup {"createRole", "createPermission"}
    <3>1. RoleIds(p) \in SUBSET Id /\ PermIds(p) \in SUBSET Id
      BY <1>1, <1>2, <2>2 DEF HoldsIds, RoleIds, PermIds, IdsFor
    <3> QED
      BY <1>2, <3>1, RowsToAddTyped
  <2> QED
    BY <2>1, <2>2
<1>5. StateTyped'
  BY <1>1, <1>2, <1>3, <1>4 DEF StateTyped
<1>6. \A n, i : IsId(db', n, i) <=>
        IsId(db, n, i) /\ ~(c.kind = "deleteRole" /\ n \in c.roles)
  BY FinishNames
<1>7. OneId' /\ OneName'
  BY <1>1, <1>6 DEF OneId, OneName
<1>8. \A q \in Proc : IdsMean(q)'
  <2>1. c.roles \cap Perm = {}
    BY <1>1, TablesAssumption DEF StateTyped, CallType
  <2> QED
    BY <1>1, <1>3, <1>6, <2>1 DEF IdsMean
<1> QED
  BY <1>3, <1>5, <1>7, <1>8 DEF MemoryInv

LEMMA MemoryInit == Init => MemoryInv
<1> SUFFICES ASSUME Init PROVE MemoryInv
  OBVIOUS
<1>1. NoCall \in CallType /\ NoCall.roles = {} /\ NoCall.perms = {}
  BY TablesAssumption DEF NoCall, Call, CallType
<1>2. StateTyped
  BY <1>1 DEF Init, StateTyped
<1>3. QueueTyped
  BY DEF Init, QueueTyped
<1>4. OneId /\ OneName /\ \A p \in Proc : CallOK(p) /\ HoldsIds(p) /\ IdsMean(p) /\ OwnIds(p)
  BY <1>1 DEF Init, OneId, OneName, IsId, CallOK, HoldsIds, IdsMean, OwnIds
<1> QED
  BY <1>2, <1>3, <1>4 DEF MemoryInv

LEMMA MemoryStep == MemoryInv /\ [Next]_vars => MemoryInv'
<1> SUFFICES ASSUME MemoryInv, [Next]_vars PROVE MemoryInv'
  OBVIOUS
<1>1. CASE UNCHANGED vars
  BY <1>1 DEF vars, MemoryInv, StateTyped, QueueTyped, OneId, OneName, IsId, CallOK,
              HoldsIds, IdsMean, OwnIds
<1>2. CASE Next
  BY <1>2, BeginStep, CreateStep, FinishStep DEF Next
<1> QED
  BY <1>1, <1>2

(* The type invariant: every id a row mentions is a real one, and no caller *)
(* is twice in the microtask queue.                                         *)
THEOREM MemoryTyped == Spec => []TypeOK
<1>1. MemoryInv => TypeOK
  BY TypeOKIs DEF MemoryInv
<1> QED
  BY <1>1, MemoryInit, MemoryStep, PTL DEF Spec

-----------------------------------------------------------------------------
(* The contract, step by step.  First what the last stretch of a call does  *)
(* to the rows, then what that means for the names.                         *)

(* The row's scope is the one the call replaces, or names. *)
Scoped(c, u, t, s) == u = c.subj /\ t = c.tenant /\ s \in c.sources

LEMMA FinishGrants ==
  ASSUME NEW p \in Proc, Finish(p)
  PROVE  \A i, j : Granted(i, j) \in db' <=>
           \/ /\ Granted(i, j) \in db
              /\ ~(call[p].kind = "revokePermissionFromRole" /\ i \in RoleIds(p)
                                                             /\ j \in PermIds(p))
              /\ ~(call[p].kind \in {"syncRolePermissions", "deleteRole"} /\ i \in RoleIds(p))
           \/ /\ call[p].kind \in {"givePermissionToRole", "syncRolePermissions"}
              /\ i \in RoleIds(p) /\ j \in PermIds(p)
<1> DEFINE c == call[p]
           R == RoleIds(p)
           P == PermIds(p)
<1>1. db' = (db \ Doomed(p)) \cup RowsToAdd(c, R, P)
  BY DEF Finish
<1>2. \A i, j : Granted(i, j) \in Doomed(p) <=>
        /\ Granted(i, j) \in db
        /\ \/ c.kind = "revokePermissionFromRole" /\ i \in R /\ j \in P
           \/ c.kind \in {"syncRolePermissions", "deleteRole"} /\ i \in R
  BY RowFields DEF Doomed, Removes, Replaces, OfRole
<1>3. \A i, j : Granted(i, j) \in RowsToAdd(c, R, P) <=>
        c.kind \in {"givePermissionToRole", "syncRolePermissions"} /\ i \in R /\ j \in P
  <2> HIDE DEF R, P
  <2> QED
    BY RowFields DEF RowsToAdd
<1> HIDE DEF R, P
<1> QED
  BY <1>1, <1>2, <1>3 DEF R, P

LEMMA FinishAssigns ==
  ASSUME NEW p \in Proc, Finish(p)
  PROVE  \A u, i, t, s : Assigned(u, i, t, s) \in db' <=>
           \/ /\ Assigned(u, i, t, s) \in db
              /\ ~(call[p].kind = "removeRole" /\ Scoped(call[p], u, t, s) /\ i \in RoleIds(p))
              /\ ~(call[p].kind = "setSubjectRoles" /\ Scoped(call[p], u, t, s)
                                                    /\ i \notin RoleIds(p))
              /\ ~(call[p].kind = "deleteRole" /\ i \in RoleIds(p))
              /\ ~(call[p].kind = "removeSubject" /\ u = call[p].subj)
           \/ /\ call[p].kind \in {"assignRole", "setSubjectRoles"}
              /\ Scoped(call[p], u, t, s) /\ i \in RoleIds(p)
<1> DEFINE c == call[p]
           R == RoleIds(p)
           P == PermIds(p)
<1>1. db' = (db \ Doomed(p)) \cup RowsToAdd(c, R, P)
  BY DEF Finish
<1>2. \A u, i, t, s : Assigned(u, i, t, s) \in Doomed(p) <=>
        /\ Assigned(u, i, t, s) \in db
        /\ \/ c.kind = "removeRole" /\ Scoped(c, u, t, s) /\ i \in R
           \/ c.kind = "setSubjectRoles" /\ Scoped(c, u, t, s) /\ i \notin R
           \/ c.kind = "deleteRole" /\ i \in R
           \/ c.kind = "removeSubject" /\ u = c.subj
  BY RowFields DEF Doomed, Removes, Replaces, OfRole, Scoped
<1>3. \A u, i, t, s : Assigned(u, i, t, s) \in RowsToAdd(c, R, P) <=>
        c.kind \in {"assignRole", "setSubjectRoles"} /\ Scoped(c, u, t, s) /\ i \in R
  <2> HIDE DEF R, P
  <2> QED
    BY RowFields DEF RowsToAdd, Scoped
<1> HIDE DEF R, P
<1> QED
  BY <1>1, <1>2, <1>3 DEF R, P

LEMMA FinishDirects ==
  ASSUME NEW p \in Proc, Finish(p)
  PROVE  \A u, j : Direct(u, j) \in db' <=>
           \/ /\ Direct(u, j) \in db
              /\ ~(call[p].kind = "removeSubject" /\ u = call[p].subj)
              /\ ~(call[p].kind = "revokeSubjectPermission" /\ u = call[p].subj
                                                            /\ j \in PermIds(p))
           \/ call[p].kind = "giveSubjectPermission" /\ u = call[p].subj /\ j \in PermIds(p)
<1> DEFINE c == call[p]
           R == RoleIds(p)
           P == PermIds(p)
<1>1. db' = (db \ Doomed(p)) \cup RowsToAdd(c, R, P)
  BY DEF Finish
<1>2. \A u, j : Direct(u, j) \in Doomed(p) <=>
        /\ Direct(u, j) \in db
        /\ \/ c.kind = "removeSubject" /\ u = c.subj
           \/ c.kind = "revokeSubjectPermission" /\ u = c.subj /\ j \in P
  BY RowFields DEF Doomed, Removes, Replaces, OfRole
<1>3. \A u, j : Direct(u, j) \in RowsToAdd(c, R, P) <=>
        c.kind = "giveSubjectPermission" /\ u = c.subj /\ j \in P
  <2> HIDE DEF R, P
  <2> QED
    BY RowFields DEF RowsToAdd
<1> HIDE DEF R, P
<1> QED
  BY <1>1, <1>2, <1>3 DEF R, P

(* The roles of a call its ids still stand for: all of those it looks up    *)
(* now, and of those it was given ids for the ones not deleted since.       *)
Live(p) == {n \in call[p].roles :
              \/ call[p].kind \in FindOnlyKinds
              \/ IsId(db, n, ids[p][n])}

LEMMA IdsOfCall ==
  ASSUME MemoryInv, NEW p \in Proc, Finish(p),
         call[p].kind \notin {"createRole", "createPermission"}
  PROVE  /\ \A n, i : IsId(db, n, i) => (i \in RoleIds(p) <=> n \in Live(p))
         /\ \A q, j : IsId(db, q, j) => (j \in PermIds(p) <=> q \in call[p].perms)
         /\ call[p].kind \notin FindOnlyKinds =>
              /\ \A n \in Live(p) : \E i : IsId(db, n, i)
              /\ \A q \in call[p].perms : \E j : IsId(db, q, j)
<1> DEFINE c == call[p]
<1>1. /\ db \in SUBSET Row /\ OneId /\ OneName /\ IdsMean(p) /\ HoldsIds(p) /\ want[p] = {}
      /\ c.roles \subseteq Role /\ c.perms \subseteq Perm
  BY DEF MemoryInv, StateTyped, Finish, CallType
<1>2. CASE c.kind \in FindOnlyKinds
  <2>1. RoleIds(p) = Ids(db, c.roles) /\ PermIds(p) = Ids(db, c.perms) /\ Live(p) = c.roles
    BY <1>2 DEF RoleIds, PermIds, IdsFor, Live
  <2>2. /\ \A i : i \in Ids(db, c.roles) <=> \E n \in c.roles : IsId(db, n, i)
        /\ \A j : j \in Ids(db, c.perms) <=> \E q \in c.perms : IsId(db, q, j)
    BY <1>1, IdsAre
  <2> QED
    BY <1>1, <1>2, <2>1, <2>2 DEF OneName
<1>3. CASE c.kind \notin FindOnlyKinds
  <2>1. /\ RoleIds(p) = {ids[p][n] : n \in c.roles} /\ PermIds(p) = {ids[p][q] : q \in c.perms}
        /\ Live(p) = {n \in c.roles : IsId(db, n, ids[p][n])}
    BY <1>3 DEF RoleIds, PermIds, IdsFor, Live
  <2>2. \A n \in c.roles \cup c.perms : n \in Name /\ ids[p][n] # NoId
    BY <1>1, <1>3 DEF HoldsIds, Id, NoId, Name
  <2>3. \A n, i : IsId(db, n, i) => (i \in RoleIds(p) <=> n \in Live(p))
    BY <1>1, <2>1, <2>2 DEF OneId, IdsMean
  <2>4. \A q \in c.perms : IsId(db, q, ids[p][q])
    BY <1>1, <2>2 DEF IdsMean
  <2>5. \A q, j : IsId(db, q, j) => (j \in PermIds(p) <=> q \in c.perms)
    BY <1>1, <2>1, <2>2, <2>4 DEF OneId, OneName
  <2> QED
    BY <2>1, <2>3, <2>4, <2>5
<1> QED
  BY <1>2, <1>3

(* The names after the last stretch. *)
LEMMA NamesAfter ==
  ASSUME MemoryInv, NEW p \in Proc, Finish(p)
  PROVE  /\ roles' = {n \in roles : ~(call[p].kind = "deleteRole" /\ n \in call[p].roles)}
         /\ perms' = perms
<1>1. db \in SUBSET Row /\ db' \in SUBSET Row /\ call[p].roles \subseteq Role
  BY FinishStep DEF MemoryInv, StateTyped, CallType
<1>2. \A n, i : IsId(db', n, i) <=>
        IsId(db, n, i) /\ ~(call[p].kind = "deleteRole" /\ n \in call[p].roles)
  BY FinishNames
<1>3. /\ \A n : n \in NamesIn(db, Role) <=> n \in Role /\ \E i : IsId(db, n, i)
      /\ \A n : n \in NamesIn(db, Perm) <=> n \in Perm /\ \E i : IsId(db, n, i)
      /\ \A n : n \in NamesIn(db', Role) <=> n \in Role /\ \E i : IsId(db', n, i)
      /\ \A n : n \in NamesIn(db', Perm) <=> n \in Perm /\ \E i : IsId(db', n, i)
  BY <1>1, NamesAre
<1>4. NamesIn(db', Role) = {n \in NamesIn(db, Role) :
                              ~(call[p].kind = "deleteRole" /\ n \in call[p].roles)}
  BY <1>2, <1>3
<1>5. NamesIn(db', Perm) = NamesIn(db, Perm)
  BY <1>1, <1>2, <1>3, TablesAssumption
<1> QED
  BY <1>4, <1>5 DEF roles, perms

LEMMA GrantsAfter ==
  ASSUME MemoryInv, NEW p \in Proc, Finish(p),
         call[p].kind \notin {"createRole", "createPermission"}
  PROVE  \A n \in Role, q \in Perm : <<n, q>> \in grants' <=>
           \/ /\ <<n, q>> \in grants
              /\ ~(call[p].kind = "revokePermissionFromRole" /\ n \in Live(p)
                                                             /\ q \in call[p].perms)
              /\ ~(call[p].kind \in {"syncRolePermissions", "deleteRole"} /\ n \in Live(p))
           \/ /\ call[p].kind \in {"givePermissionToRole", "syncRolePermissions"}
              /\ n \in Live(p) /\ q \in call[p].perms
<1> DEFINE c == call[p]
<1>1. db \in SUBSET Row /\ db' \in SUBSET Row /\ c.roles \subseteq Role /\ c.perms \subseteq Perm
  BY FinishStep DEF MemoryInv, StateTyped, CallType
<1>2. \A n, i : IsId(db', n, i) <=> IsId(db, n, i) /\ ~(c.kind = "deleteRole" /\ n \in c.roles)
  BY FinishNames
<1>3. /\ \A n, i : IsId(db, n, i) => (i \in RoleIds(p) <=> n \in Live(p))
      /\ \A q, j : IsId(db, q, j) => (j \in PermIds(p) <=> q \in c.perms)
      /\ c.kind \notin FindOnlyKinds =>
           /\ \A n \in Live(p) : \E i : IsId(db, n, i)
           /\ \A q \in c.perms : \E j : IsId(db, q, j)
  BY IdsOfCall
<1>4. c.kind = "deleteRole" => Live(p) = c.roles
  BY DEF Live, FindOnlyKinds
<1>5. c.kind \in {"givePermissionToRole", "syncRolePermissions"} => c.kind \notin FindOnlyKinds
  BY DEF FindOnlyKinds
<1>6. /\ \A n \in Role, q \in Perm :
           <<n, q>> \in grants <=>
             \E i, j : IsId(db, n, i) /\ IsId(db, q, j) /\ Granted(i, j) \in db
      /\ \A n \in Role, q \in Perm :
           <<n, q>> \in grants' <=>
             \E i, j : IsId(db', n, i) /\ IsId(db', q, j) /\ Granted(i, j) \in db'
  BY <1>1, GrantsAre DEF grants
<1>7. \A i, j : Granted(i, j) \in db' <=>
        \/ /\ Granted(i, j) \in db
           /\ ~(c.kind = "revokePermissionFromRole" /\ i \in RoleIds(p) /\ j \in PermIds(p))
           /\ ~(c.kind \in {"syncRolePermissions", "deleteRole"} /\ i \in RoleIds(p))
        \/ /\ c.kind \in {"givePermissionToRole", "syncRolePermissions"}
           /\ i \in RoleIds(p) /\ j \in PermIds(p)
  BY FinishGrants
<1>8. \A q \in Perm : \A j : IsId(db', q, j) <=> IsId(db, q, j)
  BY <1>1, <1>2, TablesAssumption
<1> SUFFICES ASSUME NEW n \in Role, NEW q \in Perm
             PROVE  <<n, q>> \in grants' <=>
                      \/ /\ <<n, q>> \in grants
                         /\ ~(c.kind = "revokePermissionFromRole" /\ n \in Live(p)
                                                                  /\ q \in c.perms)
                         /\ ~(c.kind \in {"syncRolePermissions", "deleteRole"} /\ n \in Live(p))
                      \/ /\ c.kind \in {"givePermissionToRole", "syncRolePermissions"}
                         /\ n \in Live(p) /\ q \in c.perms
  OBVIOUS
<1> HIDE DEF Live, IsId
<1>9. \A i, j : IsId(db', n, i) /\ IsId(db', q, j) =>
        (Granted(i, j) \in db' <=>
           \/ /\ Granted(i, j) \in db
              /\ ~(c.kind = "revokePermissionFromRole" /\ n \in Live(p) /\ q \in c.perms)
              /\ ~(c.kind \in {"syncRolePermissions", "deleteRole"} /\ n \in Live(p))
           \/ /\ c.kind \in {"givePermissionToRole", "syncRolePermissions"}
              /\ n \in Live(p) /\ q \in c.perms)
  BY <1>2, <1>3, <1>7, <1>8
<1>10. c.kind # "deleteRole" => \A i : IsId(db', n, i) <=> IsId(db, n, i)
  BY <1>2
<1>11. CASE c.kind = "deleteRole"
  BY <1>2, <1>4, <1>6, <1>8, <1>9, <1>11
<1>12. CASE c.kind # "deleteRole"
  BY <1>3, <1>5, <1>6, <1>8, <1>9, <1>10, <1>12
<1> QED
  BY <1>11, <1>12

LEMMA MembersAfter ==
  ASSUME MemoryInv, NEW p \in Proc, Finish(p),
         call[p].kind \notin {"createRole", "createPermission"}
  PROVE  \A m \in Member : m \in members' <=>
           \/ /\ m \in members
              /\ ~(call[p].kind = "removeRole"
                   /\ Scoped(call[p], m.subj, m.tenant, m.source) /\ m.role \in Live(p))
              /\ ~(call[p].kind = "setSubjectRoles"
                   /\ Scoped(call[p], m.subj, m.tenant, m.source) /\ m.role \notin Live(p))
              /\ ~(call[p].kind = "deleteRole" /\ m.role \in Live(p))
              /\ ~(call[p].kind = "removeSubject" /\ m.subj = call[p].subj)
           \/ /\ call[p].kind \in {"assignRole", "setSubjectRoles"}
              /\ Scoped(call[p], m.subj, m.tenant, m.source) /\ m.role \in Live(p)
<1> DEFINE c == call[p]
<1>1. db \in SUBSET Row /\ db' \in SUBSET Row
  BY FinishStep DEF MemoryInv, StateTyped
<1>2. \A n, i : IsId(db', n, i) <=> IsId(db, n, i) /\ ~(c.kind = "deleteRole" /\ n \in c.roles)
  BY FinishNames
<1>3. /\ \A n, i : IsId(db, n, i) => (i \in RoleIds(p) <=> n \in Live(p))
      /\ c.kind \notin FindOnlyKinds => \A n \in Live(p) : \E i : IsId(db, n, i)
  BY IdsOfCall
<1>4. c.kind = "deleteRole" => Live(p) = c.roles
  BY DEF Live, FindOnlyKinds
<1>5. c.kind \in {"assignRole", "setSubjectRoles"} => c.kind \notin FindOnlyKinds
  BY DEF FindOnlyKinds
<1>6. \A u, i, t, s : Assigned(u, i, t, s) \in db' <=>
        \/ /\ Assigned(u, i, t, s) \in db
           /\ ~(c.kind = "removeRole" /\ Scoped(c, u, t, s) /\ i \in RoleIds(p))
           /\ ~(c.kind = "setSubjectRoles" /\ Scoped(c, u, t, s) /\ i \notin RoleIds(p))
           /\ ~(c.kind = "deleteRole" /\ i \in RoleIds(p))
           /\ ~(c.kind = "removeSubject" /\ u = c.subj)
        \/ /\ c.kind \in {"assignRole", "setSubjectRoles"}
           /\ Scoped(c, u, t, s) /\ i \in RoleIds(p)
  BY FinishAssigns
<1> SUFFICES ASSUME NEW m \in Member
             PROVE  m \in members' <=>
                      \/ /\ m \in members
                         /\ ~(c.kind = "removeRole"
                              /\ Scoped(c, m.subj, m.tenant, m.source) /\ m.role \in Live(p))
                         /\ ~(c.kind = "setSubjectRoles"
                              /\ Scoped(c, m.subj, m.tenant, m.source) /\ m.role \notin Live(p))
                         /\ ~(c.kind = "deleteRole" /\ m.role \in Live(p))
                         /\ ~(c.kind = "removeSubject" /\ m.subj = c.subj)
                      \/ /\ c.kind \in {"assignRole", "setSubjectRoles"}
                         /\ Scoped(c, m.subj, m.tenant, m.source) /\ m.role \in Live(p)
  OBVIOUS
<1>7. /\ m \in members <=>
           \E i : IsId(db, m.role, i) /\ Assigned(m.subj, i, m.tenant, m.source) \in db
      /\ m \in members' <=>
           \E i : IsId(db', m.role, i) /\ Assigned(m.subj, i, m.tenant, m.source) \in db'
  BY <1>1, MembersAre DEF members
<1> HIDE DEF Scoped, Live, IsId
<1> QED
  BY <1>2, <1>3, <1>4, <1>5, <1>6, <1>7

LEMMA DirectAfter ==
  ASSUME MemoryInv, NEW p \in Proc, Finish(p),
         call[p].kind \notin {"createRole", "createPermission"}
  PROVE  \A u \in Subject, q \in Perm : <<u, q>> \in direct' <=>
           \/ /\ <<u, q>> \in direct
              /\ ~(call[p].kind = "removeSubject" /\ u = call[p].subj)
              /\ ~(call[p].kind = "revokeSubjectPermission" /\ u = call[p].subj
                                                            /\ q \in call[p].perms)
           \/ /\ call[p].kind = "giveSubjectPermission" /\ u = call[p].subj
              /\ q \in call[p].perms
<1> DEFINE c == call[p]
<1>1. db \in SUBSET Row /\ db' \in SUBSET Row /\ c.roles \subseteq Role
  BY FinishStep DEF MemoryInv, StateTyped, CallType
<1>2. \A q \in Perm : \A i : IsId(db', q, i) <=> IsId(db, q, i)
  BY <1>1, FinishNames, TablesAssumption
<1>3. /\ \A q, j : IsId(db, q, j) => (j \in PermIds(p) <=> q \in c.perms)
      /\ c.kind \notin FindOnlyKinds => \A q \in c.perms : \E j : IsId(db, q, j)
  BY IdsOfCall
<1>4. c.kind = "giveSubjectPermission" => c.kind \notin FindOnlyKinds
  BY DEF FindOnlyKinds
<1>5. /\ \A u \in Subject, q \in Perm :
           <<u, q>> \in direct <=> \E j : IsId(db, q, j) /\ Direct(u, j) \in db
      /\ \A u \in Subject, q \in Perm :
           <<u, q>> \in direct' <=> \E j : IsId(db', q, j) /\ Direct(u, j) \in db'
  BY <1>1, DirectsAre DEF direct
<1>6. \A u, j : Direct(u, j) \in db' <=>
        \/ /\ Direct(u, j) \in db
           /\ ~(c.kind = "removeSubject" /\ u = c.subj)
           /\ ~(c.kind = "revokeSubjectPermission" /\ u = c.subj /\ j \in PermIds(p))
        \/ c.kind = "giveSubjectPermission" /\ u = c.subj /\ j \in PermIds(p)
  BY FinishDirects
<1> QED
  BY <1>2, <1>3, <1>4, <1>5, <1>6

LEMMA NamesTyped ==
  /\ grants \in SUBSET (Role \X Perm) /\ grants' \in SUBSET (Role \X Perm)
  /\ members \subseteq Member /\ members' \subseteq Member
  /\ direct \in SUBSET (Subject \X Perm) /\ direct' \in SUBSET (Subject \X Perm)
BY DEF grants, Grants, members, Memberships, Member, direct, Directs

(* The contract speaks of the same calls. *)
LEMMA ContractWords ==
  /\ Contract!Calls = Calls
  /\ Contract!NoCall = NoCall
  /\ Contract!FindOnlyKinds = FindOnlyKinds
BY DEF Contract!Calls, Contract!AllCalls, Contract!RoleCalls, Contract!PairCalls,
       Contract!DirectCalls, Contract!CreatePermissionCalls, Contract!SyncCalls,
       Contract!AssignCalls, Contract!RemoveCalls, Contract!SetCalls,
       Contract!RemoveSubjectCalls, Contract!Call, Contract!NoCall, Contract!FindOnlyKinds,
       Calls, AllCalls, RoleCalls, PairCalls, DirectCalls, CreatePermissionCalls, SyncCalls,
       AssignCalls, RemoveCalls, SetCalls, RemoveSubjectCalls, Call, NoCall, FindOnlyKinds

(* The call for its live roles: what the last stretch does. *)
LiveCall(p) == [call[p] EXCEPT !.roles = Live(p)]

LEMMA LiveCallIs ==
  ASSUME MemoryInv, NEW p \in Proc, Finish(p)
  PROVE  /\ LiveCall(p).kind = call[p].kind /\ LiveCall(p).subj = call[p].subj
         /\ LiveCall(p).roles = Live(p) /\ LiveCall(p).perms = call[p].perms
         /\ LiveCall(p).tenant = call[p].tenant /\ LiveCall(p).sources = call[p].sources
         /\ Live(p) \subseteq call[p].roles
         /\ call[p].kind \in FindOnlyKinds => Live(p) = call[p].roles
<1>1. call[p] \in CallType
  BY DEF MemoryInv, StateTyped
<1> HIDE DEF Live
<1>2. /\ LiveCall(p).kind = call[p].kind /\ LiveCall(p).subj = call[p].subj
      /\ LiveCall(p).roles = Live(p) /\ LiveCall(p).perms = call[p].perms
      /\ LiveCall(p).tenant = call[p].tenant /\ LiveCall(p).sources = call[p].sources
  BY <1>1 DEF LiveCall, CallType
<1>3. /\ Live(p) \subseteq call[p].roles
      /\ call[p].kind \in FindOnlyKinds => Live(p) = call[p].roles
  BY DEF Live
<1> QED
  BY <1>2, <1>3

(* The contract excuses the call for the roles whose ids have gone stale. *)
LEMMA WithoutLost ==
  ASSUME MemoryInv, NEW p \in Proc, Finish(p),
         call[p].kind \notin {"createRole", "createPermission"}
  PROVE  Contract!Without(call[p], lost[p]) = LiveCall(p)
<1> DEFINE c == call[p]
<1>1. /\ db \in SUBSET Row /\ c \in CallType /\ c.roles \subseteq Role
      /\ want[p] = {} /\ HoldsIds(p) /\ OwnIds(p)
  BY DEF MemoryInv, StateTyped, Finish, CallType
<1>2. lost[p] = {n \in Role : ids[p][n] # NoId /\ ~IsId(db, n, ids[p][n])}
  BY <1>1, IdsOfOne DEF lost
<1>3. Live(p) = c.roles \ lost[p]
  <2>1. CASE c.kind \in FindOnlyKinds
    <3>1. lost[p] = {}
      BY <1>1, <1>2, <2>1 DEF OwnIds, Name
    <3> QED
      BY <2>1, <3>1 DEF Live
  <2>2. CASE c.kind \notin FindOnlyKinds
    <3>1. \A n \in c.roles : ids[p][n] # NoId
      BY <1>1, <2>2 DEF HoldsIds, Id, NoId
    <3> QED
      BY <1>1, <1>2, <2>2, <3>1 DEF Live
  <2> QED
    BY <2>1, <2>2
<1> QED
  BY <1>1, <1>3 DEF Contract!Without, LiveCall, CallType

(* The roles a step takes are those it makes callers lose: an id that has   *)
(* gone stale stays so.                                                     *)
LEMMA LosesIs ==
  ASSUME StateTyped, StateTyped', NEW taken,
         \A q \in Proc : call'[q] = NoCall => \A n \in Role : ids'[q][n] = NoId,
         \A q \in Proc, n \in Role : call'[q] # NoCall /\ ids[q][n] # NoId =>
           /\ ids'[q][n] = ids[q][n]
           /\ ~IsId(db, n, ids[q][n]) => ~IsId(db', n, ids[q][n]),
         \A q \in Proc, n \in Role : call'[q] # NoCall /\ ids'[q][n] # NoId
                                    /\ ~IsId(db', n, ids'[q][n]) =>
           \/ ids[q][n] # NoId /\ ~IsId(db, n, ids[q][n])
           \/ n \in taken \cap call[q].roles /\ call[q].kind \notin FindOnlyKinds
  PROVE  Contract!Loses(taken)
<1>1. db \in SUBSET Row /\ db' \in SUBSET Row
  BY DEF StateTyped
<1>2. lost = [q \in Proc |-> {n \in Role : ids[q][n] # NoId /\ ~IsId(db, n, ids[q][n])}]
  BY <1>1, IdsOfOne DEF lost
<1>3. lost' = [q \in Proc |-> {n \in Role : ids'[q][n] # NoId /\ ~IsId(db', n, ids'[q][n])}]
  BY <1>1, IdsOfOne DEF lost
<1>4. lost' \in [Proc -> SUBSET Role]
  BY <1>3
<1>5. ASSUME NEW q \in Proc, call'[q] = NoCall PROVE lost'[q] = {}
  BY <1>3, <1>5
<1>6. ASSUME NEW q \in Proc, call'[q] # NoCall
      PROVE  /\ lost[q] \subseteq lost'[q]
             /\ lost'[q] \ lost[q] \subseteq taken \cap call[q].roles
             /\ call[q].kind \in FindOnlyKinds => lost'[q] = lost[q]
  BY <1>2, <1>3, <1>6
<1> HIDE DEF lost
<1> QED
  BY <1>4, <1>5, <1>6, ContractWords DEF Contract!Loses

(* What a live role and a permission a call holds are: they exist. *)
LEMMA LiveExist ==
  ASSUME MemoryInv, NEW p \in Proc, Finish(p),
         call[p].kind \notin FindOnlyKinds \cup {"createRole", "createPermission"}
  PROVE  Live(p) \subseteq roles /\ call[p].perms \subseteq perms
<1>1. /\ db \in SUBSET Row /\ call[p].roles \subseteq Role /\ call[p].perms \subseteq Perm
  BY DEF MemoryInv, StateTyped, CallType
<1>2. /\ \A n \in Live(p) : \E i : IsId(db, n, i)
      /\ \A q \in call[p].perms : \E j : IsId(db, q, j)
  BY IdsOfCall
<1>3. Live(p) \subseteq Role
  BY <1>1 DEF Live
<1>4. /\ \A n : n \in NamesIn(db, Role) <=> n \in Role /\ \E i : IsId(db, n, i)
      /\ \A n : n \in NamesIn(db, Perm) <=> n \in Perm /\ \E i : IsId(db, n, i)
  BY <1>1, NamesAre
<1> QED
  BY <1>1, <1>2, <1>3, <1>4 DEF roles, perms

LEMMA GrantContract ==
  ASSUME MemoryInv, NEW p \in Proc, Finish(p),
         call[p].kind \in {"givePermissionToRole", "revokePermissionFromRole",
                           "syncRolePermissions"}
  PROVE  Contract!Write(LiveCall(p))
<1> DEFINE c == LiveCall(p)
<1>1. /\ c.kind = call[p].kind /\ c.roles = Live(p) /\ c.perms = call[p].perms
      /\ c.roles \subseteq Role /\ c.perms \subseteq Perm
  BY LiveCallIs DEF MemoryInv, StateTyped, CallType
<1>2. roles' = roles /\ perms' = perms
  BY NamesAfter
<1>3. members' = members
  BY MembersAfter, NamesTyped
<1>4. direct' = direct
  <2>1. \A u \in Subject, q \in Perm : <<u, q>> \in direct' <=> <<u, q>> \in direct
    BY DirectAfter
  <2> QED
    BY <2>1, NamesTyped, SameDirects
<1>5. \A n \in Role, q \in Perm : <<n, q>> \in grants' <=>
           \/ /\ <<n, q>> \in grants
              /\ ~(c.kind = "revokePermissionFromRole" /\ n \in c.roles /\ q \in c.perms)
              /\ ~(c.kind = "syncRolePermissions" /\ n \in c.roles)
           \/ /\ c.kind \in {"givePermissionToRole", "syncRolePermissions"}
              /\ n \in c.roles /\ q \in c.perms
  BY <1>1, GrantsAfter
<1>6. c.kind # "revokePermissionFromRole" => c.roles \subseteq roles /\ c.perms \subseteq perms
  BY <1>1, LiveExist DEF FindOnlyKinds
<1> HIDE DEF c
<1>7. CASE c.kind = "givePermissionToRole"
  <2> DEFINE T == grants \cup (c.roles \X c.perms)
  <2>1. \A n \in Role, q \in Perm : <<n, q>> \in grants' <=> <<n, q>> \in T
    BY <1>1, <1>5, <1>7
  <2>2. T \in SUBSET (Role \X Perm)
    BY <1>1, NamesTyped
  <2>3. grants' = T
    <3> HIDE DEF T
    <3> QED
      BY <2>1, <2>2, NamesTyped, SameGrants
  <2>4. Contract!Grant(c)
    BY <1>2, <1>3, <1>4, <1>6, <1>7, <2>3 DEF Contract!Grant
  <2> QED
    BY <2>4 DEF Contract!Write, c
<1>8. CASE c.kind = "revokePermissionFromRole"
  <2> DEFINE T == grants \ (c.roles \X c.perms)
  <2>1. \A n \in Role, q \in Perm : <<n, q>> \in grants' <=> <<n, q>> \in T
    BY <1>1, <1>5, <1>8
  <2>2. T \in SUBSET (Role \X Perm)
    BY NamesTyped
  <2>3. grants' = T
    <3> HIDE DEF T
    <3> QED
      BY <2>1, <2>2, NamesTyped, SameGrants
  <2>4. Contract!Revoke(c)
    BY <1>2, <1>3, <1>4, <1>8, <2>3 DEF Contract!Revoke
  <2> QED
    BY <2>4 DEF Contract!Write, c
<1>9. CASE c.kind = "syncRolePermissions"
  <2> DEFINE added == c.roles \X c.perms
             removed == {g \in grants : g[1] \in c.roles}
             T == (grants \ removed) \cup added
  <2>1. \A n \in Role, q \in Perm : <<n, q>> \in grants' <=> <<n, q>> \in T
    BY <1>1, <1>5, <1>9
  <2>2. T \in SUBSET (Role \X Perm)
    BY <1>1, NamesTyped
  <2>3. grants' = T
    <3> HIDE DEF T
    <3> QED
      BY <2>1, <2>2, NamesTyped, SameGrants
  <2>4. roles' = roles \cup c.roles /\ perms' = perms \cup c.perms
    BY <1>2, <1>6, <1>9
  <2>5. /\ c.roles \in SUBSET c.roles /\ c.perms \in SUBSET c.perms
        /\ added \in SUBSET (c.roles \X c.perms)
        /\ removed \in SUBSET {g \in grants : g[1] \in c.roles}
    OBVIOUS
  <2>6. Contract!SyncRolePermissions(c)
    BY <1>3, <1>4, <1>9, <2>3, <2>4, <2>5 DEF Contract!SyncRolePermissions
  <2> QED
    BY <2>6 DEF Contract!Write, c
<1> QED
  BY <1>1, <1>7, <1>8, <1>9 DEF c

LEMMA MemberContract ==
  ASSUME MemoryInv, NEW p \in Proc, Finish(p),
         call[p].kind \in {"assignRole", "removeRole", "setSubjectRoles"}
  PROVE  Contract!Write(LiveCall(p))
<1> DEFINE c == LiveCall(p)
           L == Contract!ListedBy(c)
           S == Contract!ScopeOf(c)
<1>1. /\ c.kind = call[p].kind /\ c.roles = Live(p) /\ c.subj = call[p].subj
      /\ c.tenant = call[p].tenant /\ c.sources = call[p].sources
      /\ c.roles \subseteq Role /\ c.tenant \in Tenant /\ c.sources \subseteq Source
      /\ c.kind \in {"assignRole", "setSubjectRoles"} => c.subj \in Subject
  BY LiveCallIs, CallSubjects DEF MemoryInv, StateTyped, CallType, CallOK, Finish, CanRun
<1>2. roles' = roles /\ perms' = perms
  BY NamesAfter
<1>3. grants' = grants
  <2>1. \A n \in Role, q \in Perm : <<n, q>> \in grants' <=> <<n, q>> \in grants
    BY GrantsAfter
  <2> QED
    BY <2>1, NamesTyped, SameGrants
<1>4. direct' = direct
  <2>1. \A u \in Subject, q \in Perm : <<u, q>> \in direct' <=> <<u, q>> \in direct
    BY DirectAfter
  <2> QED
    BY <2>1, NamesTyped, SameDirects
<1>5. \A m \in Member : m \in members' <=>
           \/ /\ m \in members
              /\ ~(c.kind = "removeRole"
                   /\ Scoped(c, m.subj, m.tenant, m.source) /\ m.role \in c.roles)
              /\ ~(c.kind = "setSubjectRoles"
                   /\ Scoped(c, m.subj, m.tenant, m.source) /\ m.role \notin c.roles)
           \/ /\ c.kind \in {"assignRole", "setSubjectRoles"}
              /\ Scoped(c, m.subj, m.tenant, m.source) /\ m.role \in c.roles
  BY <1>1, MembersAfter DEF Scoped
<1>6. c.kind # "removeRole" => c.roles \subseteq roles
  BY <1>1, LiveExist DEF FindOnlyKinds
<1> HIDE DEF c
<1>7. \A m \in Member :
        m \in L <=> Scoped(c, m.subj, m.tenant, m.source) /\ m.role \in c.roles
  BY DEF Contract!ListedBy, Scoped, Member
<1>8. c.kind # "removeRole" => L \subseteq Member
  BY <1>1 DEF Contract!ListedBy, Member
<1>9. \A m \in members : m \in S <=> Scoped(c, m.subj, m.tenant, m.source)
  BY DEF Contract!ScopeOf, Scoped
<1>10. CASE c.kind = "assignRole"
  <2>1. members' = members \cup L
    <3> HIDE DEF L
    <3> QED
      BY <1>5, <1>7, <1>8, <1>10, NamesTyped
  <2>2. Contract!Assign(c)
    BY <1>2, <1>3, <1>4, <1>6, <1>10, <2>1 DEF Contract!Assign
  <2> QED
    BY <2>2 DEF Contract!Write, c
<1>11. CASE c.kind = "removeRole"
  <2>1. members' = members \ L
    <3> HIDE DEF L
    <3> QED
      BY <1>5, <1>7, <1>11, NamesTyped
  <2>2. Contract!Remove(c)
    BY <1>2, <1>3, <1>4, <1>11, <2>1 DEF Contract!Remove
  <2> QED
    BY <2>2 DEF Contract!Write, c
<1>12. CASE c.kind = "setSubjectRoles"
  <2>1. members' = (members \ S) \cup L
    <3> HIDE DEF L, S
    <3> QED
      BY <1>5, <1>7, <1>8, <1>9, <1>12, NamesTyped
  <2>2. roles' = roles \cup c.roles
    BY <1>2, <1>6, <1>12
  <2>3. c.roles \in SUBSET c.roles /\ L \in SUBSET L /\ S \in SUBSET S
    OBVIOUS
  <2>4. Contract!SetSubjectRoles(c)
    BY <1>2, <1>3, <1>4, <1>12, <2>1, <2>2, <2>3 DEF Contract!SetSubjectRoles
  <2> QED
    BY <2>4 DEF Contract!Write, c
<1> QED
  BY <1>1, <1>10, <1>11, <1>12 DEF c

LEMMA OtherContract ==
  ASSUME MemoryInv, NEW p \in Proc, Finish(p),
         call[p].kind \in {"deleteRole", "removeSubject", "giveSubjectPermission",
                           "revokeSubjectPermission"}
  PROVE  Contract!Write(LiveCall(p))
<1> DEFINE c == LiveCall(p)
<1>1. /\ c.kind = call[p].kind /\ c.roles = Live(p) /\ c.perms = call[p].perms
      /\ c.subj = call[p].subj /\ c.roles \subseteq Role /\ c.perms \subseteq Perm
      /\ c.kind = "deleteRole" => Live(p) = call[p].roles
      /\ c.kind = "giveSubjectPermission" => c.subj \in Subject
  BY LiveCallIs, CallSubjects DEF FindOnlyKinds, MemoryInv, StateTyped, CallType, CallOK, Finish, CanRun
<1>2. /\ roles' = {n \in roles : ~(c.kind = "deleteRole" /\ n \in c.roles)}
      /\ perms' = perms
  BY <1>1, NamesAfter
<1>3. \A n \in Role, q \in Perm : <<n, q>> \in grants' <=>
        <<n, q>> \in grants /\ ~(c.kind = "deleteRole" /\ n \in Live(p))
  BY <1>1, GrantsAfter
<1>4. \A m \in Member : m \in members' <=>
        /\ m \in members
        /\ ~(c.kind = "deleteRole" /\ m.role \in Live(p))
        /\ ~(c.kind = "removeSubject" /\ m.subj = c.subj)
  BY <1>1, MembersAfter
<1>5. \A u \in Subject, q \in Perm : <<u, q>> \in direct' <=>
        \/ /\ <<u, q>> \in direct
           /\ ~(c.kind = "removeSubject" /\ u = c.subj)
           /\ ~(c.kind = "revokeSubjectPermission" /\ u = c.subj /\ q \in c.perms)
        \/ c.kind = "giveSubjectPermission" /\ u = c.subj /\ q \in c.perms
  BY <1>1, DirectAfter
<1>6. c.kind = "deleteRole" => Live(p) = c.roles
  BY <1>1
<1> HIDE DEF c
<1>7. c.kind # "deleteRole" => grants' = grants
  <2>1. ASSUME c.kind # "deleteRole"
        PROVE  \A n \in Role, q \in Perm : <<n, q>> \in grants' <=> <<n, q>> \in grants
    BY <1>3, <2>1
  <2> QED
    BY <2>1, NamesTyped, SameGrants
<1>8. c.kind \notin {"deleteRole", "removeSubject"} => members' = members
  BY <1>4, NamesTyped
<1>9. CASE c.kind = "deleteRole"
  <2> DEFINE T == {g \in grants : g[1] \notin c.roles}
  <2>1. \A n \in Role, q \in Perm : <<n, q>> \in grants' <=> <<n, q>> \in T
    BY <1>3, <1>6, <1>9
  <2>2. T \in SUBSET (Role \X Perm)
    BY NamesTyped
  <2>3. grants' = T
    <3> HIDE DEF T
    <3> QED
      BY <2>1, <2>2, NamesTyped, SameGrants
  <2>4. members' = {m \in members : m.role \notin c.roles}
    BY <1>4, <1>6, <1>9, NamesTyped
  <2>5. \A u \in Subject, q \in Perm : <<u, q>> \in direct' <=> <<u, q>> \in direct
    BY <1>5, <1>9
  <2>6. direct' = direct
    BY <2>5, NamesTyped, SameDirects
  <2>7. roles' = roles \ c.roles
    BY <1>2, <1>9
  <2>8. Contract!DeleteRole(c)
    BY <1>2, <1>9, <2>3, <2>4, <2>6, <2>7 DEF Contract!DeleteRole
  <2> QED
    BY <2>8 DEF Contract!Write, c
<1>10. CASE c.kind = "removeSubject"
  <2> DEFINE gone == {m \in members : m.subj = c.subj}
             goneDirect == {d \in direct : d[1] = c.subj}
             T == direct \ goneDirect
  <2>1. \A u \in Subject, q \in Perm : <<u, q>> \in direct' <=> <<u, q>> \in T
    BY <1>5, <1>10
  <2>2. T \in SUBSET (Subject \X Perm)
    BY NamesTyped
  <2>3. direct' = T
    <3> HIDE DEF T
    <3> QED
      BY <2>1, <2>2, NamesTyped, SameDirects
  <2>4. members' = members \ gone
    BY <1>4, <1>10, NamesTyped
  <2>5. roles' = roles
    BY <1>2, <1>10
  <2>6. Contract!RemoveSubject(c)
    BY <1>2, <1>7, <1>10, <2>3, <2>4, <2>5 DEF Contract!RemoveSubject
  <2> QED
    BY <2>6 DEF Contract!Write, c
<1>11. CASE c.kind \in {"giveSubjectPermission", "revokeSubjectPermission"}
  <2> DEFINE pairs == {c.subj} \X c.perms
             T == IF c.kind = "giveSubjectPermission" THEN direct \cup pairs ELSE direct \ pairs
  <2>1. \A u \in Subject, q \in Perm : <<u, q>> \in direct' <=> <<u, q>> \in T
    BY <1>1, <1>5, <1>11
  <2>2. T \in SUBSET (Subject \X Perm)
    BY <1>1, NamesTyped
  <2>3. direct' = T
    <3> HIDE DEF T
    <3> QED
      BY <2>1, <2>2, NamesTyped, SameDirects
  <2>4. roles' = roles
    BY <1>2, <1>11
  <2>5. CASE c.kind = "giveSubjectPermission"
    <3>1. c.perms \subseteq perms
      BY <1>1, <2>5, LiveExist DEF FindOnlyKinds
    <3>2. Contract!GiveDirect(c)
      BY <1>2, <1>7, <1>8, <2>3, <2>4, <2>5, <3>1 DEF Contract!GiveDirect
    <3> QED
      BY <3>2 DEF Contract!Write, c
  <2>6. CASE c.kind = "revokeSubjectPermission"
    <3>1. Contract!RevokeDirect(c)
      BY <1>2, <1>7, <1>8, <2>3, <2>4, <2>6 DEF Contract!RevokeDirect
    <3> QED
      BY <3>1 DEF Contract!Write, c
  <2> QED
    BY <1>11, <2>5, <2>6
<1> QED
  BY <1>1, <1>9, <1>10, <1>11 DEF c

(* The last stretch never ends a call that creates one name and answers its *)
(* id: Create does.                                                         *)
LEMMA CreatedWaits ==
  ASSUME MemoryInv, NEW p \in Proc, Finish(p)
  PROVE  call[p].kind \notin {"createRole", "createPermission"}
<1>1. call[p] \in Calls /\ want[p] = {} /\ CallOK(p)
  BY DEF MemoryInv, CallOK, Finish, CanRun
<1> QED
  BY <1>1, CallShapes DEF CallOK, One

LEMMA FinishLoses ==
  ASSUME MemoryInv, NEW p \in Proc, Finish(p)
  PROVE  Contract!Loses(Contract!Taken(call[p]))
<1> DEFINE c == call[p]
           taken == Contract!Taken(c)
<1>1. /\ StateTyped /\ StateTyped' /\ CanRun(p) /\ Return(p)
      /\ \A q \in Proc : OwnIds(q) /\ OwnIds(q)'
  BY FinishStep DEF MemoryInv, Finish
<1>2. \A n, i : IsId(db', n, i) <=> IsId(db, n, i) /\ ~(c.kind = "deleteRole" /\ n \in c.roles)
  BY FinishNames
<1>3. \A n : n \in roles <=> n \in Role /\ \E i : IsId(db, n, i)
  <2>1. db \in SUBSET Row
    BY <1>1 DEF StateTyped
  <2> QED
    BY <2>1, NamesAre DEF roles
<1>4. c.kind = "deleteRole" => taken = c.roles \cap roles
  BY DEF Contract!Taken
<1>5. /\ call'[p] = NoCall /\ \A q \in Proc \ {p} : call'[q] = call[q] /\ ids'[q] = ids[q]
      /\ \A n \in Name : ids'[p][n] = NoId
  BY <1>1 DEF Return, StateTyped
<1>6. NoCall.roles = {} /\ NoCall.perms = {}
  BY DEF NoCall, Call
<1>7. \A q \in Proc : call'[q] = NoCall => \A n \in Role : ids'[q][n] = NoId
  BY <1>1, <1>6 DEF OwnIds, Name
<1>8. ASSUME NEW q \in Proc, NEW n \in Role, ids[q][n] # NoId
      PROVE  n \in call[q].roles /\ call[q].kind \notin FindOnlyKinds
  BY <1>1, <1>8, TablesAssumption DEF OwnIds, Name, StateTyped, CallType
<1> HIDE DEF roles, taken
<1>9. \A q \in Proc, n \in Role : call'[q] # NoCall /\ ids[q][n] # NoId =>
        /\ ids'[q][n] = ids[q][n]
        /\ ~IsId(db, n, ids[q][n]) => ~IsId(db', n, ids[q][n])
  BY <1>2, <1>5
<1>10. \A q \in Proc, n \in Role : call'[q] # NoCall /\ ids'[q][n] # NoId
                                /\ ~IsId(db', n, ids'[q][n]) =>
         \/ ids[q][n] # NoId /\ ~IsId(db, n, ids[q][n])
         \/ n \in taken \cap call[q].roles /\ call[q].kind \notin FindOnlyKinds
  BY <1>2, <1>3, <1>4, <1>5, <1>8
<1>11. Contract!Loses(taken)
  BY <1>1, <1>7, <1>9, <1>10, LosesIs
<1> QED
  BY <1>11 DEF taken

LEMMA FinishContract ==
  ASSUME MemoryInv, NEW p \in Proc, Finish(p)
  PROVE  Contract!Next
<1>1. call[p] \in Calls /\ Return(p)
  BY DEF MemoryInv, CallOK, Finish, CanRun
<1>2. Contract!Write(Contract!Without(call[p], lost[p]))
  BY <1>1, CallShapes, GrantContract, MemberContract, OtherContract, CreatedWaits, WithoutLost
     DEF AllKinds, TxKinds, FindOnlyKinds
<1>3. Contract!Ends(p)
  BY <1>1, ContractWords DEF Contract!Ends, Return
<1> HIDE DEF lost
<1> QED
  BY <1>2, <1>3, FinishLoses DEF Contract!Next

LEMMA CreateLoses ==
  ASSUME MemoryInv, NEW p \in Proc, NEW n \in Name, Create(p, n)
  PROVE  Contract!Loses({})
<1>1. /\ StateTyped /\ StateTyped' /\ CanRun(p)
      /\ \A q \in Proc : OwnIds(q) /\ OwnIds(q)'
  BY CreateStep DEF MemoryInv, Create
<1>2. PICK i \in Id :
        /\ db' = db \cup {Named(i, n)}
        /\ \/ IsId(db, n, i) /\ db' = db
           \/ i \in Fresh /\ \A j : ~IsId(db, n, j)
        /\ IF call[p].kind \in {"createRole", "createPermission"}
             THEN Return(p)
             ELSE /\ ids' = [ids EXCEPT ![p][n] = i]
                  /\ want' = [want EXCEPT ![p] = @ \ {n}]
                  /\ Await(p)
                  /\ UNCHANGED call
  BY CreateIs
<1>3. \A m, j : IsId(db', m, j) <=> IsId(db, m, j) \/ (m = n /\ j = i)
  BY <1>2, CreateNames
<1>4. \A q \in Proc, m \in Name :
        ids[q][m] # NoId /\ ~IsId(db, m, ids[q][m]) => ~IsId(db', m, ids[q][m])
  BY <1>2, <1>3, FreshIs
<1>5. ids[p][n] = NoId
  BY <1>1 DEF OwnIds, Create, NextNames
<1>6. ASSUME NEW q \in Proc, NEW m \in Name, call'[q] # NoCall
      PROVE  \/ ids'[q][m] = ids[q][m]
             \/ ids[q][m] = NoId /\ IsId(db', m, ids'[q][m])
  <2>1. CASE Return(p)
    BY <1>1, <1>6, <2>1 DEF Return, StateTyped
  <2>2. CASE ids' = [ids EXCEPT ![p][n] = i]
    BY <1>1, <1>3, <1>5, <2>2 DEF StateTyped
  <2> QED
    BY <1>2, <2>1, <2>2
<1>7. NoCall.roles = {} /\ NoCall.perms = {}
  BY DEF NoCall, Call
<1>8. \A q \in Proc : call'[q] = NoCall => \A m \in Role : ids'[q][m] = NoId
  BY <1>1, <1>7 DEF OwnIds, Name
<1>9. Role \subseteq Name
  BY DEF Name
<1>10. \A q \in Proc, m \in Role : call'[q] # NoCall /\ ids[q][m] # NoId =>
         /\ ids'[q][m] = ids[q][m]
         /\ ~IsId(db, m, ids[q][m]) => ~IsId(db', m, ids[q][m])
  BY <1>4, <1>6, <1>9
<1>11. \A q \in Proc, m \in Role : call'[q] # NoCall /\ ids'[q][m] # NoId
                                /\ ~IsId(db', m, ids'[q][m]) =>
         ids[q][m] # NoId /\ ~IsId(db, m, ids[q][m])
  BY <1>3, <1>6, <1>9
<1> QED
  BY <1>1, <1>8, <1>10, <1>11, LosesIs

(* A name created for a call: no row refers to its new id yet. *)
LEMMA CreateContract ==
  ASSUME MemoryInv, NEW p \in Proc, NEW n \in Name, Create(p, n)
  PROVE  Contract!Next
<1> DEFINE c == call[p]
<1>1. /\ db \in SUBSET Row /\ db' \in SUBSET Row /\ c \in CallType /\ OwnIds(p)
      /\ n \in c.roles \cup c.perms /\ c.kind \notin FindOnlyKinds
  BY CreateStep DEF MemoryInv, StateTyped, CallOK, Create, NextNames
<1>2. PICK i \in Id :
        /\ db' = db \cup {Named(i, n)}
        /\ \/ IsId(db, n, i) /\ db' = db
           \/ i \in Fresh /\ \A j : ~IsId(db, n, j)
        /\ IF c.kind \in {"createRole", "createPermission"} THEN Return(p) ELSE UNCHANGED call
  BY CreateIs
<1>3. Contract!Create(c)
  <2>1. CASE IsId(db, n, i) /\ db' = db
    <3>1. /\ n \in Role => n \in roles
          /\ n \in Perm => n \in perms
      BY <1>1, <2>1, NamesAre DEF roles, perms
    <3>2. UNCHANGED <<roles, perms, grants, members, direct>>
      BY <2>1 DEF roles, perms, grants, members, direct
    <3> HIDE DEF roles, perms, grants, members, direct
    <3> QED
      BY <1>1, <3>1, <3>2, ContractWords DEF Contract!Create
  <2>2. CASE i \in Fresh /\ \A j : ~IsId(db, n, j)
    <3>1. \A r \in db : i \notin IdsIn(r)
      BY <2>2, FreshIs
    <3>2. Unseen(db, i)
      BY <3>1, RowFields DEF Unseen, IdsIn
    <3>3. /\ \A N : NamesIn(db', N) = NamesIn(db, N) \cup ({n} \cap N)
          /\ Grants(db') = Grants(db) /\ Memberships(db') = Memberships(db)
          /\ Directs(db') = Directs(db)
      BY <1>1, <1>2, <3>2, NameAdded
    <3>4. /\ roles' = roles \cup ({n} \cap Role) /\ perms' = perms \cup ({n} \cap Perm)
          /\ grants' = grants /\ members' = members /\ direct' = direct
      BY <3>3 DEF roles, perms, grants, members, direct
    <3> HIDE DEF roles, perms, grants, members, direct
    <3> QED
      BY <1>1, <3>4, ContractWords DEF Contract!Create
  <2> QED
    BY <1>2, <2>1, <2>2
<1> HIDE DEF roles, perms, grants, members, direct
<1>4. CASE c.kind \notin {"createRole", "createPermission"}
  BY <1>2, <1>3, <1>4, CreateLoses DEF Contract!Next
<1>5. CASE c.kind \in {"createRole", "createPermission"}
  <2>1. lost[p] = {}
    BY <1>1, <1>5 DEF OwnIds, lost, Name
  <2>2. Contract!Without(c, lost[p]) = c
    BY <1>1, <2>1 DEF Contract!Without, CallType
  <2>3. Contract!Write(c)
    BY <1>3, <1>5 DEF Contract!Write
  <2>4. Contract!Ends(p)
    BY <1>2, <1>5, ContractWords DEF Contract!Ends, Return
  <2>5. Contract!Taken(c) = {}
    BY <1>5 DEF Contract!Taken
  <2> HIDE DEF lost
  <2> QED
    BY <2>2, <2>3, <2>4, <2>5, CreateLoses DEF Contract!Next
<1> QED
  BY <1>4, <1>5

LEMMA BeginContract ==
  ASSUME MemoryInv, NEW p \in Proc, NEW c \in Calls, Begin(p, c)
  PROVE  Contract!Next
<1>1. UNCHANGED Contract!data
  BY DEF Begin, Contract!data, roles, perms, grants, members, direct
<1>2. Contract!Begin(p)
  BY <1>1, ContractWords DEF Begin, Contract!Begin
<1>3. /\ StateTyped /\ StateTyped' /\ \A q \in Proc : OwnIds(q)'
      /\ UNCHANGED <<db, ids>>
  BY BeginStep DEF MemoryInv, Begin
<1>4. \A q \in Proc : call'[q] = NoCall => \A n \in Role : ids'[q][n] = NoId
  <2>1. NoCall.roles = {} /\ NoCall.perms = {}
    BY DEF NoCall, Call
  <2> QED
    BY <1>3, <2>1 DEF OwnIds, Name
<1>5. Contract!Loses({})
  BY <1>3, <1>4, LosesIs DEF IsId
<1> QED
  BY <1>2, <1>5 DEF Contract!Next

(* The in-memory store implements the contract, for any overlapping calls:  *)
(* no call ends without its whole effect, which it has in one step; what it *)
(* leaves out are roles of its list that a deleteRole took while it waited. *)
THEOREM MemoryImplements == Spec => ImplementsContract
<1>1. Init => Contract!Init
  <2> SUFFICES ASSUME Init PROVE Contract!Init
    OBVIOUS
  <2>1. db = {} /\ call = [p \in Proc |-> NoCall]
    BY DEF Init
  <2>2. roles = {} /\ perms = {} /\ grants = {} /\ members = {} /\ direct = {}
    BY <2>1 DEF roles, perms, grants, members, direct, NamesIn, Grants, Memberships, Directs,
                RolePermissions, DirectPermissions, Ids
  <2>3. lost = [p \in Proc |-> {}]
    <3>1. \A p \in Proc, n \in Role : ids[p][n] = NoId
      BY DEF Init, Name
    <3> QED
      BY <3>1 DEF lost
  <2> QED
    BY <2>1, <2>2, <2>3, ContractWords DEF Contract!Init
<1>2. MemoryInv /\ [Next]_vars => [Contract!Next]_(Contract!vars)
  <2> SUFFICES ASSUME MemoryInv, [Next]_vars
               PROVE  Contract!Next \/ UNCHANGED Contract!vars
    OBVIOUS
  <2>1. CASE UNCHANGED vars
    BY <2>1 DEF vars, Contract!vars, Contract!data, roles, perms, grants, members, direct, lost
  <2>2. CASE Next
    BY <2>2, BeginContract, CreateContract, FinishContract DEF Next
  <2> QED
    BY <2>1, <2>2
<1> QED
  BY <1>1, <1>2, MemoryInit, MemoryStep, PTL DEF Spec, ImplementsContract, Contract!Spec

-----------------------------------------------------------------------------
(* A call that returns has had its effect: read off the same lemmas, with   *)
(* every role the call names still there to be given, removed or replaced.  *)

LEMMA AllLive ==
  ASSUME MemoryInv, NEW p \in Proc, Finish(p), RolesKept(p)
  PROVE  call[p].kind \notin {"createRole", "createPermission"} => Live(p) = call[p].roles
<1> DEFINE c == call[p]
<1>1. db \in SUBSET Row /\ c.roles \subseteq Role /\ want[p] = {} /\ HoldsIds(p)
  BY DEF MemoryInv, StateTyped, Finish, CallType
<1>2. ASSUME c.kind \notin FindOnlyKinds \cup {"createRole", "createPermission"},
             NEW n \in c.roles
      PROVE  IsId(db, n, ids[p][n])
  <2>1. ids[p][n] \in Ids(db, {n})
    BY <1>1, <1>2 DEF HoldsIds, RolesKept, Id, NoId
  <2> QED
    BY <1>1, <2>1, IdsOfOne
<1> QED
  BY <1>2 DEF Live

LEMMA FinishEffect ==
  ASSUME MemoryInv, NEW p \in Proc, Finish(p), RolesKept(p),
         call[p].kind \notin {"createRole", "createPermission"}
  PROVE  Effect(call[p], db')
<1> DEFINE c == call[p]
<1>1. /\ db \in SUBSET Row /\ db' \in SUBSET Row /\ c \in Calls /\ c \in CallType
      /\ c.kind \in AllKinds
  BY FinishStep, CallsTyped, CallShapes DEF MemoryInv, StateTyped, CallOK, Finish, CanRun
<1>2. /\ c.roles \subseteq Role /\ c.perms \subseteq Perm /\ c.tenant \in Tenant
      /\ c.sources \subseteq Source
  BY <1>1 DEF CallType
<1>3. Live(p) = c.roles
  BY AllLive
<1>4. /\ \A n \in Role, q \in Perm : <<n, q>> \in grants' <=> q \in RolePermissions(db', n)
      /\ \A u \in Subject, q \in Perm :
           <<u, q>> \in direct' <=> q \in DirectPermissions(db', u)
      /\ \A n \in Role : RolePermissions(db', n) \subseteq Perm
      /\ members' = Memberships(db') /\ members' \subseteq Member
  BY MembersAre, <1>1 DEF grants, Grants, direct, Directs, members, RolePermissions
<1>5. CASE c.kind \in {"givePermissionToRole", "revokePermissionFromRole",
                       "syncRolePermissions"}
  <2>1. PICK n \in Role : c.roles = {n}
    BY <1>1, <1>2, <1>5, CallShapes DEF One
  <2>3. \A q \in Perm : q \in RolePermissions(db', n) <=>
          \/ /\ <<n, q>> \in grants
             /\ ~(c.kind = "revokePermissionFromRole" /\ q \in c.perms)
             /\ c.kind # "syncRolePermissions"
          \/ c.kind \in {"givePermissionToRole", "syncRolePermissions"} /\ q \in c.perms
    <3> HIDE DEF c
    <3>1. \A q \in Perm : <<n, q>> \in grants' <=>
            \/ /\ <<n, q>> \in grants
               /\ ~(c.kind = "revokePermissionFromRole" /\ n \in Live(p) /\ q \in c.perms)
               /\ ~(c.kind \in {"syncRolePermissions", "deleteRole"} /\ n \in Live(p))
            \/ /\ c.kind \in {"givePermissionToRole", "syncRolePermissions"}
               /\ n \in Live(p) /\ q \in c.perms
      BY GrantsAfter DEF c
    <3> QED
      BY <1>3, <1>4, <1>5, <2>1, <3>1
  <2>4. RolePermissions(db', n) \subseteq Perm
    BY <1>4
  <2>5. CASE c.kind = "givePermissionToRole"
    <3>1. c.perms \subseteq RolePermissions(db', n)
      BY <1>2, <2>3, <2>5
    <3> QED
      BY <2>1, <2>5, <3>1 DEF Effect
  <2>6. CASE c.kind = "revokePermissionFromRole"
    <3>1. c.perms \cap RolePermissions(db', n) = {}
      BY <1>2, <2>3, <2>6
    <3> QED
      BY <2>1, <2>6, <3>1 DEF Effect
  <2>7. CASE c.kind = "syncRolePermissions"
    <3>1. RolePermissions(db', n) = c.perms
      BY <1>2, <2>3, <2>4, <2>7
    <3> QED
      BY <2>1, <2>7, <3>1 DEF Effect
  <2> QED
    BY <1>5, <2>5, <2>6, <2>7
<1>6. CASE c.kind \in {"assignRole", "removeRole", "setSubjectRoles"}
  <2> DEFINE listed == {[subj |-> c.subj, role |-> n, tenant |-> c.tenant, source |-> s] :
                          n \in c.roles, s \in c.sources}
             scope  == {m \in Memberships(db') : /\ m.subj = c.subj /\ m.tenant = c.tenant
                                                 /\ m.source \in c.sources}
  <2>1. c.subj \in Subject
    BY <1>1, <1>6, CallSubjects
  <2>2. listed \subseteq Member /\ scope \subseteq Member
    BY <1>2, <1>4, <2>1 DEF Member
  <2>3. \A m \in Member :
          m \in listed <=> Scoped(c, m.subj, m.tenant, m.source) /\ m.role \in c.roles
    BY DEF Member, Scoped
  <2>4. \A m \in Member :
          m \in scope <=> m \in members' /\ Scoped(c, m.subj, m.tenant, m.source)
    BY <1>4 DEF Scoped
  <2>5. \A m \in Member : m \in scope <=>
          /\ Scoped(c, m.subj, m.tenant, m.source)
          /\ \/ /\ m \in members
                /\ ~(c.kind = "removeRole" /\ m.role \in c.roles)
                /\ ~(c.kind = "setSubjectRoles" /\ m.role \notin c.roles)
             \/ c.kind \in {"assignRole", "setSubjectRoles"} /\ m.role \in c.roles
    <3> HIDE DEF c, scope, listed
    <3>1. \A m \in Member : m \in members' <=>
            \/ /\ m \in members
               /\ ~(c.kind = "removeRole"
                    /\ Scoped(c, m.subj, m.tenant, m.source) /\ m.role \in Live(p))
               /\ ~(c.kind = "setSubjectRoles"
                    /\ Scoped(c, m.subj, m.tenant, m.source) /\ m.role \notin Live(p))
               /\ ~(c.kind = "deleteRole" /\ m.role \in Live(p))
               /\ ~(c.kind = "removeSubject" /\ m.subj = c.subj)
            \/ /\ c.kind \in {"assignRole", "setSubjectRoles"}
               /\ Scoped(c, m.subj, m.tenant, m.source) /\ m.role \in Live(p)
      BY MembersAfter DEF c
    <3> QED
      BY <1>3, <1>6, <2>4, <3>1
  <2>6. CASE c.kind = "assignRole"
    <3>1. listed \subseteq scope
      <4> HIDE DEF listed, scope
      <4> QED
        BY <2>2, <2>3, <2>5, <2>6
    <3> QED
      BY <2>6, <3>1 DEF Effect
  <2>7. CASE c.kind = "removeRole"
    <3>1. listed \cap scope = {}
      <4> HIDE DEF listed, scope
      <4> QED
        BY <2>2, <2>3, <2>5, <2>7
    <3> QED
      BY <2>7, <3>1 DEF Effect
  <2>8. CASE c.kind = "setSubjectRoles"
    <3>1. scope = listed
      <4> HIDE DEF listed, scope
      <4> QED
        BY <2>2, <2>3, <2>5, <2>8
    <3> QED
      BY <2>8, <3>1 DEF Effect
  <2> QED
    BY <1>6, <2>6, <2>7, <2>8
<1>7. CASE c.kind = "deleteRole"
  <2>1. \A n \in c.roles : n \notin NamesIn(db', Role)
    BY <1>7, NamesAfter DEF roles
  <2>2. NamesIn(db', c.roles) = {}
    BY <1>2, <2>1 DEF NamesIn
  <2> QED
    BY <1>7, <2>2 DEF Effect
<1>8. CASE c.kind = "removeSubject"
  <2>1. db' = db \ Doomed(p)
    BY <1>8 DEF Finish, RowsToAdd
  <2>2. \A r \in db : r.tab \in {"assign", "direct"} /\ r.subj = c.subj => r \in Doomed(p)
    BY <1>8 DEF Doomed
  <2>3. {r \in db' : r.tab \in {"assign", "direct"} /\ r.subj = c.subj} = {}
    BY <2>1, <2>2
  <2> QED
    BY <1>8, <2>3 DEF Effect
<1>9. CASE c.kind \in {"giveSubjectPermission", "revokeSubjectPermission"}
  <2>1. c.subj \in Subject
    BY <1>1, <1>9, CallSubjects
  <2>2. \A q \in Perm : q \in DirectPermissions(db', c.subj) <=>
          \/ <<c.subj, q>> \in direct /\ ~(c.kind = "revokeSubjectPermission" /\ q \in c.perms)
          \/ c.kind = "giveSubjectPermission" /\ q \in c.perms
    BY <1>4, <1>9, <2>1, DirectAfter
  <2>3. CASE c.kind = "giveSubjectPermission"
    <3>1. c.perms \subseteq DirectPermissions(db', c.subj)
      BY <1>2, <2>2, <2>3
    <3> QED
      BY <2>3, <3>1 DEF Effect
  <2>4. CASE c.kind = "revokeSubjectPermission"
    <3>1. c.perms \cap DirectPermissions(db', c.subj) = {}
      BY <1>2, <2>2, <2>4
    <3> QED
      BY <2>4, <3>1 DEF Effect
  <2> QED
    BY <1>9, <2>3, <2>4
<1> QED
  BY <1>1, <1>5, <1>6, <1>7, <1>8, <1>9 DEF AllKinds, TxKinds, FindOnlyKinds

LEMMA CreateEffect ==
  ASSUME MemoryInv, NEW p \in Proc, NEW n \in Name, Create(p, n),
         call[p].kind \in {"createRole", "createPermission"}
  PROVE  Effect(call[p], db')
<1> DEFINE c == call[p]
<1>1. /\ db' \in SUBSET Row /\ c \in Calls /\ n \in c.roles \cup c.perms
  BY CreateStep DEF MemoryInv, StateTyped, CallOK, Create, CanRun, NextNames
<1>2. c.roles \cup c.perms = {n}
  BY <1>1, CallShapes DEF One
<1>3. PICK i \in Id : db' = db \cup {Named(i, n)}
  BY CreateIs
<1>4. IsId(db', n, i)
  BY <1>3 DEF IsId
<1>5. n \in NamesIn(db', Name)
  BY <1>1, <1>4, NamesAre
<1>6. c.roles \cup c.perms \subseteq NamesIn(db', Name)
  BY <1>2, <1>5
<1>7. CASE c.kind = "createRole"
  BY <1>6, <1>7 DEF Effect
<1>8. CASE c.kind = "createPermission"
  BY <1>6, <1>8 DEF Effect
<1> QED
  BY <1>7, <1>8


(* A call that returns has had its effect, whatever ran between its awaits, *)
(* unless a role it had resolved was deleted there: createX has made the    *)
(* name, a grant, an assignment or a direct permission is there or gone,    *)
(* and a replaced or cleared set is exactly the one asked for.              *)
THEOREM MemoryReturns == Spec => ReturnHasEffect
<1>1. MemoryInv /\ [Next]_vars =>
        [\A p \in Proc : call[p] # NoCall /\ call'[p] = NoCall /\ RolesKept(p)
                           => Effect(call[p], db')]_vars
  <2> SUFFICES ASSUME MemoryInv, Next, NEW p \in Proc,
                      call[p] # NoCall, call'[p] = NoCall, RolesKept(p)
               PROVE  Effect(call[p], db')
    OBVIOUS
  <2>1. call \in [Proc -> CallType]
    BY DEF MemoryInv, StateTyped
  <2>2. ASSUME NEW q \in Proc, NEW c \in Calls, Begin(q, c) PROVE FALSE
    <3>1. c # NoCall
      BY CallShapes DEF NoCall, Call, AllKinds, TxKinds, FindOnlyKinds
    <3> QED
      BY <2>1, <2>2, <3>1 DEF Begin
  <2>3. ASSUME NEW q \in Proc, NEW n \in Name, Create(q, n) PROVE Effect(call[p], db')
    <3>1. q = p /\ call[q].kind \in {"createRole", "createPermission"}
      BY <2>1, <2>3 DEF Create, Return
    <3> QED
      BY <2>3, <3>1, CreateEffect
  <2>4. ASSUME NEW q \in Proc, Finish(q) PROVE Effect(call[p], db')
    <3>1. q = p
      BY <2>1, <2>4 DEF Finish, Return
    <3> QED
      BY <2>4, <3>1, CreatedWaits, FinishEffect
  <2> QED
    BY <2>2, <2>3, <2>4 DEF Next
<1> QED
  BY <1>1, MemoryInit, MemoryStep, PTL DEF Spec, ReturnHasEffect
=============================================================================
