-------------------------- MODULE LucidNamesProofs --------------------------
(***************************************************************************)
(* Proofs about the names of the Lucid store, for every number of callers, *)
(* names, subjects, tenants, sources and ids, at either isolation level,   *)
(* with or without transactions: no name is taken twice, and a name that   *)
(* comes into being starts empty.                                          *)
(***************************************************************************)
EXTENDS LucidStoreProofs

-----------------------------------------------------------------------------
(* No two rows of a name.  What is committed is unique because what each    *)
(* caller would see after a commit is (Current), and two open transactions  *)
(* can both commit because neither holds a key the other one does: a write  *)
(* waits for the key (Blocked).                                             *)

UniqueNames(D) ==
  \A r, x \in D : r.tab = "name" /\ x.tab = "name" /\ r.name = x.name => r = x

(* The rows whose keys p's open transaction holds. *)
Held(p) == ins[p] \cup del[p]

KeysInv ==
  /\ UniqueNames(db)
  /\ \A p \in Proc : UniqueNames(Current(p))
  /\ \A p \in Proc : tx[p] = "none" => ins[p] = {} /\ del[p] = {}
  /\ \A p \in Proc : del[p] \subseteq db
  /\ \A p, q \in Proc : p # q => \A r \in Held(p), x \in Held(q) : ~SameKey(r, x)

NamesInv == TypeInv /\ KeysInv

(* A row that shares no name with a set of uniquely named rows may join it. *)
LEMMA OneMore ==
  ASSUME NEW D, UniqueNames(D), NEW r, \A x \in D : ~SameKey(r, x)
  PROVE  UniqueNames(D \cup {r})
BY DEF UniqueNames, SameKey

LEMMA Fewer ==
  ASSUME NEW D, UniqueNames(D), NEW E, E \subseteq D
  PROVE  UniqueNames(E)
BY DEF UniqueNames

(* What a write statement does to the keys: it takes rows away, or adds one *)
(* whose key is free.                                                       *)
LEMMA WriteKeys ==
  ASSUME KeysInv, DbTyped, NEW p \in Proc, NEW add, NEW drop, Write(p, add, drop),
         \/ add = {}
         \/ drop = {} /\ \E r : add = {r} /\ \A x \in Current(p) : ~SameKey(r, x)
  PROVE  KeysInv'
<1>1. /\ ins \in [Proc -> SUBSET Row] /\ del \in [Proc -> SUBSET Row]
      /\ tx' = tx
      /\ \A q \in Proc \ {p} : \A r \in add \cup drop, x \in Held(q) : ~SameKey(r, x)
  BY DEF DbTyped, Write, Blocked, Held
<1>2. UniqueNames(db) /\ \A q \in Proc : UniqueNames(Current(q)) /\ del[q] \subseteq db
  BY DEF KeysInv
<1>3. UniqueNames((Current(p) \ drop) \cup add)
  <2>1. CASE add = {}
    BY <1>2, <2>1, Fewer, (Current(p) \ drop) \cup add \subseteq Current(p)
  <2>2. CASE add # {}
    BY <1>2, <2>2, OneMore
  <2> QED
    BY <2>1, <2>2
<1>4. CASE tx[p] = "none"
  <2>1. db' = (db \ drop) \cup add /\ ins' = ins /\ del' = del
    BY <1>4 DEF Write
  <2>2. ins[p] = {} /\ del[p] = {}
    BY <1>4 DEF KeysInv
  <2>3. Current(p) = db /\ Current(p)' = db'
    BY <2>1, <2>2 DEF Current
  <2>4. UniqueNames(db')
    BY <1>3, <2>1, <2>3
  <2>5. \A q \in Proc : del'[q] \subseteq db'
    BY <1>1, <1>2, <2>1, <2>2 DEF Held, SameKey
  <2>6. ASSUME NEW q \in Proc \ {p} PROVE UniqueNames(Current(q)')
    <3>1. Current(q)' = ((((db \ drop) \cup add) \ del[q]) \cup ins[q])
      BY <2>1 DEF Current
    <3>2. CASE add = {}
      <4>1. Current(q)' \subseteq Current(q)
        BY <3>1, <3>2 DEF Current
      <4> QED
        BY <1>2, <4>1, Fewer
    <3>3. CASE add # {}
      <4>1. PICK r : drop = {} /\ add = {r} /\ \A x \in Current(p) : ~SameKey(r, x)
        BY <3>3
      <4>2. \A x \in Current(q) : ~SameKey(r, x)
        BY <1>1, <2>3, <4>1 DEF Current, Held
      <4>3. Current(q)' \subseteq Current(q) \cup {r}
        BY <3>1, <4>1 DEF Current
      <4> QED
        BY <1>2, <4>2, <4>3, OneMore, Fewer
    <3> QED
      BY <3>2, <3>3
  <2>7. \A q \in Proc : Held(q)' = Held(q)
    BY <2>1 DEF Held
  <2> QED
    BY <1>1, <2>1, <2>3, <2>4, <2>5, <2>6, <2>7 DEF KeysInv
<1>5. CASE tx[p] # "none"
  <2>1. /\ ins' = [ins EXCEPT ![p] = (@ \ drop) \cup add]
        /\ del' = [del EXCEPT ![p] = (@ \cup (drop \cap db)) \ add]
        /\ db' = db
    BY <1>5 DEF Write
  <2>2. /\ ins'[p] = (ins[p] \ drop) \cup add
        /\ del'[p] = (del[p] \cup (drop \cap db)) \ add
        /\ \A q \in Proc \ {p} : ins'[q] = ins[q] /\ del'[q] = del[q]
    BY <1>1, <2>1
  <2>3. Current(p)' \subseteq (Current(p) \ drop) \cup add
    BY <2>1, <2>2 DEF Current
  <2>4. UniqueNames(Current(p)')
    BY <1>3, <2>3, Fewer
  <2>5. \A q \in Proc \ {p} : Current(q)' = Current(q) /\ Held(q)' = Held(q)
    BY <2>1, <2>2 DEF Current, Held
  <2>6. Held(p)' \subseteq Held(p) \cup add \cup drop
    BY <2>2 DEF Held
  <2>7. \A q \in Proc \ {p} : \A r \in Held(p)', x \in Held(q) : ~SameKey(r, x)
    BY <1>1, <2>6 DEF KeysInv
  <2>8. \A q, s \in Proc : q # s => \A r \in Held(q)', x \in Held(s)' : ~SameKey(r, x)
    <3> HIDE DEF Held
    <3> QED
      BY <2>5, <2>7 DEF KeysInv, SameKey
  <2>9. \A q \in Proc : del'[q] \subseteq db'
    BY <1>2, <2>1, <2>2
  <2> QED
    BY <1>1, <1>2, <1>5, <2>1, <2>2, <2>4, <2>5, <2>8, <2>9 DEF KeysInv
<1> QED
  BY <1>4, <1>5

LEMMA InsertIgnoreKeys ==
  ASSUME KeysInv, DbTyped, NEW p \in Proc, NEW r, InsertIgnore(p, r)
  PROVE  KeysInv'
<1> DEFINE add == IF \E x \in Current(p) : SameKey(r, x) THEN {} ELSE {r}
<1>1. Write(p, add, {})
  BY DEF InsertIgnore
<1>2. add = {} \/ (add = {r} /\ \A x \in Current(p) : ~SameKey(r, x))
  OBVIOUS
<1> HIDE DEF add
<1> QED
  BY <1>1, <1>2, WriteKeys

(* The end of a transaction: what it held is free, and what it commits fits *)
(* under the writes of the transactions still open.                         *)
LEMMA EndKeys ==
  ASSUME KeysInv, DbTyped, NEW p \in Proc, Commit(p) \/ Rollback(p)
  PROVE  KeysInv'
<1>1. /\ tx'[p] = "none" /\ ins'[p] = {} /\ del'[p] = {}
      /\ \A q \in Proc \ {p} : tx'[q] = tx[q] /\ ins'[q] = ins[q] /\ del'[q] = del[q]
  BY DEF Commit, Rollback, CloseTx, DbTyped
<1>2. Held(p)' = {} /\ \A q \in Proc \ {p} : Held(q)' = Held(q)
  BY <1>1 DEF Held
<1>3. \A q, s \in Proc : q # s => \A r \in Held(q)', x \in Held(s)' : ~SameKey(r, x)
  <2> HIDE DEF Held
  <2> QED
    BY <1>2 DEF KeysInv
<1>4. Current(p)' = db'
  BY <1>1 DEF Current
<1>5. /\ UniqueNames(db')
      /\ \A q \in Proc \ {p} : UniqueNames(Current(q)') /\ del[q] \subseteq db'
  <2>1. CASE Rollback(p)
    <3>1. \A q \in Proc \ {p} : Current(q)' = Current(q)
      BY <1>1, <2>1 DEF Rollback, Current
    <3> QED
      BY <2>1, <3>1 DEF Rollback, KeysInv
  <2>2. CASE Commit(p)
    <3>1. db' = Current(p)
      BY <2>2 DEF Commit
    <3>2. UniqueNames(Current(p))
      BY DEF KeysInv
    <3>3. ASSUME NEW q \in Proc \ {p} PROVE UniqueNames(Current(q)') /\ del[q] \subseteq db'
      <4>1. \A r \in Held(q), x \in Held(p) : ~SameKey(r, x) /\ ~SameKey(x, r)
        BY DEF KeysInv
      <4>2. del[q] \subseteq db'
        BY <3>1, <4>1 DEF KeysInv, Current, Held, SameKey
      <4>3. Current(q)' = (Current(p) \ del[q]) \cup ins[q]
        BY <1>1, <3>1 DEF Current
      <4>4. Current(q)' \subseteq Current(q) \cup ins[p]
        BY <4>3 DEF Current
      <4>5. ASSUME NEW r \in Current(q)', NEW x \in Current(q)',
                   r.tab = "name", x.tab = "name", r.name = x.name
            PROVE  r = x
        <5>1. CASE r \in Current(q) /\ x \in Current(q)
          BY <4>5, <5>1 DEF KeysInv, UniqueNames
        <5>2. CASE r \in Current(p) /\ x \in Current(p)
          BY <3>2, <4>5, <5>2 DEF UniqueNames
        <5>3. CASE r \in ins[p] /\ x \in ins[q]
          BY <4>1, <4>5, <5>3 DEF Held, SameKey
        <5>4. CASE r \in ins[q] /\ x \in ins[p]
          BY <4>1, <4>5, <5>4 DEF Held, SameKey
        <5> QED
          BY <4>3, <4>4, <5>1, <5>2, <5>3, <5>4 DEF Current
      <4> QED
        BY <4>2, <4>5 DEF UniqueNames
    <3> QED
      BY <3>1, <3>2, <3>3
  <2> QED
    BY <2>1, <2>2
<1> QED
  BY <1>1, <1>3, <1>4, <1>5 DEF KeysInv

(* Steps that write nothing. *)
LEMMA NoWriteKeys ==
  ASSUME KeysInv, UNCHANGED <<db, ins, del>>,
         \A q \in Proc : tx'[q] = "none" => tx[q] = "none"
  PROVE  KeysInv'
BY DEF KeysInv, Current, Held

LEMMA BeginKeys ==
  ASSUME KeysInv, DbTyped, NEW p \in Proc, NEW mode \in {"own", "host"}, BeginTx(p, mode)
  PROVE  KeysInv'
<1>1. UNCHANGED <<db, ins, del>> /\ \A q \in Proc : tx'[q] = "none" => tx[q] = "none"
  BY DEF BeginTx, DbTyped
<1> QED
  BY <1>1, NoWriteKeys

LEMMA KeysStep == NamesInv /\ [Next]_vars => KeysInv'
<1> SUFFICES ASSUME NamesInv, [Next]_vars PROVE KeysInv'
  OBVIOUS
<1>1. DbTyped /\ KeysInv
  BY TypeOKSplit DEF NamesInv, TypeInv
<1>2. CASE UNCHANGED <<db, txn>>
  BY <1>1, <1>2, NoWriteKeys DEF txn
<1>3. ASSUME NEW p \in Proc, NEW c \in Calls, Start(p, c) PROVE KeysInv'
  BY <1>1, <1>2, <1>3, BeginKeys DEF Start
<1>4. ASSUME NEW p \in Proc, Step(p) PROVE KeysInv'
  <2>1. CASE InsertName(p)
    BY <1>1, <2>1, InsertIgnoreKeys DEF InsertName
  <2>2. CASE DeleteRows(p)
    BY <1>1, <2>2, WriteKeys DEF DeleteRows
  <2>3. CASE \E r \in todo[p] : InsertRow(p, r)
    BY <1>1, <2>3, InsertIgnoreKeys DEF InsertRow
  <2>4. CASE Return(p)
    BY <1>1, <1>2, <2>4, EndKeys DEF Return
  <2>5. CASE (\E n \in Name : Find(p, n)) \/ Refind(p) \/ Dispatch(p)
    BY <1>2, <2>5 DEF Find, Refind, Dispatch
  <2> QED
    BY <1>4, <2>1, <2>2, <2>3, <2>4, <2>5 DEF Step
<1>5. ASSUME NEW p \in Proc, Fail(p) PROVE KeysInv'
  BY <1>1, <1>5, EndKeys DEF Fail
<1>6. ASSUME NEW p \in Proc, HostBegin(p) \/ HostEnd(p) PROVE KeysInv'
  BY <1>1, <1>6, BeginKeys, EndKeys DEF HostBegin, HostEnd
<1>7. CASE UNCHANGED vars
  BY <1>2, <1>7 DEF vars
<1> QED
  BY <1>3, <1>4, <1>5, <1>6, <1>7 DEF Next

(* No two committed roles, and no two permissions, share a name: two calls  *)
(* that create one name at the same time never both succeed in inserting it,*)
(* whatever transactions they run in and whatever each of them sees.        *)
THEOREM NamesStayUnique == Spec => []NamesUnique
<1>1. Init => KeysInv
  BY DEF Init, KeysInv, UniqueNames, Current, Held
<1>2. Init => NamesInv
  BY <1>1, TypeInit DEF NamesInv
<1>3. NamesInv /\ [Next]_vars => NamesInv'
  BY KeysStep, TypeStep DEF NamesInv
<1>4. NamesInv => NamesUnique
  BY DEF NamesInv, KeysInv, UniqueNames, NamesUnique
<1> QED
  BY <1>2, <1>3, <1>4, PTL DEF Spec
-----------------------------------------------------------------------------
(* A new name starts empty.  The id of a name row p's open transaction has  *)
(* inserted is p's secret until the commit: it was fresh when it was made,  *)
(* and no other caller can have read it, so no other caller has a row that  *)
(* refers to it, committed, in its transaction or still to be inserted.     *)

RowIds(S) == {i \in Id : \E r \in S : i \in IdsIn(r)}

(* The ids q may write into a row, now or later. *)
IdsKnown(q) == RowIds(ins[q] \cup snap[q] \cup todo[q])
               \cup {i \in Id : \E n \in Name : ids[q][n] = i}

NameIds(S) == {i \in Id : \E r \in S : r.tab = "name" /\ r.id = i}
Secrets(p) == NameIds(ins[p])

SecretsInv ==
  /\ \A p \in Proc : Secrets(p) \cap RowIds(db) = {}
  /\ \A p, q \in Proc : p # q => Secrets(p) \cap IdsKnown(q) = {}
  /\ \A p \in Proc : tx[p] = "none" => ins[p] = {}
  /\ \A p \in Proc : \A r \in todo[p] : r.tab # "name"

BirthInv == TypeInv /\ SecretsInv

(* The names a step commits refer to ids no committed row mentions. *)
BornEmpty == \A r \in db' \ db : r.tab = "name" => r.id \notin RowIds(db)

LEMMA RowIdsOf ==
  ASSUME NEW S, NEW T
  PROVE  /\ RowIds(S \cup T) = RowIds(S) \cup RowIds(T)
         /\ S \subseteq T => RowIds(S) \subseteq RowIds(T)
         /\ NameIds(S \cup T) = NameIds(S) \cup NameIds(T)
         /\ S \subseteq T => NameIds(S) \subseteq NameIds(T)
         /\ NameIds(S) \subseteq RowIds(S)
         /\ RowIds({}) = {} /\ NameIds({}) = {}
BY DEF RowIds, NameIds, IdsIn

LEMMA NameRowsHaveIds == \A r \in Row : r.tab = "name" => r.id \in Id
BY DEF Row, NameRow, GrantRow, AssignRow, DirectRow

(* What q could already refer to, and what it keeps to itself. *)
Same(q) == /\ ins'[q] = ins[q] /\ snap'[q] = snap[q] /\ todo'[q] = todo[q]
           /\ ids'[q] = ids[q] /\ tx'[q] = tx[q]

(* A step in which p learns ids it can read, or makes some that nobody has  *)
(* seen, and commits only what it knew or made.                             *)
LEMMA OneLearns ==
  ASSUME SecretsInv, NEW p \in Proc, \A q \in Proc \ {p} : Same(q),
         NEW made \in SUBSET Id, made \cap RowIds(db) = {},
         \A q \in Proc : made \cap IdsKnown(q) = {},
         IdsKnown(p)' \subseteq IdsKnown(p) \cup RowIds(db) \cup made,
         RowIds(db') \subseteq RowIds(db) \cup IdsKnown(p) \cup made,
         Secrets(p)' \subseteq Secrets(p) \cup made,
         db' = db \/ ins'[p] = {},
         tx'[p] = "none" => ins'[p] = {},
         \A r \in todo'[p] : r.tab # "name"
  PROVE  SecretsInv'
<1>1. \A q \in Proc \ {p} : IdsKnown(q)' = IdsKnown(q) /\ Secrets(q)' = Secrets(q)
  BY DEF Same, IdsKnown, Secrets, RowIds, NameIds
<1>2. \A q \in Proc : Secrets(q) \subseteq IdsKnown(q)
  BY DEF Secrets, IdsKnown, NameIds, RowIds, IdsIn
<1>3. Secrets(p)' \cap RowIds(db') = {}
  <2>1. CASE db' = db
    BY <2>1 DEF SecretsInv
  <2>2. CASE ins'[p] = {}
    BY <2>2 DEF Secrets, NameIds
  <2> QED
    BY <2>1, <2>2
<1> HIDE DEF IdsKnown, Secrets
<1>4. ASSUME NEW q \in Proc \ {p}
      PROVE  /\ Secrets(q)' \cap RowIds(db') = {}
             /\ Secrets(q)' \cap IdsKnown(p)' = {}
             /\ Secrets(p)' \cap IdsKnown(q)' = {}
  BY <1>1, <1>2 DEF SecretsInv
<1>5. \A q \in Proc : Secrets(q)' \cap RowIds(db') = {}
  BY <1>3, <1>4
<1>6. \A q, s \in Proc : q # s => Secrets(q)' \cap IdsKnown(s)' = {}
  BY <1>1, <1>4 DEF SecretsInv
<1>7. /\ \A q \in Proc : tx'[q] = "none" => ins'[q] = {}
      /\ \A q \in Proc : \A r \in todo'[q] : r.tab # "name"
  BY DEF SecretsInv, Same
<1> QED
  BY <1>5, <1>6, <1>7 DEF SecretsInv

(* The same, when what p can refer to is no more than it could. *)
LEMMA NothingLearnt ==
  ASSUME SecretsInv, NEW p \in Proc, \A q \in Proc \ {p} : Same(q),
         IdsKnown(p)' \subseteq IdsKnown(p) \cup RowIds(db),
         RowIds(db') \subseteq RowIds(db) \cup IdsKnown(p),
         Secrets(p)' \subseteq Secrets(p),
         db' = db \/ ins'[p] = {},
         tx'[p] = "none" => ins'[p] = {},
         \A r \in todo'[p] : r.tab # "name"
  PROVE  SecretsInv'
<1> DEFINE made == {}
<1>1. /\ made \in SUBSET Id /\ made \cap RowIds(db) = {}
      /\ \A q \in Proc : made \cap IdsKnown(q) = {}
      /\ IdsKnown(p)' \subseteq IdsKnown(p) \cup RowIds(db) \cup made
      /\ RowIds(db') \subseteq RowIds(db) \cup IdsKnown(p) \cup made
      /\ Secrets(p)' \subseteq Secrets(p) \cup made
  OBVIOUS
<1> HIDE DEF made
<1> QED
  BY <1>1, OneLearns

LEMMA WriteIds ==
  ASSUME SecretsInv, DbTyped, NEW p \in Proc, NEW add, NEW drop, Write(p, add, drop)
  PROVE  /\ RowIds(db') \subseteq RowIds(db) \cup RowIds(add)
         /\ ins'[p] \subseteq ins[p] \cup add
         /\ db' \ db \subseteq add
         /\ db' = db \/ ins'[p] = {}
         /\ snap' = snap
         /\ tx' = tx
         /\ tx'[p] = "none" => ins'[p] = {}
         /\ \A q \in Proc \ {p} : ins'[q] = ins[q]
<1>1. snap' = snap /\ tx' = tx /\ (tx[p] = "none" => ins[p] = {})
  BY DEF Write, SecretsInv
<1>2. db' \ db \subseteq add /\ db' \subseteq db \cup add
  BY DEF Write
<1>3. RowIds(db') \subseteq RowIds(db) \cup RowIds(add)
  BY <1>2 DEF RowIds
<1>4. /\ ins'[p] \subseteq ins[p] \cup add
      /\ \A q \in Proc \ {p} : ins'[q] = ins[q]
      /\ db' = db \/ (tx[p] = "none" /\ ins' = ins)
  BY DEF Write, DbTyped
<1> QED
  BY <1>1, <1>2, <1>3, <1>4 DEF Write

(* What p reads, it knew or is committed. *)
LEMMA ReadsKnown ==
  ASSUME DbTyped, NEW p \in Proc
  PROVE  \A N : Ids(View(p), N) \subseteq IdsKnown(p) \cup RowIds(db)
<1>1. View(p) \subseteq db \cup ins[p] \cup snap[p] /\ View(p) \subseteq Row
  BY ReadsTyped DEF View, Current
<1>2. \A N : \A i \in Ids(View(p), N) :
        i \in Id /\ \E r \in View(p) : i \in IdsIn(r)
  BY <1>1, NameRowsHaveIds DEF Ids, IdsIn
<1> QED
  BY <1>1, <1>2 DEF IdsKnown, RowIds

(* A fresh id is one no row and no caller mentions. *)
LEMMA FreshUnseen ==
  ASSUME NEW i \in Fresh
  PROVE  i \in Id /\ i \notin RowIds(db) /\ \A q \in Proc : i \notin IdsKnown(q)
<1>1. i \in Id \ Used
  BY DEF Fresh
<1>2. \A r \in db : i \notin IdsIn(r)
  BY <1>1 DEF Used
<1>3. \A q \in Proc : \A r \in ins[q] \cup snap[q] \cup todo[q] : i \notin IdsIn(r)
  BY <1>1 DEF Used
<1>4. \A q \in Proc, n \in Name : ids[q][n] # i
  <2>1. i \notin {ids[q][n] : q \in Proc, n \in Name}
    BY <1>1 DEF Used
  <2> QED
    BY <2>1
<1> QED
  BY <1>1, <1>2, <1>3, <1>4 DEF RowIds, IdsKnown

LEMMA BirthTyped ==
  ASSUME BirthInv
  PROVE  LocalTyped /\ DbTyped /\ TypeInv /\ SecretsInv
BY TypeOKSplit DEF BirthInv, TypeInv

LEMMA InsertNameLearns ==
  ASSUME BirthInv, NEW p \in Proc, InsertName(p)
  PROVE  SecretsInv' /\ BornEmpty
<1>1. LocalTyped /\ DbTyped /\ SecretsInv
  BY BirthTyped
<1>2. PICK i \in Fresh : InsertIgnore(p, Named(i, cur[p])) /\ SetId(p, cur[p], i)
  BY DEF InsertName
<1>3. i \in Id /\ i \notin RowIds(db) /\ \A q \in Proc : i \notin IdsKnown(q)
  BY FreshUnseen
<1> DEFINE r == Named(i, cur[p])
           add == IF \E x \in Current(p) : SameKey(r, x) THEN {} ELSE {r}
<1>4. Write(p, add, {})
  BY <1>2 DEF InsertIgnore
<1>5. add \subseteq {r} /\ RowIds({r}) = {i} /\ r.id = i
  BY <1>3 DEF RowIds, IdsIn, Named
<1> HIDE DEF add
<1>6. /\ RowIds(db') \subseteq RowIds(db) \cup RowIds(add)
      /\ ins'[p] \subseteq ins[p] \cup add
      /\ db' \ db \subseteq add
      /\ db' = db \/ ins'[p] = {}
      /\ snap' = snap /\ tx' = tx
      /\ tx'[p] = "none" => ins'[p] = {}
      /\ \A q \in Proc \ {p} : ins'[q] = ins[q]
  BY <1>1, <1>4, WriteIds
<1>7. RowIds(add) \subseteq {i}
  <2>1. RowIds(add) \subseteq RowIds({r})
    BY <1>5 DEF RowIds
  <2> QED
    BY <1>5, <2>1
<1>8. \A q \in Proc \ {p} : Same(q)
  BY <1>1, <1>2, <1>6 DEF Same, InsertName, SetId, LocalTyped
<1>9. /\ todo' = todo
      /\ \A n \in Name : ids'[p][n] \in {ids[p][n], i}
  BY <1>1, <1>2 DEF InsertName, SetId, LocalTyped
<1>10. IdsKnown(p)' \subseteq IdsKnown(p) \cup RowIds(db) \cup {i}
  <2>1. \A x \in ins'[p] \cup snap'[p] \cup todo'[p] :
          x \in ins[p] \cup snap[p] \cup todo[p] \/ IdsIn(x) = {i}
    BY <1>5, <1>6, <1>9 DEF IdsIn, Named
  <2> QED
    BY <1>9, <2>1 DEF IdsKnown, RowIds
<1>11. Secrets(p)' \subseteq Secrets(p) \cup {i}
  BY <1>5, <1>6 DEF Secrets, NameIds
<1>12. BornEmpty
  BY <1>3, <1>5, <1>6 DEF BornEmpty
<1>13. \A x \in todo'[p] : x.tab # "name"
  BY <1>1, <1>9 DEF SecretsInv
<1>14. SecretsInv'
  <2> DEFINE made == {i}
  <2>1. /\ made \in SUBSET Id /\ made \cap RowIds(db) = {}
        /\ \A q \in Proc : made \cap IdsKnown(q) = {}
    BY <1>3
  <2>2. /\ IdsKnown(p)' \subseteq IdsKnown(p) \cup RowIds(db) \cup made
        /\ RowIds(db') \subseteq RowIds(db) \cup IdsKnown(p) \cup made
        /\ Secrets(p)' \subseteq Secrets(p) \cup made
    BY <1>6, <1>7, <1>10, <1>11
  <2> HIDE DEF made
  <2> QED
    BY <1>1, <1>6, <1>8, <1>13, <2>1, <2>2, OneLearns
<1> QED
  BY <1>12, <1>14

(* Find and Refind: p may come to hold an id it has just read. *)
LEMMA ReadLearns ==
  ASSUME BirthInv, NEW p \in Proc, NEW n \in Name,
         UNCHANGED <<db, todo, txn>>,
         UNCHANGED ids \/ \E i \in Ids(View(p), {n}) : SetId(p, n, i)
  PROVE  SecretsInv' /\ BornEmpty
<1>1. LocalTyped /\ DbTyped /\ SecretsInv
  BY BirthTyped
<1>2. UNCHANGED <<db, todo, tx, ins, snap>>
  BY DEF txn
<1>3. \A m \in Name : ids'[p][m] \in {ids[p][m]} \cup Ids(View(p), {n})
  <2>1. ASSUME NEW i \in Ids(View(p), {n}), SetId(p, n, i)
        PROVE  \A m \in Name : ids'[p][m] \in {ids[p][m], i}
    BY <1>1, <2>1 DEF SetId, LocalTyped
  <2> QED
    BY <2>1
<1>4. \A q \in Proc \ {p} : Same(q)
  BY <1>1, <1>2 DEF Same, SetId, LocalTyped
<1>5. Ids(View(p), {n}) \subseteq IdsKnown(p) \cup RowIds(db)
  BY <1>1, ReadsKnown
<1>6. IdsKnown(p)' \subseteq IdsKnown(p) \cup RowIds(db)
  BY <1>2, <1>3, <1>5 DEF IdsKnown, RowIds
<1>7. /\ Secrets(p)' = Secrets(p) /\ RowIds(db') = RowIds(db) /\ BornEmpty
      /\ tx'[p] = "none" => ins'[p] = {}
      /\ \A r \in todo'[p] : r.tab # "name"
  BY <1>1, <1>2 DEF Secrets, BornEmpty, SecretsInv
<1> QED
  BY <1>1, <1>2, <1>4, <1>6, <1>7, NothingLearnt

(* The pivot rows of a call mention ids it holds for its names. *)
LEMMA InsertsMention ==
  ASSUME LocalTyped, NEW p \in Proc
  PROVE  \A r \in Inserts(p) :
           r.tab # "name" /\ \A i \in IdsIn(r) : \E n \in Name : ids[p][n] = i
<1> DEFINE c == call[p]
<1>1. c.roles \subseteq Name /\ c.perms \subseteq Name
  BY DEF LocalTyped, CallType, Name
<1>2. \A i \in RoleIds(p) \cup PermIds(p) : \E n \in Name : ids[p][n] = i
  BY <1>1 DEF RoleIds, PermIds
<1>3. CASE c.kind \in {"givePermissionToRole", "syncRolePermissions"}
  BY <1>2, <1>3 DEF Inserts, RowsToAdd, Granted, IdsIn
<1>4. CASE c.kind \in {"assignRole", "setSubjectRoles"}
  BY <1>2, <1>4 DEF Inserts, RowsToAdd, Assigned, IdsIn
<1>5. CASE c.kind = "giveSubjectPermission"
  BY <1>2, <1>5 DEF Inserts, RowsToAdd, Direct, IdsIn
<1>6. CASE c.kind \notin {"givePermissionToRole", "syncRolePermissions", "assignRole",
                         "setSubjectRoles", "giveSubjectPermission"}
  BY <1>6 DEF Inserts, RowsToAdd
<1> QED
  BY <1>3, <1>4, <1>5, <1>6

LEMMA DispatchLearns ==
  ASSUME BirthInv, NEW p \in Proc, Dispatch(p)
  PROVE  SecretsInv' /\ BornEmpty
<1>1. LocalTyped /\ DbTyped /\ SecretsInv
  BY BirthTyped
<1>2. UNCHANGED <<db, ids, tx, ins, snap>>
  BY DEF Dispatch, txn
<1>3. todo' = todo \/ todo' = [todo EXCEPT ![p] = Inserts(p)]
  BY DEF Dispatch
<1>4. todo'[p] \subseteq todo[p] \cup Inserts(p) /\ \A q \in Proc \ {p} : Same(q)
  BY <1>1, <1>2, <1>3 DEF Same, LocalTyped
<1>5. \A r \in Inserts(p) :
        r.tab # "name" /\ \A i \in IdsIn(r) : \E n \in Name : ids[p][n] = i
  BY <1>1, InsertsMention
<1>6. IdsKnown(p)' \subseteq IdsKnown(p)
  <2>1. \A i \in RowIds(ins'[p] \cup snap'[p] \cup todo'[p]) : i \in IdsKnown(p)
    BY <1>2, <1>4, <1>5 DEF RowIds, IdsKnown
  <2> QED
    BY <1>2, <2>1 DEF IdsKnown
<1>7. /\ Secrets(p)' = Secrets(p) /\ RowIds(db') = RowIds(db) /\ BornEmpty
      /\ tx'[p] = "none" => ins'[p] = {}
      /\ \A r \in todo'[p] : r.tab # "name"
  BY <1>1, <1>2, <1>4, <1>5 DEF Secrets, BornEmpty, SecretsInv
<1> QED
  BY <1>1, <1>2, <1>4, <1>6, <1>7, NothingLearnt

(* A write of rows p already has: a DELETE, or the insert of a pivot row. *)
LEMMA WriteLearns ==
  ASSUME BirthInv, NEW p \in Proc, NEW add, NEW drop, Write(p, add, drop),
         add \subseteq todo[p], UNCHANGED ids,
         todo'[p] \subseteq todo[p], \A q \in Proc \ {p} : todo'[q] = todo[q]
  PROVE  SecretsInv' /\ BornEmpty
<1>1. LocalTyped /\ DbTyped /\ SecretsInv
  BY BirthTyped
<1>2. /\ RowIds(db') \subseteq RowIds(db) \cup RowIds(add)
      /\ ins'[p] \subseteq ins[p] \cup add
      /\ db' \ db \subseteq add
      /\ db' = db \/ ins'[p] = {}
      /\ snap' = snap /\ tx' = tx
      /\ tx'[p] = "none" => ins'[p] = {}
      /\ \A q \in Proc \ {p} : ins'[q] = ins[q]
  BY <1>1, WriteIds
<1>3. \A r \in todo[p] : r.tab # "name"
  BY <1>1 DEF SecretsInv
<1>4. \A q \in Proc \ {p} : Same(q)
  BY <1>2 DEF Same
<1>5. IdsKnown(p)' \subseteq IdsKnown(p) /\ RowIds(add) \subseteq IdsKnown(p)
  BY <1>2 DEF IdsKnown, RowIds
<1>6. Secrets(p)' \subseteq Secrets(p) /\ BornEmpty
  BY <1>2, <1>3 DEF Secrets, NameIds, BornEmpty
<1> QED
  BY <1>1, <1>2, <1>3, <1>4, <1>5, <1>6, NothingLearnt

LEMMA BeginLearns ==
  ASSUME BirthInv, NEW p \in Proc, NEW mode \in {"own", "host"}, BeginTx(p, mode),
         UNCHANGED <<ids, todo>>
  PROVE  SecretsInv' /\ BornEmpty
<1>1. LocalTyped /\ DbTyped /\ SecretsInv
  BY BirthTyped
<1>2. /\ UNCHANGED <<db, ins>> /\ tx'[p] # "none" /\ snap'[p] \subseteq db
      /\ \A q \in Proc \ {p} : Same(q)
  BY <1>1 DEF BeginTx, DbTyped, Same
<1>3. IdsKnown(p)' \subseteq IdsKnown(p) \cup RowIds(db)
  BY <1>2 DEF IdsKnown, RowIds
<1>4. Secrets(p)' = Secrets(p) /\ BornEmpty /\ \A r \in todo'[p] : r.tab # "name"
  BY <1>1, <1>2 DEF Secrets, BornEmpty, SecretsInv
<1> QED
  BY <1>1, <1>2, <1>3, <1>4, NothingLearnt

(* A commit publishes p's new names; until then their ids were p's alone. *)
LEMMA EndLearns ==
  ASSUME BirthInv, NEW p \in Proc, Commit(p) \/ Rollback(p), UNCHANGED <<ids, todo>> \/ Finished(p)
  PROVE  SecretsInv' /\ BornEmpty
<1>1. LocalTyped /\ DbTyped /\ SecretsInv
  BY BirthTyped
<1>2. /\ ins'[p] = {} /\ snap'[p] = {} /\ \A q \in Proc \ {p} : Same(q)
      /\ db' \subseteq db \cup ins[p]
  BY <1>1 DEF Commit, Rollback, CloseTx, Current, DbTyped, LocalTyped, Finished, Same
<1>3. todo'[p] \subseteq todo[p] /\ \A n \in Name : ids'[p][n] \in {ids[p][n], NoId}
  BY <1>1 DEF Finished, LocalTyped
<1>4. IdsKnown(p)' \subseteq IdsKnown(p)
  BY <1>2, <1>3 DEF IdsKnown, RowIds, NoId, Id
<1>5. RowIds(db') \subseteq RowIds(db) \cup IdsKnown(p)
  BY <1>2 DEF IdsKnown, RowIds
<1>6. Secrets(p)' \subseteq Secrets(p)
  BY <1>2 DEF Secrets, NameIds
<1>7. BornEmpty
  <2>1. \A r \in ins[p] : r.tab = "name" => r.id \in Secrets(p)
    BY <1>1, NameRowsHaveIds DEF Secrets, NameIds, DbTyped
  <2> QED
    BY <1>1, <1>2, <2>1 DEF BornEmpty, SecretsInv
<1>8. \A r \in todo'[p] : r.tab # "name"
  BY <1>1, <1>3 DEF SecretsInv
<1> QED
  BY <1>1, <1>2, <1>4, <1>5, <1>6, <1>8, NothingLearnt, <1>7

(* Nothing happens to the tables, the ids or the rows to insert. *)
LEMMA StillLearns ==
  ASSUME BirthInv, UNCHANGED <<db, ids, todo, txn>>
  PROVE  SecretsInv' /\ BornEmpty
<1>1. \A q \in Proc : IdsKnown(q)' = IdsKnown(q) /\ Secrets(q)' = Secrets(q)
  BY DEF txn, IdsKnown, Secrets, RowIds, NameIds
<1>2. RowIds(db') = RowIds(db) /\ UNCHANGED <<db, todo, tx, ins>>
  BY DEF txn
<1> HIDE DEF IdsKnown, Secrets
<1> QED
  BY <1>1, <1>2 DEF BirthInv, SecretsInv, BornEmpty

LEMMA BirthStep == BirthInv /\ [Next]_vars => SecretsInv' /\ BornEmpty
<1> SUFFICES ASSUME BirthInv, [Next]_vars PROVE SecretsInv' /\ BornEmpty
  OBVIOUS
<1>1. LocalTyped /\ DbTyped /\ SecretsInv
  BY BirthTyped
<1>2. CASE UNCHANGED vars
  BY <1>2, StillLearns DEF vars, local
<1>3. ASSUME NEW p \in Proc, NEW c \in Calls, Start(p, c) PROVE SecretsInv' /\ BornEmpty
  BY <1>3, BeginLearns, StillLearns DEF Start
<1>4. ASSUME NEW p \in Proc, Step(p) PROVE SecretsInv' /\ BornEmpty
  <2>1. CASE \E n \in Name : Find(p, n)
    BY <2>1, ReadLearns DEF Find
  <2>2. CASE InsertName(p)
    BY <2>2, InsertNameLearns
  <2>3. CASE Refind(p)
    <3>1. cur[p] \in Name
      BY <2>3 DEF BirthInv, TypeInv, CurOK, Refind
    <3>2. UNCHANGED <<db, todo, txn>>
          /\ (UNCHANGED ids \/ \E i \in Ids(View(p), {cur[p]}) : SetId(p, cur[p], i))
      BY <2>3 DEF Refind
    <3> QED
      BY <3>1, <3>2, ReadLearns
  <2>4. CASE Dispatch(p)
    BY <2>4, DispatchLearns
  <2>5. CASE DeleteRows(p)
    BY <2>5, WriteLearns DEF DeleteRows
  <2>6. ASSUME NEW r \in todo[p], InsertRow(p, r) PROVE SecretsInv' /\ BornEmpty
    <3> DEFINE add == IF \E x \in Current(p) : SameKey(r, x) THEN {} ELSE {r}
    <3>1. Write(p, add, {}) /\ add \subseteq todo[p] /\ UNCHANGED ids
      BY <2>6 DEF InsertRow, InsertIgnore
    <3>2. todo'[p] \subseteq todo[p] /\ \A q \in Proc \ {p} : todo'[q] = todo[q]
      BY <1>1, <2>6 DEF InsertRow, LocalTyped
    <3> HIDE DEF add
    <3> QED
      BY <3>1, <3>2, WriteLearns
  <2>7. CASE Return(p)
    <3>1. CASE Commit(p)
      BY <2>7, <3>1, EndLearns DEF Return
    <3>2. CASE UNCHANGED <<db, txn>>
      \* what p held for the call is dropped, its transaction goes on
      <4>1. \A q \in Proc \ {p} : Same(q)
        BY <1>1, <2>7, <3>2 DEF Return, Finished, Same, LocalTyped, txn
      <4>2. UNCHANGED <<db, ins, snap, tx>> /\ todo'[p] = {}
            /\ \A n \in Name : ids'[p][n] = NoId
        BY <1>1, <2>7, <3>2 DEF Return, Finished, LocalTyped, txn
      <4>3. IdsKnown(p)' \subseteq IdsKnown(p) /\ Secrets(p)' = Secrets(p) /\ BornEmpty
        BY <4>2 DEF IdsKnown, RowIds, NoId, Id, Secrets, BornEmpty
      <4>4. /\ RowIds(db') = RowIds(db) /\ (tx'[p] = "none" => ins'[p] = {})
            /\ \A r \in todo'[p] : r.tab # "name"
        BY <1>1, <4>2 DEF SecretsInv
      <4> QED
        BY <1>1, <4>1, <4>2, <4>3, <4>4, NothingLearnt
    <3> QED
      BY <2>7, <3>1, <3>2 DEF Return
  <2> QED
    BY <1>4, <2>1, <2>2, <2>3, <2>4, <2>5, <2>6, <2>7 DEF Step
<1>5. ASSUME NEW p \in Proc, Fail(p) PROVE SecretsInv' /\ BornEmpty
  BY <1>5, EndLearns DEF Fail
<1>6. ASSUME NEW p \in Proc, HostBegin(p) \/ HostEnd(p) PROVE SecretsInv' /\ BornEmpty
  BY <1>6, BeginLearns, EndLearns DEF HostBegin, HostEnd, local
<1> QED
  BY <1>2, <1>3, <1>4, <1>5, <1>6 DEF Next

(* A role that comes into existence has no members and no permissions but   *)
(* those committed with it, whatever was there under its name before and    *)
(* whatever the calls and transactions that overlap with its creation do:   *)
(* no committed row can have come to refer to an id before its name is      *)
(* committed.                                                               *)
THEOREM NewNamesAreEmpty == Spec => NewNamesStartEmpty
<1>1. Init => SecretsInv
  BY DEF Init, SecretsInv, Secrets, NameIds, RowIds, IdsKnown
<1>2. Init => BirthInv
  BY <1>1, TypeInit DEF BirthInv
<1>3. BirthInv /\ [Next]_vars => BirthInv'
  BY BirthStep, TypeStep DEF BirthInv
<1>4. BirthInv /\ [Next]_vars
      => [\A r \in db' \ db : r.tab = "name" => \A x \in db : r.id \notin Refs(x)]_vars
  <2> SUFFICES ASSUME BirthInv, [Next]_vars, NEW r \in db' \ db, r.tab = "name", NEW x \in db
               PROVE  r.id \notin Refs(x)
    OBVIOUS
  <2>1. r.id \in Id /\ r.id \notin RowIds(db)
    BY BirthStep, TypeStep, NameRowsHaveIds DEF BornEmpty, BirthInv, TypeInv, TypeOK
  <2> QED
    BY <2>1 DEF RowIds, Refs
<1> QED
  BY <1>2, <1>3, <1>4, PTL DEF Spec, NewNamesStartEmpty
=============================================================================
