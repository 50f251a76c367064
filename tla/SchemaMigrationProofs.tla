----------------------- MODULE SchemaMigrationProofs -----------------------
(***************************************************************************)
(* Proofs about the boots of any number of processes on one database, for  *)
(* any number of rows, of crashes and of writes.                           *)
(***************************************************************************)
EXTENDS SchemaMigration, TLAPS

-----------------------------------------------------------------------------
(* The invariant. *)

First == "subjectRole"
Second == "subjectPermission"

InstallType == [legacy : TableType \cup {Absent}, table : TableType \cup {Absent},
                backup : TableType \cup {Absent}]

Renaming == {"rename", "rename done?"}
Columns == {"userType", "userType done?", "userId", "userId done?"}
Copying == {"copy", "backup", "backup done?"}
Sorted == {"hasUserId", "next"} \cup Columns \cup Copying   \* a table was or is renamed
Seen == Renaming \cup Sorted                               \* both tables were looked up
Migrating == {"hasLegacy", "hasTable"} \cup Seen
Late == {"createRole", "hasSource", "addSource", "createPermission", "ready"}

DbTyped == db \in [Pivot -> InstallType] /\ old \in [Pivot -> SUBSET Row]
PcTyped ==
  /\ pc \in [Process -> Migrating \cup Late \cup {"down", "failed"}]
  /\ at \in [Process -> {1, 2}]
  /\ saw \in [Process -> [legacy : BOOLEAN, table : BOOLEAN]]
RestTyped ==
  /\ dialect \in Dialects /\ crashes \in 0 .. MaxCrashes /\ writes \in 0 .. MaxWrites
  /\ revoked \in [Pivot -> SUBSET Row] /\ settled \in [Pivot -> SUBSET Row]
  /\ overlapped \in SUBSET Process /\ cleared \in BOOLEAN

Carried(v) == old[v] \subseteq Rows(db[v].table) \cup revoked[v]

(* The pivot v, in itself: the old table is as it was until it is gone, and *)
(* then its rows are carried over; columns are renamed in order; where rows *)
(* were revoked for good the old table is gone.                             *)
InstallOK(v) ==
  /\ db[v].legacy # Absent => db[v].legacy = Legacy(old[v])
  /\ db[v].legacy = Absent => Carried(v)
  /\ db[v].table # Absent /\ db[v].table.id = "subject" => db[v].table.type = "subject"
  /\ cleared /\ db[v].backup # Absent => db[v].legacy = Absent
  /\ settled[v] # {} => db[v].legacy = Absent
  /\ settled[v] \cap Rows(db[v].table) = {} /\ settled[v] \subseteq revoked[v]

(* The pivot v is as a boot leaves it. *)
Done(v) ==
  /\ db[v].legacy = Absent
  /\ db[v].table # Absent => db[v].table.type = "subject" /\ db[v].table.id = "subject"

(* What p saw of the pivot it is at still says something. *)
SawOK(p) ==
  LET i == here(p)
  IN  /\ pc[p] \in Seen \cup {"hasTable"} =>
           /\ ~saw[p].legacy => i.legacy = Absent
           /\ saw[p].legacy /\ i.table = Absent => i.legacy # Absent
      /\ pc[p] \in Seen => /\ saw[p].table => i.table # Absent
                           /\ ~saw[p].table /\ i.table # Absent => i.legacy = Absent
      /\ pc[p] \in Renaming => saw[p].legacy /\ ~saw[p].table
      /\ pc[p] \in Sorted /\ saw[p].legacy => i.table # Absent
      /\ pc[p] \in Copying => saw[p].legacy /\ saw[p].table

(* How far p has come at its pivot. *)
StageOK(p) ==
  LET i == here(p)
  IN  /\ pc[p] \in {"rename done?"} \cup Columns \cup Copying => i.table # Absent
      /\ pc[p] \in (Columns \ {"userType"}) \cup Copying => i.table.type = "subject"
      /\ pc[p] \in {"userId done?"} \cup Copying => i.table.id = "subject"
      /\ pc[p] \in {"backup", "backup done?"} => Carried(pivot(p))
      /\ pc[p] = "backup done?" /\ cleared => i.legacy = Absent
      /\ pc[p] = "next" => Done(pivot(p))

(* What p has behind it. *)
BehindOK(p) ==
  /\ pc[p] \in Migrating /\ at[p] = 2 => Done(First)
  /\ pc[p] \in Late => at[p] = 1 /\ Done(First) /\ Done(Second)
  /\ pc[p] \in Late \ {"createRole"} => db[First].table # Absent
  /\ pc[p] \in {"createPermission", "ready"} => db[First].table.source
  /\ pc[p] = "ready" => db[Second].table # Absent

(* A boot that meets no other finds all as it saw it. *)
AloneOK(p) ==
  LET i == here(p)
  IN  /\ p \notin overlapped =>
           /\ pc[p] = "hasTable" /\ saw[p].legacy => i.legacy # Absent
           /\ pc[p] \in {"hasUserId", "copy"} \cup Columns /\ saw[p].legacy /\ saw[p].table =>
                i.legacy # Absent
           /\ pc[p] = "addSource" /\ dialect = "sqlite" => ~db[First].table.source
      /\ pc[p] = "failed" => p \in overlapped \/ ~cleared

ProcessOK(p) == SawOK(p) /\ StageOK(p) /\ BehindOK(p) /\ AloneOK(p)

(* Whoever boots while another does knows. *)
Overlaps == \A p, q \in Process : p # q /\ Booting(p) /\ Booting(q) => p \in overlapped

MigrationInv ==
  /\ DbTyped /\ PcTyped /\ RestTyped
  /\ \A v \in Pivot : InstallOK(v)
  /\ \A p \in Process : ProcessOK(p)
  /\ Overlaps

-----------------------------------------------------------------------------

LEMMA PivotFacts ==
  /\ Pivots[1] = First /\ Pivots[2] = Second /\ Len(Pivots) = 2 /\ DOMAIN Pivots = {1, 2}
  /\ Pivot = {First, Second} /\ First # Second
<1>1. Pivots[1] = First /\ Pivots[2] = Second /\ Len(Pivots) = 2 /\ First # Second
  BY DEF Pivots, First, Second
<1>2. DOMAIN Pivots = {1, 2}
  BY DEF Pivots
<1> QED
  BY <1>1, <1>2 DEF Pivot

LEMMA PlaceOf ==
  ASSUME PcTyped, NEW p \in Process
  PROVE  /\ pivot(p) \in Pivot /\ at[p] \in {1, 2}
         /\ at[p] = 1 => pivot(p) = First
         /\ at[p] = 2 => pivot(p) = Second
BY PivotFacts DEF PcTyped, pivot

-----------------------------------------------------------------------------
(* What other processes may do to a pivot: the old table goes only when a new*)
(* one has its rows, and no new one comes before it is gone; columns are     *)
(* renamed and added but never back.                                         *)
Forward(v) ==
  LET i == db[v]
      j == db'[v]
  IN  /\ j.legacy = i.legacy \/ (j.legacy = Absent /\ j.table # Absent)
      /\ i.table # Absent =>
           /\ j.table # Absent
           /\ i.table.type = "subject" => j.table.type = "subject"
           /\ i.table.id = "subject" => j.table.id = "subject"
           /\ i.table.source => j.table.source
           /\ Carried(v) => Carried(v)'
      /\ i.table = Absent /\ j.table # Absent =>
           /\ j.legacy = Absent
           /\ i.legacy = Absent => j.table.type = "subject" /\ j.table.id = "subject"

Advances == DbTyped' /\ \A v \in Pivot : Forward(v) /\ InstallOK(v)'

LEMMA DoneStays ==
  ASSUME NEW v, Forward(v), Done(v)
  PROVE  Done(v)'
BY DEF Forward, Done

(* No step of another disturbs a boot that meets no other. *)
Undisturbed(q) ==
  Booting(q) => \/ q \in overlapped
                \/ \A v \in Pivot :
                     /\ db'[v].legacy = db[v].legacy
                     /\ db[v].table # Absent => db'[v].table.source = db[v].table.source

LEMMA OthersKeep ==
  ASSUME MigrationInv, Advances, UNCHANGED <<dialect, cleared>>, NEW q \in Process,
         pc'[q] = pc[q], at'[q] = at[q], saw'[q] = saw[q],
         q \in overlapped => q \in overlapped', Undisturbed(q)
  PROVE  ProcessOK(q)'
<1>1. /\ ProcessOK(q) /\ pivot(q) \in Pivot /\ pivot(q)' = pivot(q) /\ Forward(pivot(q))
      /\ Forward(First) /\ Forward(Second) /\ First \in Pivot /\ Second \in Pivot
  BY PlaceOf, PivotFacts DEF MigrationInv, Advances, pivot
<1>2. SawOK(q)'
  BY <1>1 DEF ProcessOK, SawOK, Forward, here, Seen, Sorted, Renaming, Columns, Copying
<1>3. StageOK(q)'
  <2>1. pc[q] = "next" => Done(pivot(q))'
    BY <1>1, DoneStays DEF ProcessOK, StageOK
  <2> QED
    BY <1>1, <2>1 DEF ProcessOK, StageOK, Forward, here, Columns, Copying
<1>4. BehindOK(q)'
  <2>1. (Done(First) => Done(First)') /\ (Done(Second) => Done(Second)')
    BY <1>1, DoneStays
  <2> QED
    BY <1>1, <2>1 DEF ProcessOK, BehindOK, Forward, Late
<1>5. AloneOK(q)'
  <2>1. pc[q] = "failed" => q \in overlapped' \/ ~cleared'
    BY <1>1 DEF ProcessOK, AloneOK
  <2>2. ASSUME q \notin overlapped'
        PROVE  /\ pc[q] = "hasTable" /\ saw[q].legacy => here(q)'.legacy # Absent
               /\ pc[q] \in {"hasUserId", "copy"} \cup Columns /\ saw[q].legacy /\ saw[q].table =>
                    here(q)'.legacy # Absent
               /\ pc[q] = "addSource" /\ dialect = "sqlite" => ~db'[First].table.source
    <3>1. q \notin overlapped
      BY <2>2
    <3>2. pc[q] = "addSource" => db[First].table # Absent
      BY <1>1 DEF ProcessOK, BehindOK, Late
    <3> QED
      BY <1>1, <3>1, <3>2 DEF ProcessOK, AloneOK, Undisturbed, Booting, here, Columns
  <2> QED
    BY <2>1, <2>2 DEF AloneOK
<1> QED
  BY <1>2, <1>3, <1>4, <1>5 DEF ProcessOK

(* The statement of a boot keeps the invariant if it advances the pivots and *)
(* leaves its own process well.                                              *)
LEMMA StatementKeeps ==
  ASSUME MigrationInv, NEW p \in Process, Booting(p), Advances, Same, PcTyped',
         \A q \in Process \ {p} : pc'[q] = pc[q] /\ at'[q] = at[q] /\ saw'[q] = saw[q],
         ProcessOK(p)'
  PROVE  MigrationInv'
<1>1. UNCHANGED <<dialect, crashes, writes, revoked, settled, old, overlapped, cleared>>
  BY DEF Same, history
<1>2. RestTyped'
  BY <1>1 DEF MigrationInv, RestTyped
<1>3. Overlaps'
  BY <1>1 DEF MigrationInv, Overlaps, Booting
<1>4. ASSUME NEW q \in Process PROVE ProcessOK(q)'
  <2>1. CASE q = p
    BY <2>1
  <2>2. CASE q # p
    <3>1. Undisturbed(q)
      BY <2>2 DEF MigrationInv, Overlaps, Undisturbed
    <3> QED
      BY <1>1, <2>2, <3>1, OthersKeep
  <2> QED
    BY <2>1, <2>2
<1> QED
  BY <1>2, <1>3, <1>4 DEF MigrationInv, Advances

-----------------------------------------------------------------------------
(* Statements that change a pivot. *)

Becomes(v, i) == db' = [db EXCEPT ![v] = i]
Known == UNCHANGED <<old, cleared, revoked, settled>>

LEMMA InstallTyped ==
  ASSUME DbTyped, NEW v \in Pivot
  PROVE  /\ db[v] \in InstallType /\ old[v] \in SUBSET Row
         /\ db[v].table # Absent => db[v].table \in TableType
         /\ db[v].legacy # Absent => db[v].legacy \in TableType
BY DEF DbTyped, InstallType

LEMMA SamePivot ==
  ASSUME MigrationInv, Known, NEW v \in Pivot, db'[v] = db[v]
  PROVE  Forward(v) /\ InstallOK(v)'
<1>1. InstallOK(v) /\ UNCHANGED <<old, cleared, revoked, settled>>
  BY DEF MigrationInv, Known
<1>2. Rows(db'[v].table) = Rows(db[v].table)
  OBVIOUS
<1>3. Carried(v)' <=> Carried(v)
  BY <1>1, <1>2 DEF Carried
<1>4. Forward(v)
  BY <1>3 DEF Forward
<1>5. InstallOK(v)'
  BY <1>1, <1>2, <1>3 DEF InstallOK
<1> QED
  BY <1>4, <1>5

LEMMA OnePivot ==
  ASSUME MigrationInv, Known, NEW v \in Pivot, NEW i \in InstallType, Becomes(v, i)
  PROVE  /\ DbTyped' /\ db'[v] = i /\ \A w \in Pivot \ {v} : db'[w] = db[w]
         /\ Forward(v) /\ InstallOK(v)' => Advances
<1>1. /\ DbTyped' /\ db'[v] = i /\ \A w \in Pivot \ {v} : db'[w] = db[w]
  BY DEF MigrationInv, DbTyped, Becomes, Known
<1>2. ASSUME NEW w \in Pivot \ {v} PROVE Forward(w) /\ InstallOK(w)'
  BY <1>1, SamePivot
<1> QED
  BY <1>1, <1>2 DEF Advances

LEMMA NoneChanges ==
  ASSUME MigrationInv, Known, UNCHANGED db
  PROVE  Advances
<1>1. DbTyped'
  BY DEF MigrationInv, DbTyped, Known
<1>2. ASSUME NEW w \in Pivot PROVE Forward(w) /\ InstallOK(w)'
  BY SamePivot
<1> QED
  BY <1>1, <1>2 DEF Advances

LEMMA RenamedTable ==
  ASSUME MigrationInv, Known, NEW v \in Pivot, db[v].legacy # Absent, db[v].table = Absent,
         db' = [db EXCEPT ![v].table = db[v].legacy, ![v].legacy = Absent]
  PROVE  Advances /\ db'[v].table # Absent /\ db'[v].legacy = Absent
<1> DEFINE i == [db[v] EXCEPT !.table = db[v].legacy, !.legacy = Absent]
<1>1. db[v] \in InstallType /\ DbTyped /\ InstallOK(v)
  BY InstallTyped DEF MigrationInv
<1>2. /\ i \in InstallType /\ i.table = Legacy(old[v]) /\ i.legacy = Absent
      /\ i.backup = db[v].backup /\ i.table # Absent
  BY <1>1 DEF InstallOK, InstallType
<1>3. Becomes(v, i)
  BY <1>1 DEF Becomes, DbTyped
<1> HIDE DEF i
<1>4. db'[v] = i /\ (Forward(v) /\ InstallOK(v)' => Advances)
  BY <1>2, <1>3, OnePivot
<1>5. Rows(i.table) = old[v] /\ i.table.id = "user"
  BY <1>2 DEF Rows, Legacy, Table
<1>6. settled[v] = {}
  BY <1>1 DEF InstallOK
<1>7. Forward(v)
  BY <1>2, <1>4 DEF Forward
<1>8. InstallOK(v)'
  BY <1>1, <1>2, <1>4, <1>5, <1>6 DEF InstallOK, Carried, Known
<1> QED
  BY <1>2, <1>4, <1>7, <1>8

(* A change of the table alone that keeps its rows and renames or adds columns. *)
LEMMA ChangedColumns ==
  ASSUME MigrationInv, Known, NEW v \in Pivot, db[v].table # Absent, NEW u \in TableType,
         Becomes(v, [db[v] EXCEPT !.table = u]), u.rows = db[v].table.rows,
         db[v].table.type = "subject" => u.type = "subject",
         db[v].table.id = "subject" => u.id = "subject",
         u.id = "subject" => u.type = "subject",
         db[v].table.source => u.source
  PROVE  Advances /\ db'[v].table = u /\ db'[v].legacy = db[v].legacy
<1> DEFINE i == [db[v] EXCEPT !.table = u]
<1>1. db[v] \in InstallType /\ InstallOK(v) /\ u # Absent
  BY InstallTyped, MigrationAssumption DEF MigrationInv
<1>2. /\ i \in InstallType /\ i.table = u /\ i.legacy = db[v].legacy
      /\ i.backup = db[v].backup
  BY <1>1 DEF InstallType
<1>3. Becomes(v, i)
  OBVIOUS
<1> HIDE DEF i
<1>4. db'[v] = i /\ (Forward(v) /\ InstallOK(v)' => Advances)
  BY <1>2, <1>3, OnePivot
<1>5. Rows(i.table) = Rows(db[v].table)
  BY <1>1, <1>2 DEF Rows
<1>6. Forward(v)
  BY <1>1, <1>2, <1>4, <1>5 DEF Forward, Carried, Known
<1>7. InstallOK(v)'
  BY <1>1, <1>2, <1>4, <1>5 DEF InstallOK, Carried, Known
<1> QED
  BY <1>2, <1>4, <1>6, <1>7

LEMMA CopiedRows ==
  ASSUME MigrationInv, Known, NEW v \in Pivot, db[v].table # Absent, db[v].legacy # Absent,
         db' = [db EXCEPT ![v].table.rows = @ \cup db[v].legacy.rows]
  PROVE  /\ Advances /\ Carried(v)'
         /\ db'[v].legacy = db[v].legacy /\ db'[v].table # Absent
         /\ db'[v].table.type = db[v].table.type /\ db'[v].table.id = db[v].table.id
<1> DEFINE u == [db[v].table EXCEPT !.rows = @ \cup db[v].legacy.rows]
           i == [db[v] EXCEPT !.table = u]
<1>1. /\ db[v] \in InstallType /\ InstallOK(v) /\ db[v].table \in TableType /\ DbTyped
      /\ db[v].legacy \in TableType /\ db[v].legacy = Legacy(old[v])
  BY InstallTyped DEF MigrationInv, InstallOK
<1>2. db[v].legacy.rows = old[v]
  BY <1>1 DEF Legacy, Table
<1>3. /\ u \in TableType /\ u.rows = db[v].table.rows \cup old[v] /\ u.type = db[v].table.type
      /\ u.id = db[v].table.id /\ u.source = db[v].table.source
  BY <1>1, <1>2 DEF TableType
<1>4. Becomes(v, i)
  BY <1>1 DEF Becomes, DbTyped, InstallType
<1> HIDE DEF u
<1>5. /\ i \in InstallType /\ i.table = u /\ i.legacy = db[v].legacy
      /\ i.backup = db[v].backup /\ u # Absent
  BY <1>1, <1>3, MigrationAssumption DEF InstallType
<1> HIDE DEF i
<1>6. db'[v] = i /\ (Forward(v) /\ InstallOK(v)' => Advances)
  BY <1>4, <1>5, OnePivot
<1>7. settled[v] = {} /\ Rows(i.table) = Rows(db[v].table) \cup old[v]
  BY <1>1, <1>3, <1>5 DEF Rows, InstallOK
<1>8. Carried(v)'
  BY <1>6, <1>7 DEF Carried, Known
<1>9. Forward(v)
  BY <1>3, <1>5, <1>6, <1>8 DEF Forward
<1>10. InstallOK(v)'
  BY <1>1, <1>3, <1>5, <1>6, <1>7, <1>8 DEF InstallOK, Known
<1> QED
  BY <1>3, <1>5, <1>6, <1>8, <1>9, <1>10

LEMMA SetAsideKeeps ==
  ASSUME MigrationInv, Known, NEW v \in Pivot, db[v].table # Absent, Carried(v),
         db' = [db EXCEPT ![v].backup = db[v].legacy, ![v].legacy = Absent]
  PROVE  Advances /\ db'[v].table = db[v].table /\ db'[v].legacy = Absent
<1> DEFINE i == [db[v] EXCEPT !.backup = db[v].legacy, !.legacy = Absent]
<1>1. db[v] \in InstallType /\ DbTyped /\ InstallOK(v)
  BY InstallTyped DEF MigrationInv
<1>2. i \in InstallType /\ i.table = db[v].table /\ i.legacy = Absent
  BY <1>1 DEF InstallType
<1>3. Becomes(v, i)
  BY <1>1 DEF Becomes, DbTyped
<1> HIDE DEF i
<1>4. db'[v] = i /\ (Forward(v) /\ InstallOK(v)' => Advances)
  BY <1>2, <1>3, OnePivot
<1>5. Forward(v) /\ Carried(v)'
  BY <1>2, <1>4 DEF Forward, Carried, Known
<1>6. InstallOK(v)'
  BY <1>1, <1>2, <1>4, <1>5 DEF InstallOK, Known
<1> QED
  BY <1>2, <1>4, <1>5, <1>6

LEMMA CreatedTable ==
  ASSUME MigrationInv, Known, NEW v \in Pivot, Done(v), db' = Create(v)
  PROVE  /\ Advances /\ Done(v)' /\ db'[v].table # Absent
         /\ \A w \in Pivot \ {v} : db'[w] = db[w]
<1>1. CASE db[v].table # Absent
  <2>1. UNCHANGED db
    BY <1>1 DEF Create
  <2> QED
    BY <1>1, <2>1, NoneChanges DEF Done
<1>2. CASE db[v].table = Absent
  <2> DEFINE u == Current({}, TRUE)
             i == [db[v] EXCEPT !.table = u]
  <2>1. u \in TableType /\ u # Absent /\ u.type = "subject" /\ u.id = "subject" /\ u.rows = {}
    <3>1. u \in TableType /\ u.type = "subject" /\ u.id = "subject" /\ u.rows = {}
      BY DEF Current, Table, TableType
    <3> QED
      BY <3>1, MigrationAssumption
  <2>2. db[v] \in InstallType /\ DbTyped /\ InstallOK(v)
    BY InstallTyped DEF MigrationInv
  <2>3. Becomes(v, i)
    BY <1>2, <2>2 DEF Becomes, DbTyped, Create
  <2> HIDE DEF u
  <2>4. /\ i \in InstallType /\ i.table = u /\ i.legacy = Absent /\ i.backup = db[v].backup
    BY <2>1, <2>2 DEF InstallType, Done
  <2> HIDE DEF i
  <2>5. /\ db'[v] = i /\ (Forward(v) /\ InstallOK(v)' => Advances)
        /\ \A w \in Pivot \ {v} : db'[w] = db[w]
    BY <2>3, <2>4, OnePivot
  <2>6. Rows(i.table) = {} /\ Rows(db[v].table) = {}
    BY <1>2, <2>1, <2>4 DEF Rows
  <2>7. Forward(v)
    BY <1>2, <2>1, <2>4, <2>5 DEF Forward, Done
  <2>8. InstallOK(v)'
    BY <2>1, <2>2, <2>4, <2>5, <2>6 DEF InstallOK, Carried, Known, Done
  <2> QED
    BY <2>1, <2>4, <2>5, <2>7, <2>8 DEF Done
<1> QED
  BY <1>1, <1>2

-----------------------------------------------------------------------------
(* Statements of the migration. *)

Labels == Migrating \cup Late \cup {"down", "failed"}

LEMMA Went ==
  ASSUME PcTyped, NEW p \in Process, NEW s \in Labels, Goto(p, s), UNCHANGED <<at, saw>>
  PROVE  /\ PcTyped' /\ pc'[p] = s /\ pivot(p)' = pivot(p) /\ at'[p] = at[p] /\ saw'[p] = saw[p]
         /\ \A q \in Process \ {p} : pc'[q] = pc[q] /\ at'[q] = at[q] /\ saw'[q] = saw[q]
BY DEF PcTyped, Goto, Labels, pivot

LEMMA SameKnown == Same => Known /\ UNCHANGED <<dialect, overlapped, cleared>>
BY DEF Same, Known, history

(* A boot in the migration goes on to s there. *)
LEMMA GoesOn ==
  ASSUME MigrationInv, NEW p \in Process, pc[p] \in Migrating, NEW s \in Migrating \cup {"failed"},
         Goto(p, s), UNCHANGED <<at, saw>>, Same, Advances,
         SawOK(p)', StageOK(p)', AloneOK(p)'
  PROVE  MigrationInv'
<1>1. /\ PcTyped' /\ pc'[p] = s /\ at'[p] = at[p]
      /\ \A q \in Process \ {p} : pc'[q] = pc[q] /\ at'[q] = at[q] /\ saw'[q] = saw[q]
  BY Went DEF MigrationInv, Labels
<1>2. BehindOK(p)'
  <2>1. at[p] = 2 => Done(First)'
    BY DoneStays, PivotFacts DEF MigrationInv, ProcessOK, BehindOK, Advances
  <2>2. s \notin Late
    BY DEF Migrating, Seen, Sorted, Renaming, Columns, Copying, Late
  <2> QED
    BY <1>1, <2>1, <2>2 DEF BehindOK, Late
<1>3. Booting(p)
  BY DEF Booting, Migrating, Seen, Sorted, Renaming, Columns, Copying
<1> QED
  BY <1>1, <1>2, <1>3, StatementKeeps DEF ProcessOK

LEMMA Here ==
  ASSUME MigrationInv, NEW p \in Process
  PROVE  /\ pivot(p) \in Pivot /\ InstallOK(pivot(p)) /\ ProcessOK(p)
         /\ here(p) = db[pivot(p)] /\ here(p) \in InstallType /\ pc[p] \in Labels
         /\ here(p).table # Absent => here(p).table \in TableType
         /\ saw[p] \in [legacy : BOOLEAN, table : BOOLEAN]
BY PlaceOf, InstallTyped DEF MigrationInv, here, PcTyped, Labels

(* A boot that only looks goes on to where what it found lets it. *)
LEMMA LookKeeps ==
  ASSUME MigrationInv, NEW p \in Process, pc[p] \in Migrating, NEW s \in Migrating \cup {"failed"},
         Goto(p, s), UNCHANGED <<db, at, saw>>, Same,
         s \in Renaming => pc[p] \in Renaming,
         s \in Seen => pc[p] \in Seen,
         s \in Sorted /\ saw[p].legacy => here(p).table # Absent,
         s \in Copying => saw[p].legacy /\ saw[p].table,
         s \in {"rename done?"} \cup Columns \cup Copying => here(p).table # Absent,
         s \in (Columns \ {"userType"}) \cup Copying => here(p).table.type = "subject",
         s \in {"userId done?"} \cup Copying => here(p).table.id = "subject",
         s \in {"backup", "backup done?"} => Carried(pivot(p)),
         s = "backup done?" /\ cleared => here(p).legacy = Absent,
         s = "next" => Done(pivot(p)),
         p \notin overlapped /\ s \in {"hasUserId", "copy"} \cup Columns
           /\ saw[p].legacy /\ saw[p].table => here(p).legacy # Absent,
         s = "failed" => p \in overlapped \/ ~cleared,
         s # "hasTable"
  PROVE  MigrationInv'
<1>1. /\ pc'[p] = s /\ pivot(p)' = pivot(p) /\ saw'[p] = saw[p]
      /\ SawOK(p) /\ Known /\ UNCHANGED <<dialect, overlapped, cleared>>
  BY Went, SameKnown DEF MigrationInv, Labels, ProcessOK
<1>2. here(p)' = here(p)
  BY <1>1 DEF here
<1>3. SawOK(p)'
  BY <1>1, <1>2 DEF SawOK, Seen
<1>4. StageOK(p)'
  <2>1. Carried(pivot(p)) => Carried(pivot(p))'
    BY <1>1 DEF Carried, Known
  <2>2. Done(pivot(p)) => Done(pivot(p))'
    BY <1>1 DEF Done
  <2> QED
    BY <1>1, <1>2, <2>1, <2>2 DEF StageOK
<1>5. AloneOK(p)'
  <2>1. s # "addSource"
    BY DEF Migrating, Seen, Sorted, Renaming, Columns, Copying
  <2> QED
    BY <1>1, <1>2, <2>1 DEF AloneOK
<1> QED
  BY <1>1, <1>3, <1>4, <1>5, NoneChanges, GoesOn

LEMMA HasLegacyKeeps ==
  ASSUME MigrationInv, NEW p \in Process, HasLegacy(p)
  PROVE  MigrationInv'
<1> DEFINE there == here(p).legacy # Absent
<1>1. /\ pc[p] = "hasLegacy" /\ Same /\ UNCHANGED <<db, at>> /\ Goto(p, "hasTable")
      /\ saw' = [saw EXCEPT ![p].legacy = there]
  BY DEF HasLegacy
<1>2. there \in BOOLEAN
  OBVIOUS
<1> HIDE DEF there
<1>3. /\ PcTyped' /\ pc'[p] = "hasTable" /\ pivot(p)' = pivot(p) /\ here(p)' = here(p)
      /\ saw'[p].legacy = there /\ at'[p] = at[p]
      /\ \A q \in Process \ {p} : pc'[q] = pc[q] /\ at'[q] = at[q] /\ saw'[q] = saw[q]
  BY <1>1, <1>2 DEF MigrationInv, PcTyped, Goto, pivot, here, Migrating
<1>4. Booting(p) /\ Advances
  BY <1>1, NoneChanges, SameKnown DEF Booting
<1>5. SawOK(p)'
  BY <1>3 DEF SawOK, Seen, Sorted, Renaming, Columns, Copying, there
<1>6. StageOK(p)'
  BY <1>3 DEF StageOK, Columns, Copying
<1>7. BehindOK(p)'
  <2>1. at[p] = 2 => Done(First)'
    BY <1>1, <1>4, DoneStays, PivotFacts DEF MigrationInv, ProcessOK, BehindOK, Advances, Migrating
  <2> QED
    BY <1>3, <2>1 DEF BehindOK, Late
<1>8. AloneOK(p)'
  BY <1>3 DEF AloneOK, there, Columns
<1> QED
  BY <1>1, <1>3, <1>4, <1>5, <1>6, <1>7, <1>8, StatementKeeps DEF ProcessOK

LEMMA HasTableKeeps ==
  ASSUME MigrationInv, NEW p \in Process, HasTable(p)
  PROVE  MigrationInv'
<1> DEFINE there == here(p).table # Absent
           s == IF ToRename(saw[p].legacy, there) THEN "rename" ELSE "hasUserId"
<1>1. /\ pc[p] = "hasTable" /\ Same /\ UNCHANGED <<db, at>> /\ Goto(p, s)
      /\ saw' = [saw EXCEPT ![p].table = there]
  BY DEF HasTable
<1>2. /\ there \in BOOLEAN /\ s \in {"rename", "hasUserId"}
      /\ s = "rename" <=> saw[p].legacy /\ ~there
  BY DEF ToRename
<1>3. SawOK(p) /\ AloneOK(p)
  BY Here DEF ProcessOK
<1> HIDE DEF s
<1>4. /\ PcTyped' /\ pc'[p] = s /\ pivot(p)' = pivot(p) /\ here(p)' = here(p)
      /\ saw'[p].legacy = saw[p].legacy /\ saw'[p].table = there /\ at'[p] = at[p]
      /\ \A q \in Process \ {p} : pc'[q] = pc[q] /\ at'[q] = at[q] /\ saw'[q] = saw[q]
  <2> HIDE DEF there
  <2> QED
    BY <1>1, <1>2 DEF MigrationInv, PcTyped, Goto, pivot, here, Migrating, Seen, Sorted, Renaming
<1>5. Booting(p) /\ Advances /\ UNCHANGED <<overlapped, dialect, cleared>>
  BY <1>1, NoneChanges, SameKnown DEF Booting
<1>6. SawOK(p)'
  BY <1>1, <1>2, <1>3, <1>4 DEF SawOK, Seen, Sorted, Renaming, Columns, Copying
<1>7. StageOK(p)'
  BY <1>2, <1>4 DEF StageOK, Columns, Copying
<1>8. BehindOK(p)'
  <2>1. at[p] = 2 => Done(First)'
    BY <1>1, <1>5, DoneStays, PivotFacts DEF MigrationInv, ProcessOK, BehindOK, Advances, Migrating
  <2> QED
    BY <1>2, <1>4, <2>1 DEF BehindOK, Late
<1>9. AloneOK(p)'
  BY <1>1, <1>2, <1>3, <1>4, <1>5 DEF AloneOK, Columns
<1> QED
  BY <1>1, <1>4, <1>5, <1>6, <1>7, <1>8, <1>9, StatementKeeps DEF ProcessOK

(* step(), when another process has done what it is to do. *)
LEMMA RenameLegacyKeeps ==
  ASSUME MigrationInv, NEW p \in Process, RenameLegacy(p)
  PROVE  MigrationInv'
<1> DEFINE v == pivot(p)
<1>1. /\ v \in Pivot /\ here(p) = db[v] /\ SawOK(p) /\ StageOK(p)
      /\ saw[p] \in [legacy : BOOLEAN, table : BOOLEAN]
  BY Here DEF ProcessOK
<1>2. pc[p] \in Renaming /\ Same /\ UNCHANGED <<at, saw>>
  BY DEF RenameLegacy, Step, Recheck, Look, Renaming, AfterError
<1>3. saw[p].legacy /\ ~saw[p].table
  BY <1>1, <1>2 DEF SawOK
<1>4. CASE /\ pc[p] = "rename" /\ db[v].legacy # Absent /\ db[v].table = Absent
           /\ db' = [db EXCEPT ![v].table = db[v].legacy, ![v].legacy = Absent]
           /\ Goto(p, "hasUserId")
  <2>1. Advances /\ db'[v].table # Absent /\ db'[v].legacy = Absent /\ UNCHANGED overlapped
    BY <1>1, <1>2, <1>4, RenamedTable, SameKnown
  <2>2. pc'[p] = "hasUserId" /\ pivot(p)' = v /\ saw'[p] = saw[p]
    BY <1>2, <1>4, Went DEF MigrationInv, Labels, Migrating, Seen, Sorted
  <2>3. here(p)' = db'[v]
    BY <2>2 DEF here
  <2>4. SawOK(p)' /\ StageOK(p)' /\ AloneOK(p)'
    BY <1>3, <2>1, <2>2, <2>3 DEF SawOK, StageOK, AloneOK, Seen, Sorted, Renaming, Columns, Copying
  <2> QED
    BY <1>2, <1>4, <2>1, <2>4, GoesOn DEF Migrating, Seen, Sorted
<1>5. CASE /\ pc[p] = "rename" /\ ~(db[v].legacy # Absent /\ db[v].table = Absent)
           /\ UNCHANGED db /\ Goto(p, "rename done?")
  <2>1. db[v].table # Absent
    BY <1>1, <1>2, <1>3, <1>5 DEF SawOK, Seen
  <2> QED
    BY <1>1, <1>2, <1>5, <2>1, LookKeeps
    DEF Migrating, Seen, Sorted, Renaming, Columns, Copying
<1>6. CASE /\ pc[p] = "rename done?" /\ UNCHANGED db
           /\ Goto(p, IF db[v].table # Absent THEN "hasUserId" ELSE "failed")
  <2>1. db[v].table # Absent
    BY <1>1, <1>6 DEF StageOK
  <2> QED
    BY <1>1, <1>2, <1>3, <1>6, <2>1, LookKeeps
    DEF Migrating, Seen, Sorted, Renaming, Columns, Copying
<1> QED
  BY <1>1, <1>4, <1>5, <1>6 DEF RenameLegacy, Step, Recheck, Look, AfterError

(* A boot copies where it found both tables, and else the old one is gone. *)
LEMMA ToCopyFacts ==
  ASSUME MigrationInv, NEW p \in Process, pc[p] \in Sorted
  PROVE  /\ ToCopy(p) \in {"copy", "next"}
         /\ ToCopy(p) = "copy" => saw[p].legacy /\ saw[p].table /\ here(p).table # Absent
         /\ ToCopy(p) = "next" => here(p).legacy = Absent
<1>1. SawOK(p) /\ saw[p] \in [legacy : BOOLEAN, table : BOOLEAN]
  BY Here DEF ProcessOK
<1>2. ToCopy(p) = IF saw[p].legacy /\ saw[p].table THEN "copy" ELSE "next"
  BY DEF ToCopy
<1> QED
  BY <1>1, <1>2 DEF SawOK, Seen

LEMMA HasUserIdKeeps ==
  ASSUME MigrationInv, NEW p \in Process, HasUserId(p)
  PROVE  MigrationInv'
<1> DEFINE v == pivot(p)
           toName == db[v].table # Absent /\ db[v].table.id = "user"
           s == IF toName THEN "userType" ELSE ToCopy(p)
<1>1. /\ v \in Pivot /\ here(p) = db[v] /\ SawOK(p) /\ AloneOK(p) /\ InstallOK(v)
      /\ db[v].table # Absent => db[v].table \in TableType
  BY Here DEF ProcessOK
<1>2. /\ pc[p] = "hasUserId" /\ Same /\ UNCHANGED <<db, at, saw>> /\ Goto(p, s)
  BY <1>1 DEF HasUserId, Look
<1>3. /\ ToCopy(p) \in {"copy", "next"}
      /\ ToCopy(p) = "copy" => saw[p].legacy /\ saw[p].table /\ db[v].table # Absent
      /\ ToCopy(p) = "next" => db[v].legacy = Absent
  BY <1>1, <1>2, ToCopyFacts DEF Sorted
<1>4. s = "userType" => db[v].table # Absent
  BY <1>3
<1>5. s # "userType" /\ db[v].table # Absent =>
        db[v].table.id = "subject" /\ db[v].table.type = "subject"
  BY <1>1 DEF InstallOK, TableType
<1>6. s \in {"userType", "copy", "next"} /\ (s # "userType" => s = ToCopy(p))
  BY <1>3
<1> HIDE DEF s, v
<1>7. s = "next" => Done(v)
  BY <1>3, <1>5, <1>6 DEF Done
<1>8. pc[p] \in Migrating /\ pc[p] \in Seen /\ s \in Migrating
  BY <1>2, <1>6 DEF Migrating, Seen, Sorted, Columns, Copying
<1>9. s \in Sorted /\ saw[p].legacy => db[v].table # Absent
  BY <1>1, <1>2 DEF SawOK, Sorted
<1>10. s # "hasTable" /\ s \notin Renaming /\ s \notin {"backup", "backup done?", "failed"}
  BY <1>6 DEF Renaming
<1>11. p \notin overlapped /\ saw[p].legacy /\ saw[p].table => db[v].legacy # Absent
  BY <1>1, <1>2 DEF AloneOK
<1> QED
  BY <1>1, <1>2, <1>3, <1>4, <1>5, <1>6, <1>7, <1>8, <1>9, <1>10, <1>11, LookKeeps
  DEF Columns, Copying, v

(* The columns of a pivot are renamed, by this boot or another. *)
LEMMA RenameTypeKeeps ==
  ASSUME MigrationInv, NEW p \in Process, pc[p] \in {"userType", "userType done?"},
         RenameColumns(p)
  PROVE  MigrationInv'
<1> DEFINE v == pivot(p)
<1>1. /\ v \in Pivot /\ here(p) = db[v] /\ SawOK(p) /\ StageOK(p) /\ AloneOK(p) /\ InstallOK(v)
      /\ db[v] \in InstallType /\ saw[p] \in [legacy : BOOLEAN, table : BOOLEAN]
      /\ db[v].table # Absent => db[v].table \in TableType
  BY Here DEF ProcessOK
<1>2. /\ db[v].table # Absent /\ db[v].table \in TableType
      /\ saw[p].legacy /\ saw[p].table /\ p \notin overlapped => db[v].legacy # Absent
  <2>1. db[v].table # Absent
    BY <1>1 DEF StageOK, Columns
  <2> QED
    BY <1>1, <2>1 DEF AloneOK, Columns
<1>3. Same /\ UNCHANGED <<at, saw>> /\ pc[p] \in Seen /\ pc[p] \in Migrating
  BY DEF RenameColumns, Step, Recheck, Look, AfterError, Migrating, Seen, Sorted, Columns
<1>4. CASE /\ pc[p] = "userType" /\ db[v].table.type = "user"
           /\ db' = [db EXCEPT ![v].table.type = "subject"] /\ Goto(p, "userId")
  <2> DEFINE u == [db[v].table EXCEPT !.type = "subject"]
  <2>1. /\ u \in TableType /\ u.type = "subject" /\ u.rows = db[v].table.rows
        /\ u.id = db[v].table.id /\ u.source = db[v].table.source
    BY <1>2 DEF TableType
  <2>2. Becomes(v, [db[v] EXCEPT !.table = u])
    BY <1>1, <1>4 DEF Becomes, MigrationInv, DbTyped, InstallType
  <2> HIDE DEF u
  <2>3. /\ Advances /\ db'[v].table = u /\ db'[v].legacy = db[v].legacy /\ UNCHANGED overlapped
    BY <1>1, <1>2, <1>3, <2>1, <2>2, ChangedColumns, SameKnown
  <2>4. pc'[p] = "userId" /\ pivot(p)' = v /\ saw'[p] = saw[p]
    BY <1>3, <1>4, Went DEF MigrationInv, Labels, Migrating, Seen, Sorted, Columns
  <2>5. here(p)' = db'[v] /\ u # Absent
    BY <2>1, <2>4, MigrationAssumption DEF here
  <2>6. SawOK(p)'
    BY <1>1, <1>2, <1>4, <2>3, <2>4, <2>5 DEF SawOK, Seen, Sorted, Renaming, Columns, Copying
  <2>7. StageOK(p)'
    BY <2>1, <2>3, <2>4, <2>5 DEF StageOK, Columns, Copying
  <2>8. AloneOK(p)'
    BY <1>2, <2>3, <2>4, <2>5 DEF AloneOK, Columns
  <2> QED
    BY <1>3, <1>4, <2>3, <2>6, <2>7, <2>8, GoesOn DEF Migrating, Seen, Sorted, Columns
<1>5. CASE /\ pc[p] = "userType" /\ db[v].table.type # "user"
           /\ UNCHANGED db /\ Goto(p, "userType done?")
  <2>1. db[v].table.type = "subject"
    BY <1>2, <1>5 DEF TableType
  <2> QED
    BY <1>1, <1>2, <1>3, <1>5, <2>1, LookKeeps
    DEF Migrating, Seen, Sorted, Renaming, Columns, Copying
<1>6. CASE /\ pc[p] = "userType done?" /\ UNCHANGED db
           /\ Goto(p, IF db[v].table.type = "subject" THEN "userId" ELSE "failed")
  <2>1. db[v].table.type = "subject"
    BY <1>1, <1>6 DEF StageOK, Columns
  <2> QED
    BY <1>1, <1>2, <1>3, <1>6, <2>1, LookKeeps
    DEF Migrating, Seen, Sorted, Renaming, Columns, Copying
<1> QED
  BY <1>1, <1>4, <1>5, <1>6 DEF RenameColumns, Renamed, Step, Recheck, Look, AfterError

LEMMA RenameIdKeeps ==
  ASSUME MigrationInv, NEW p \in Process, pc[p] \in {"userId", "userId done?"},
         RenameColumns(p)
  PROVE  MigrationInv'
<1> DEFINE v == pivot(p)
           s == ToCopy(p)
<1>1. /\ v \in Pivot /\ here(p) = db[v] /\ SawOK(p) /\ StageOK(p) /\ AloneOK(p) /\ InstallOK(v)
      /\ db[v] \in InstallType /\ saw[p] \in [legacy : BOOLEAN, table : BOOLEAN]
      /\ db[v].table # Absent => db[v].table \in TableType
  BY Here DEF ProcessOK
<1>2. /\ db[v].table # Absent /\ db[v].table \in TableType /\ db[v].table.type = "subject"
      /\ saw[p].legacy /\ saw[p].table /\ p \notin overlapped => db[v].legacy # Absent
  <2>1. db[v].table # Absent /\ db[v].table.type = "subject"
    BY <1>1 DEF StageOK, Columns
  <2> QED
    BY <1>1, <2>1 DEF AloneOK, Columns
<1>3. /\ Same /\ UNCHANGED <<at, saw>>
      /\ pc[p] \in Sorted /\ pc[p] \in Seen /\ pc[p] \in Migrating
  BY DEF RenameColumns, Step, Recheck, Look, AfterError, Migrating, Seen, Sorted, Columns
<1>4. /\ s \in {"copy", "next"} /\ s \in Migrating
      /\ s = "copy" => saw[p].legacy /\ saw[p].table
      /\ s = "next" => db[v].legacy = Absent
  BY <1>1, <1>3, ToCopyFacts DEF Migrating, Seen, Sorted, Copying
<1> HIDE DEF s
<1>5. CASE /\ pc[p] = "userId" /\ db[v].table.id = "user"
           /\ db' = [db EXCEPT ![v].table.id = "subject"] /\ Goto(p, s)
  <2> DEFINE u == [db[v].table EXCEPT !.id = "subject"]
  <2>1. /\ u \in TableType /\ u.type = "subject" /\ u.rows = db[v].table.rows
        /\ u.id = "subject" /\ u.source = db[v].table.source
    BY <1>2 DEF TableType
  <2>2. Becomes(v, [db[v] EXCEPT !.table = u])
    BY <1>1, <1>5 DEF Becomes, MigrationInv, DbTyped, InstallType
  <2> HIDE DEF u
  <2>3. /\ Advances /\ db'[v].table = u /\ db'[v].legacy = db[v].legacy /\ UNCHANGED overlapped
    BY <1>1, <1>2, <1>3, <2>1, <2>2, ChangedColumns, SameKnown
  <2>4. pc'[p] = s /\ pivot(p)' = v /\ saw'[p] = saw[p]
    BY <1>3, <1>4, <1>5, Went DEF MigrationInv, Labels
  <2>5. here(p)' = db'[v] /\ u # Absent
    BY <2>1, <2>4, MigrationAssumption DEF here
  <2>6. SawOK(p)'
    BY <1>1, <1>2, <1>3, <1>4, <2>3, <2>4, <2>5
    DEF SawOK, Seen, Sorted, Renaming, Columns, Copying
  <2>7. StageOK(p)'
    <3>1. s = "next" => Done(v)'
      BY <1>4, <2>1, <2>3, <2>4, <2>5 DEF Done
    <3> QED
      BY <1>4, <2>1, <2>3, <2>4, <2>5, <3>1 DEF StageOK, Columns, Copying
  <2>8. AloneOK(p)'
    BY <1>2, <1>4, <2>3, <2>4, <2>5 DEF AloneOK, Columns
  <2> QED
    BY <1>3, <1>4, <1>5, <2>3, <2>6, <2>7, <2>8, GoesOn
<1>6. CASE /\ pc[p] = "userId" /\ db[v].table.id # "user"
           /\ UNCHANGED db /\ Goto(p, "userId done?")
  <2>1. db[v].table.id = "subject"
    BY <1>2, <1>6 DEF TableType
  <2> QED
    BY <1>1, <1>2, <1>3, <1>6, <2>1, LookKeeps
    DEF Migrating, Seen, Sorted, Renaming, Columns, Copying
<1>7. CASE /\ pc[p] = "userId done?" /\ UNCHANGED db
           /\ Goto(p, IF db[v].table.id = "subject" THEN s ELSE "failed")
  <2>1. db[v].table.id = "subject" /\ (s = "next" => Done(v))
    BY <1>1, <1>2, <1>4, <1>7 DEF StageOK, Done
  <2>2. /\ s \notin Renaming /\ s \notin Columns /\ s \notin {"backup", "backup done?"}
        /\ s \notin {"hasTable", "failed", "rename done?"}
    BY <1>4 DEF Renaming, Columns
  <2> QED
    BY <1>1, <1>2, <1>3, <1>4, <1>7, <2>1, <2>2, LookKeeps DEF Copying
<1> QED
  BY <1>1, <1>5, <1>6, <1>7 DEF RenameColumns, Renamed, Step, Recheck, Look, AfterError, s

LEMMA CopyRowsKeeps ==
  ASSUME MigrationInv, NEW p \in Process, CopyRows(p)
  PROVE  MigrationInv'
<1> DEFINE v == pivot(p)
<1>1. /\ v \in Pivot /\ here(p) = db[v] /\ SawOK(p) /\ StageOK(p) /\ AloneOK(p)
      /\ pc[p] = "copy" /\ Same /\ UNCHANGED <<at, saw>> /\ pc[p] \in Migrating
  BY Here DEF ProcessOK, CopyRows, Migrating, Seen, Sorted, Copying
<1>2. /\ saw[p].legacy /\ saw[p].table
      /\ db[v].table # Absent /\ db[v].table.type = "subject" /\ db[v].table.id = "subject"
  BY <1>1 DEF SawOK, StageOK, Copying
<1>3. CASE db[v].legacy = Absent /\ UNCHANGED db /\ Goto(p, "failed")
  <2>1. p \in overlapped
    BY <1>1, <1>2, <1>3 DEF AloneOK
  <2> QED
    BY <1>1, <1>3, <2>1, LookKeeps DEF Migrating, Seen, Sorted, Renaming, Columns, Copying
<1>4. CASE /\ db[v].legacy # Absent /\ Goto(p, "backup")
           /\ db' = [db EXCEPT ![v].table.rows = @ \cup db[v].legacy.rows]
  <2>1. /\ Advances /\ db'[v].legacy = db[v].legacy /\ db'[v].table # Absent
        /\ old'[v] \subseteq Rows(db'[v].table) \cup revoked'[v]
        /\ db'[v].table.type = "subject" /\ db'[v].table.id = "subject" /\ UNCHANGED overlapped
    BY <1>1, <1>2, <1>4, CopiedRows, SameKnown DEF Carried
  <2>2. pc'[p] = "backup" /\ pivot(p)' = v /\ saw'[p] = saw[p]
    BY <1>1, <1>4, Went DEF MigrationInv, Labels, Migrating, Seen, Sorted, Copying
  <2>3. here(p)' = db'[v]
    BY <2>2 DEF here
  <2>4. SawOK(p)'
    BY <1>2, <1>4, <2>1, <2>2, <2>3 DEF SawOK, Seen, Sorted, Renaming, Columns, Copying
  <2>5. StageOK(p)'
    <3>1. Carried(pivot(p))'
      BY <2>1, <2>2 DEF Carried
    <3> QED
      BY <2>1, <2>2, <2>3, <3>1 DEF StageOK
  <2>6. AloneOK(p)'
    BY <2>2 DEF AloneOK, Columns
  <2> QED
    BY <1>1, <1>4, <2>1, <2>4, <2>5, <2>6, GoesOn DEF Migrating, Seen, Sorted, Copying
<1> QED
  BY <1>1, <1>3, <1>4 DEF CopyRows

LEMMA RenameToBackupKeeps ==
  ASSUME MigrationInv, NEW p \in Process, RenameToBackup(p)
  PROVE  MigrationInv'
<1> DEFINE v == pivot(p)
<1>1. /\ v \in Pivot /\ here(p) = db[v] /\ SawOK(p) /\ StageOK(p) /\ InstallOK(v)
      /\ pc[p] \in {"backup", "backup done?"} /\ Same /\ UNCHANGED <<at, saw>>
      /\ pc[p] \in Migrating
  BY Here DEF ProcessOK, RenameToBackup, Step, Recheck, Look, AfterError, Migrating, Seen, Sorted,
              Copying
<1>2. /\ saw[p].legacy /\ saw[p].table /\ Carried(v)
      /\ db[v].table # Absent /\ db[v].table.type = "subject" /\ db[v].table.id = "subject"
  BY <1>1 DEF SawOK, StageOK, Copying
<1>3. CASE /\ pc[p] = "backup" /\ db[v].legacy # Absent /\ db[v].backup = Absent
           /\ db' = SetAside(p) /\ Goto(p, "next")
  <2>1. /\ Advances /\ db'[v].table = db[v].table /\ db'[v].legacy = Absent
        /\ UNCHANGED overlapped
    BY <1>1, <1>2, <1>3, SetAsideKeeps, SameKnown DEF SetAside
  <2>2. pc'[p] = "next" /\ pivot(p)' = v /\ saw'[p] = saw[p]
    BY <1>1, <1>3, Went DEF MigrationInv, Labels, Migrating, Seen, Sorted
  <2>3. here(p)' = db'[v] /\ Done(v)'
    BY <1>2, <2>1, <2>2 DEF here, Done
  <2>4. SawOK(p)'
    BY <1>2, <2>1, <2>2, <2>3 DEF SawOK, Seen, Sorted, Renaming, Columns, Copying
  <2>5. StageOK(p)'
    BY <2>2, <2>3 DEF StageOK, Columns, Copying, Done
  <2>6. AloneOK(p)'
    BY <2>2 DEF AloneOK, Columns
  <2> QED
    BY <1>1, <1>3, <2>1, <2>4, <2>5, <2>6, GoesOn DEF Migrating, Seen, Sorted
<1>4. CASE /\ pc[p] = "backup" /\ ~(db[v].legacy # Absent /\ db[v].backup = Absent)
           /\ UNCHANGED db /\ Goto(p, "backup done?")
  <2>1. cleared => db[v].legacy = Absent
    BY <1>1, <1>4 DEF InstallOK
  <2> QED
    BY <1>1, <1>2, <1>4, <2>1, LookKeeps DEF Migrating, Seen, Sorted, Renaming, Columns, Copying
<1>5. CASE /\ pc[p] = "backup done?" /\ UNCHANGED db
           /\ Goto(p, IF db[v].legacy = Absent THEN "next" ELSE "failed")
  <2>1. cleared => db[v].legacy = Absent
    BY <1>1, <1>5 DEF StageOK
  <2>2. db[v].legacy = Absent => Done(v)
    BY <1>2 DEF Done
  <2> QED
    BY <1>1, <1>2, <1>5, <2>1, <2>2, LookKeeps
    DEF Migrating, Seen, Sorted, Renaming, Columns, Copying
<1> QED
  BY <1>1, <1>3, <1>4, <1>5 DEF RenameToBackup, Step, Recheck, Look, AfterError

LEMMA NextPivotKeeps ==
  ASSUME MigrationInv, NEW p \in Process, NextPivot(p)
  PROVE  MigrationInv'
<1>1. /\ pc[p] = "next" /\ Same /\ UNCHANGED <<db, saw>> /\ Done(pivot(p))
      /\ at[p] \in {1, 2} /\ (at[p] = 1 => pivot(p) = First)
      /\ (at[p] = 2 => pivot(p) = Second /\ Done(First))
  BY Here, PlaceOf
     DEF NextPivot, ProcessOK, StageOK, BehindOK, MigrationInv, Migrating, Seen, Sorted
<1>2. MorePivots(1) /\ ~MorePivots(2)
  BY PivotFacts DEF MorePivots
<1>3. Booting(p) /\ Advances
  BY <1>1, NoneChanges, SameKnown DEF Booting
<1>4. CASE at[p] = 1
  <2>1. at' = [at EXCEPT ![p] = 2] /\ Goto(p, "hasLegacy")
    BY <1>2, <1>4 DEF NextPivot
  <2>2. /\ PcTyped' /\ pc'[p] = "hasLegacy" /\ at'[p] = 2
        /\ \A q \in Process \ {p} : pc'[q] = pc[q] /\ at'[q] = at[q] /\ saw'[q] = saw[q]
    BY <1>1, <2>1 DEF MigrationInv, PcTyped, Goto, Migrating
  <2>3. Done(First)'
    BY <1>1, <1>4 DEF Done, First
  <2>4. ProcessOK(p)'
    BY <2>2, <2>3 DEF ProcessOK, SawOK, StageOK, BehindOK, AloneOK, Migrating, Seen, Sorted,
                      Renaming, Columns, Copying, Late
  <2> QED
    BY <1>1, <1>3, <2>2, <2>4, StatementKeeps
<1>5. CASE at[p] = 2
  <2>1. at' = [at EXCEPT ![p] = 1] /\ Goto(p, "createRole")
    BY <1>2, <1>5 DEF NextPivot
  <2>2. /\ PcTyped' /\ pc'[p] = "createRole" /\ at'[p] = 1
        /\ \A q \in Process \ {p} : pc'[q] = pc[q] /\ at'[q] = at[q] /\ saw'[q] = saw[q]
    BY <1>1, <2>1 DEF MigrationInv, PcTyped, Goto, Late
  <2>3. Done(First)' /\ Done(Second)'
    BY <1>1, <1>5 DEF Done, First, Second
  <2>4. ProcessOK(p)'
    BY <2>2, <2>3 DEF ProcessOK, SawOK, StageOK, BehindOK, AloneOK, Migrating, Seen, Sorted,
                      Renaming, Columns, Copying, Late
  <2> QED
    BY <1>1, <1>3, <2>2, <2>4, StatementKeeps
<1> QED
  BY <1>1, <1>4, <1>5

-----------------------------------------------------------------------------
(* Statements that create the tables. *)

(* A boot past the migration goes on to s there. *)
LEMMA GoesOnLate ==
  ASSUME MigrationInv, NEW p \in Process, pc[p] \in Late \ {"ready"},
         NEW s \in Late \cup {"failed"},
         Goto(p, s), UNCHANGED <<at, saw>>, Same, Advances,
         s # "createRole",
         s \in Late => db'[First].table # Absent,
         s \in {"createPermission", "ready"} => db'[First].table.source,
         s = "ready" => db'[Second].table # Absent,
         s = "addSource" /\ dialect = "sqlite" => ~db'[First].table.source,
         s = "failed" => p \in overlapped \/ ~cleared
  PROVE  MigrationInv'
<1>1. /\ PcTyped' /\ pc'[p] = s /\ at'[p] = at[p]
      /\ \A q \in Process \ {p} : pc'[q] = pc[q] /\ at'[q] = at[q] /\ saw'[q] = saw[q]
      /\ UNCHANGED <<dialect, overlapped, cleared>>
  BY Went, SameKnown DEF MigrationInv, Labels
<1>2. s \notin Migrating /\ s \notin Seen /\ s \notin Sorted /\ Booting(p)
  BY DEF Booting, Migrating, Seen, Sorted, Renaming, Columns, Copying, Late
<1>3. SawOK(p)' /\ StageOK(p)'
  <2>1. SawOK(p)'
    BY <1>1 DEF SawOK, Seen, Sorted, Renaming, Columns, Copying, Late
  <2>2. StageOK(p)'
    BY <1>1 DEF StageOK, Columns, Copying, Late
  <2> QED
    BY <2>1, <2>2
<1>4. BehindOK(p)'
  <2>1. Done(First)' /\ Done(Second)' /\ at[p] = 1
    BY DoneStays, PivotFacts DEF MigrationInv, ProcessOK, BehindOK, Advances
  <2> QED
    BY <1>1, <1>2, <2>1 DEF BehindOK, Late
<1>5. AloneOK(p)'
  BY <1>1, <1>2 DEF AloneOK, Migrating, Seen, Sorted, Copying
<1> QED
  BY <1>1, <1>2, <1>3, <1>4, <1>5, StatementKeeps DEF ProcessOK

LEMMA LateFacts ==
  ASSUME MigrationInv, NEW p \in Process, pc[p] \in Late
  PROVE  /\ pivot(p) = First /\ here(p) = db[First] /\ Done(First) /\ Done(Second)
         /\ First \in Pivot /\ Second \in Pivot /\ First # Second
         /\ InstallOK(First) /\ BehindOK(p) /\ AloneOK(p)
         /\ db[First] \in InstallType
         /\ db[First].table # Absent => db[First].table \in TableType
BY Here, PlaceOf, PivotFacts, InstallTyped DEF MigrationInv, ProcessOK, BehindOK, here

LEMMA CreateSubjectRoleKeeps ==
  ASSUME MigrationInv, NEW p \in Process, CreateSubjectRole(p)
  PROVE  MigrationInv'
<1> DEFINE s == IF dialect = "pg" THEN "addSource" ELSE "hasSource"
<1>1. /\ pc[p] = "createRole" /\ db' = Create(First) /\ Goto(p, s)
      /\ UNCHANGED <<at, saw>> /\ Same /\ pc[p] \in Late \ {"ready"}
  BY DEF CreateSubjectRole, First, Late
<1>2. Done(First) /\ First \in Pivot
  BY <1>1, LateFacts
<1>3. Advances /\ db'[First].table # Absent
  BY <1>1, <1>2, CreatedTable, SameKnown
<1>4. s \in Late /\ s \in {"addSource", "hasSource"} /\ (s = "addSource" => dialect # "sqlite")
  BY DEF Late
<1> HIDE DEF s
<1> QED
  BY <1>1, <1>3, <1>4, GoesOnLate

LEMMA HasSourceKeeps ==
  ASSUME MigrationInv, NEW p \in Process, HasSource(p)
  PROVE  MigrationInv'
<1>1. /\ pc[p] = "hasSource" /\ UNCHANGED <<db, at, saw>> /\ Same /\ pc[p] \in Late \ {"ready"}
      /\ Goto(p, IF here(p).table.source THEN "createPermission" ELSE "addSource")
  BY DEF HasSource, Look, Late
<1>2. here(p) = db[First] /\ db[First].table # Absent
  BY <1>1, LateFacts DEF BehindOK
<1>3. Advances
  BY <1>1, NoneChanges, SameKnown
<1>4. CASE db[First].table.source
  BY <1>1, <1>2, <1>3, <1>4, GoesOnLate DEF Late
<1>5. CASE ~db[First].table.source
  BY <1>1, <1>2, <1>3, <1>5, GoesOnLate DEF Late
<1> QED
  BY <1>4, <1>5

LEMMA AddSourceKeeps ==
  ASSUME MigrationInv, NEW p \in Process, AddSource(p)
  PROVE  MigrationInv'
<1> DEFINE u == [db[First].table EXCEPT !.source = TRUE]
<1>1. /\ pc[p] = "addSource" /\ UNCHANGED <<at, saw>> /\ Same /\ pc[p] \in Late \ {"ready"}
      /\ db' = [db EXCEPT ![pivot(p)].table.source = TRUE]
      /\ Goto(p, IF here(p).table.source /\ dialect = "sqlite" THEN "failed"
                 ELSE "createPermission")
  BY DEF AddSource, Late
<1>2. /\ pivot(p) = First /\ here(p) = db[First] /\ db[First].table # Absent
      /\ First \in Pivot /\ InstallOK(First) /\ AloneOK(p)
      /\ db[First] \in InstallType /\ db[First].table \in TableType
  BY <1>1, LateFacts DEF BehindOK
<1>3. /\ u \in TableType /\ u.source = TRUE /\ u.rows = db[First].table.rows
      /\ u.type = db[First].table.type /\ u.id = db[First].table.id
  BY <1>2 DEF TableType
<1>4. Becomes(First, [db[First] EXCEPT !.table = u])
  BY <1>1, <1>2 DEF Becomes, MigrationInv, DbTyped, InstallType
<1> HIDE DEF u
<1>5. u.id = "subject" => u.type = "subject"
  BY <1>2, <1>3 DEF InstallOK
<1>6. Advances /\ db'[First].table = u /\ u # Absent
  BY <1>1, <1>2, <1>3, <1>4, <1>5, ChangedColumns, SameKnown, MigrationAssumption
<1>7. CASE db[First].table.source /\ dialect = "sqlite"
  <2>1. p \in overlapped
    BY <1>1, <1>2, <1>7 DEF AloneOK
  <2> QED
    BY <1>1, <1>2, <1>6, <1>7, <2>1, GoesOnLate DEF Late
<1>8. CASE ~(db[First].table.source /\ dialect = "sqlite")
  BY <1>1, <1>2, <1>3, <1>6, <1>8, GoesOnLate DEF Late
<1> QED
  BY <1>7, <1>8

LEMMA CreateSubjectPermissionKeeps ==
  ASSUME MigrationInv, NEW p \in Process, CreateSubjectPermission(p)
  PROVE  MigrationInv'
<1>1. /\ pc[p] = "createPermission" /\ db' = Create(Second) /\ Goto(p, "ready")
      /\ UNCHANGED <<at, saw>> /\ Same /\ pc[p] \in Late \ {"ready"}
  BY DEF CreateSubjectPermission, Second, Late
<1>2. /\ Done(Second) /\ Second \in Pivot /\ First \in Pivot \ {Second}
      /\ db[First].table # Absent /\ db[First].table.source
  BY <1>1, LateFacts DEF BehindOK, Late
<1>3. Advances /\ db'[Second].table # Absent /\ db'[First] = db[First]
  BY <1>1, <1>2, CreatedTable, SameKnown
<1> QED
  BY <1>1, <1>2, <1>3, GoesOnLate DEF Late

-----------------------------------------------------------------------------
(* Boots, crashes and calls. *)

LEMMA BootKeeps ==
  ASSUME MigrationInv, NEW p \in Process, Boot(p)
  PROVE  MigrationInv'
<1> DEFINE others == {q \in Process \ {p} : Booting(q)}
<1>1. /\ pc[p] = "down" /\ Goto(p, "hasLegacy") /\ at' = [at EXCEPT ![p] = 1]
      /\ overlapped' = IF others = {} THEN overlapped \ {p} ELSE overlapped \cup others \cup {p}
      /\ UNCHANGED <<dialect, db, saw, crashes, writes, revoked, settled, old, cleared>>
  BY DEF Boot
<1>2. /\ PcTyped' /\ pc'[p] = "hasLegacy" /\ at'[p] = 1
      /\ \A q \in Process \ {p} : pc'[q] = pc[q] /\ at'[q] = at[q] /\ saw'[q] = saw[q]
  BY <1>1 DEF MigrationInv, PcTyped, Goto, Migrating
<1>3. Advances
  BY <1>1, NoneChanges DEF Known
<1>4. RestTyped'
  BY <1>1 DEF MigrationInv, RestTyped
<1>5. Overlaps'
  <2> SUFFICES ASSUME NEW q \in Process, NEW r \in Process, q # r, Booting(q)', Booting(r)'
               PROVE  q \in overlapped'
    BY DEF Overlaps
  <2>1. CASE q = p
    <3>1. r \in others
      BY <1>2, <2>1 DEF Booting
    <3> QED
      BY <1>1, <2>1, <3>1
  <2>2. CASE q # p /\ r = p
    <3>1. q \in others
      BY <1>2, <2>2 DEF Booting
    <3> QED
      BY <1>1, <3>1
  <2>3. CASE q # p /\ r # p
    <3>1. q \in others
      BY <1>2, <2>3 DEF Booting
    <3> QED
      BY <1>1, <3>1
  <2> QED
    BY <2>1, <2>2, <2>3
<1>6. ASSUME NEW q \in Process \ {p} PROVE ProcessOK(q)'
  <2>1. q \in overlapped => q \in overlapped'
    BY <1>1
  <2>2. Undisturbed(q)
    BY <1>1 DEF Undisturbed
  <2> QED
    BY <1>1, <1>2, <1>3, <2>1, <2>2, OthersKeep
<1>7. ProcessOK(p)'
  BY <1>2 DEF ProcessOK, SawOK, StageOK, BehindOK, AloneOK, Seen, Sorted, Renaming, Columns,
              Copying, Late
<1> QED
  BY <1>2, <1>3, <1>4, <1>5, <1>6, <1>7 DEF MigrationInv, Advances

LEMMA CrashKeeps ==
  ASSUME MigrationInv, NEW p \in Process, Crash(p)
  PROVE  MigrationInv'
<1>1. /\ Goto(p, "down") /\ crashes < MaxCrashes /\ crashes' = crashes + 1
      /\ UNCHANGED <<dialect, db, at, saw, writes, revoked, settled, old, overlapped, cleared>>
  BY DEF Crash, history
<1>2. /\ PcTyped' /\ pc'[p] = "down"
      /\ \A q \in Process \ {p} : pc'[q] = pc[q] /\ at'[q] = at[q] /\ saw'[q] = saw[q]
  BY <1>1, Went DEF MigrationInv, Labels
<1>3. Advances
  BY <1>1, NoneChanges DEF Known
<1>4. RestTyped'
  BY <1>1, MigrationAssumption DEF MigrationInv, RestTyped
<1>5. Overlaps'
  BY <1>1, <1>2 DEF MigrationInv, Overlaps, Booting
<1>6. ASSUME NEW q \in Process \ {p} PROVE ProcessOK(q)'
  <2>1. Undisturbed(q)
    BY <1>1 DEF Undisturbed
  <2> QED
    BY <1>1, <1>2, <1>3, <2>1, OthersKeep
<1>7. ProcessOK(p)'
  BY <1>2 DEF ProcessOK, SawOK, StageOK, BehindOK, AloneOK, Migrating, Seen, Sorted, Renaming,
              Columns, Copying, Late
<1> QED
  BY <1>2, <1>3, <1>4, <1>5, <1>6, <1>7 DEF MigrationInv, Advances

(* Once a boot has ended the old tables are gone. *)
LEMMA ReadyDone ==
  ASSUME MigrationInv, NEW p \in Process, pc[p] = "ready", NEW v \in Pivot
  PROVE  Done(v)
BY PivotFacts DEF MigrationInv, ProcessOK, BehindOK, Late

LEMMA WriteKeeps ==
  ASSUME MigrationInv, NEW v \in Pivot, NEW row \in Row, Write(v, row)
  PROVE  MigrationInv'
<1> DEFINE rows == db[v].table.rows
           lasting == \E p \in Process : pc[p] = "ready"
           more == IF row \in rows THEN rows \ {row} ELSE rows \cup {row}
           gone == IF row \in rows THEN revoked[v] \cup {row} ELSE revoked[v] \ {row}
           forGood == IF row \in rows THEN IF lasting THEN settled[v] \cup {row} ELSE settled[v]
                      ELSE settled[v] \ {row}
<1>1. /\ writes < MaxWrites /\ writes' = writes + 1
      /\ UNCHANGED <<dialect, pc, at, saw, crashes, old, overlapped, cleared>>
      /\ db[v].table # Absent /\ db[v] \in InstallType /\ db[v].table \in TableType
      /\ InstallOK(v) /\ rows \in SUBSET Row
      /\ revoked \in [Pivot -> SUBSET Row] /\ settled \in [Pivot -> SUBSET Row]
  BY InstallTyped DEF Write, history, MigrationInv, RestTyped, TableType
<1>2. /\ db' = [db EXCEPT ![v].table.rows = more]
      /\ revoked' = [revoked EXCEPT ![v] = gone] /\ settled' = [settled EXCEPT ![v] = forGood]
  <2> HIDE DEF lasting
  <2>1. CASE row \in rows
    BY <2>1 DEF Write, lasting
  <2>2. CASE row \notin rows
    BY <2>2 DEF Write
  <2> QED
    BY <2>1, <2>2
<1>3. /\ more \in SUBSET Row /\ gone \in SUBSET Row /\ forGood \in SUBSET Row
      /\ rows \cup revoked[v] \subseteq more \cup gone
      /\ forGood \cap more = {} /\ forGood \subseteq gone
      /\ forGood # {} => db[v].legacy = Absent
  <2>1. settled[v] \cap rows = {} /\ settled[v] \subseteq revoked[v]
    BY <1>1 DEF InstallOK, Rows
  <2>2. settled[v] # {} \/ lasting => db[v].legacy = Absent
    BY <1>1, ReadyDone DEF InstallOK, Done
  <2> HIDE DEF rows, lasting
  <2>3. revoked[v] \in SUBSET Row /\ settled[v] \in SUBSET Row
    BY <1>1
  <2>4. CASE row \in rows
    BY <1>1, <2>1, <2>2, <2>3, <2>4
  <2>5. CASE row \notin rows
    BY <1>1, <2>1, <2>2, <2>3, <2>5
  <2> QED
    BY <2>4, <2>5
<1> HIDE DEF more, gone, forGood
<1>4. /\ revoked' \in [Pivot -> SUBSET Row] /\ settled' \in [Pivot -> SUBSET Row]
      /\ revoked'[v] = gone /\ settled'[v] = forGood
      /\ \A w \in Pivot \ {v} : revoked'[w] = revoked[w] /\ settled'[w] = settled[w]
  BY <1>1, <1>2, <1>3
<1> DEFINE u == [db[v].table EXCEPT !.rows = more]
           i == [db[v] EXCEPT !.table = u]
<1>5. /\ u \in TableType /\ u.rows = more /\ u.type = db[v].table.type
      /\ u.id = db[v].table.id /\ u.source = db[v].table.source
  BY <1>1, <1>3 DEF TableType
<1>6. Becomes(v, i)
  BY <1>1, <1>2 DEF Becomes, MigrationInv, DbTyped, InstallType
<1> HIDE DEF u
<1>7. /\ i \in InstallType /\ i.table = u /\ i.legacy = db[v].legacy
      /\ i.backup = db[v].backup /\ u # Absent
  BY <1>1, <1>5, MigrationAssumption DEF InstallType
<1> HIDE DEF i
<1>8. DbTyped' /\ db'[v] = i /\ \A w \in Pivot \ {v} : db'[w] = db[w]
  BY <1>1, <1>6, <1>7 DEF Becomes, MigrationInv, DbTyped
<1>9. Rows(i.table) = more /\ Rows(db[v].table) = rows
  BY <1>1, <1>5, <1>7 DEF Rows
<1>10. Carried(v) => Carried(v)'
  BY <1>1, <1>3, <1>4, <1>8, <1>9 DEF Carried
<1>11. Forward(v)
  BY <1>1, <1>5, <1>7, <1>8, <1>10 DEF Forward
<1>12. InstallOK(v)'
  BY <1>1, <1>3, <1>4, <1>5, <1>7, <1>8, <1>9, <1>10 DEF InstallOK
<1>13. ASSUME NEW w \in Pivot \ {v} PROVE Forward(w) /\ InstallOK(w)'
  <2>1. InstallOK(w)
    BY DEF MigrationInv
  <2>2. Carried(w)' <=> Carried(w)
    BY <1>1, <1>4, <1>8 DEF Carried
  <2>3. Forward(w)
    BY <1>8, <2>2 DEF Forward
  <2>4. InstallOK(w)'
    BY <1>1, <1>4, <1>8, <2>1, <2>2 DEF InstallOK
  <2> QED
    BY <2>3, <2>4
<1>14. Advances
  BY <1>8, <1>11, <1>12, <1>13 DEF Advances
<1>15. ASSUME NEW q \in Process PROVE ProcessOK(q)'
  <2>1. Undisturbed(q)
    BY <1>5, <1>7, <1>8 DEF Undisturbed
  <2> QED
    BY <1>1, <1>14, <2>1, OthersKeep
<1>16. PcTyped' /\ RestTyped' /\ Overlaps'
  BY <1>1, <1>4, MigrationAssumption DEF MigrationInv, PcTyped, RestTyped, Overlaps, Booting
<1> QED
  BY <1>14, <1>15, <1>16 DEF MigrationInv, Advances

-----------------------------------------------------------------------------
(* The whole. *)

(* An install as an earlier version left it. *)
LEMMA InstallStarts ==
  ASSUME NEW start \in Starts, NEW i \in Installs(start)
  PROVE  /\ i \in InstallType
         /\ i.legacy = Absent \/ i.legacy = Legacy(Row)
         /\ i.table = Absent \/ i.table = Legacy(Row)
              \/ (i.table.type = "subject" /\ i.table.id = "subject" /\ i.legacy # Absent)
         /\ i.table = Legacy(Row) => i.legacy = Absent
         /\ i.backup # Absent => i.legacy # Absent
<1>1. /\ \A rows \in SUBSET Row, s \in BOOLEAN :
           /\ Legacy(rows) \in TableType /\ Current(rows, s) \in TableType
           /\ Current(rows, s).type = "subject" /\ Current(rows, s).id = "subject"
           /\ Legacy(rows).type = "user"
  BY DEF Legacy, Current, Table, TableType
<1>2. \A x \in TableType : x # Absent
  BY MigrationAssumption
<1>3. CASE start = "fresh"
  <2>1. i = [legacy |-> Absent, table |-> Absent, backup |-> Absent]
    BY <1>3 DEF Installs
  <2> QED
    BY <1>1, <1>2, <2>1 DEF InstallType
<1>4. CASE start = "legacy"
  <2>1. i = [legacy |-> Legacy(Row), table |-> Absent, backup |-> Absent]
    BY <1>4 DEF Installs
  <2> QED
    BY <1>1, <1>2, <2>1 DEF InstallType
<1>5. CASE start = "named"
  <2>1. i = [legacy |-> Absent, table |-> Legacy(Row), backup |-> Absent]
    BY <1>5 DEF Installs
  <2> QED
    BY <1>1, <1>2, <2>1 DEF InstallType
<1>6. CASE start = "both"
  <2>1. PICK rows \in SUBSET Row, s \in BOOLEAN :
          i = [legacy |-> Legacy(Row), table |-> Current(rows, s), backup |-> Absent]
    BY <1>6 DEF Installs
  <2> QED
    BY <1>1, <1>2, <2>1 DEF InstallType
<1>7. CASE start = "undone"
  <2>1. i = [legacy |-> Legacy(Row), table |-> Current({}, TRUE),
              backup |-> Legacy({})]
    <3>1. Installs(start) = {[legacy |-> Legacy(Row), table |-> Current({}, TRUE),
                              backup |-> Legacy({})]}
      BY <1>7 DEF Installs
    <3> QED
      BY <3>1
  <2> QED
    BY <1>1, <1>2, <2>1 DEF InstallType
<1> QED
  BY <1>3, <1>4, <1>5, <1>6, <1>7, MigrationAssumption

LEMMA MigrationInit == Init => MigrationInv
<1> SUFFICES ASSUME Init PROVE MigrationInv
  OBVIOUS
<1>1. PICK start \in Starts : \E install \in Installs(start) :
        /\ db = [v \in Pivot |-> install]
        /\ old = [v \in Pivot |->
                     Rows(IF install.legacy # Absent THEN install.legacy ELSE install.table)]
        /\ cleared = (install.backup = Absent)
  BY DEF Init
<1>2. PICK i \in Installs(start) :
        /\ db = [v \in Pivot |-> i]
        /\ old = [v \in Pivot |-> Rows(IF i.legacy # Absent THEN i.legacy ELSE i.table)]
        /\ cleared = (i.backup = Absent)
  BY <1>1
<1>3. /\ i \in InstallType
      /\ i.legacy = Absent \/ i.legacy = Legacy(Row)
      /\ i.table = Absent \/ i.table = Legacy(Row)
           \/ (i.table.type = "subject" /\ i.table.id = "subject" /\ i.legacy # Absent)
      /\ i.table = Legacy(Row) => i.legacy = Absent
      /\ i.backup # Absent => i.legacy # Absent
  BY InstallStarts
<1>4. Legacy(Row).rows = Row /\ Legacy(Row).id = "user" /\ Legacy(Row) \in TableType
  BY DEF Legacy, Table, TableType
<1>5. /\ i.table # Absent => i.table \in TableType
      /\ i.legacy # Absent => i.legacy = Legacy(Row)
  BY <1>3 DEF InstallType
<1>6. ASSUME NEW v \in Pivot
      PROVE  /\ db[v] = i /\ old[v] \in SUBSET Row
             /\ i.legacy # Absent => old[v] = Row
             /\ i.legacy = Absent => old[v] = Rows(i.table)
  <2>1. db[v] = i /\ old[v] = Rows(IF i.legacy # Absent THEN i.legacy ELSE i.table)
    BY <1>2
  <2>2. Rows(Legacy(Row)) = Row
    BY <1>4, MigrationAssumption DEF Rows
  <2>3. Rows(i.table) \in SUBSET Row
    BY <1>5 DEF Rows, TableType
  <2> QED
    BY <1>5, <2>1, <2>2, <2>3
<1>7. DbTyped
  BY <1>2, <1>3, <1>6 DEF DbTyped
<1>8. PcTyped /\ RestTyped
  BY <1>2, MigrationAssumption DEF Init, PcTyped, RestTyped
<1>9. ASSUME NEW v \in Pivot PROVE InstallOK(v)
  <2>1. revoked[v] = {} /\ settled[v] = {}
    BY DEF Init
  <2>2. i.legacy # Absent => i.legacy = Legacy(old[v])
    BY <1>5, <1>6
  <2>3. i.legacy = Absent => Carried(v)
    BY <1>6 DEF Carried
  <2>4. i.table # Absent /\ i.table.id = "subject" => i.table.type = "subject"
    BY <1>3, <1>4
  <2>5. cleared => i.backup = Absent
    BY <1>2
  <2> QED
    BY <1>6, <2>1, <2>2, <2>3, <2>4, <2>5 DEF InstallOK
<1>10. ASSUME NEW p \in Process PROVE ProcessOK(p) /\ ~Booting(p)
  <2>1. pc[p] = "down"
    BY DEF Init
  <2> QED
    BY <2>1 DEF ProcessOK, SawOK, StageOK, BehindOK, AloneOK, Booting, Migrating, Seen, Sorted,
                Renaming, Columns, Copying, Late
<1> QED
  BY <1>7, <1>8, <1>9, <1>10 DEF MigrationInv, Overlaps

LEMMA MigrationStep == MigrationInv /\ [Next]_vars => MigrationInv'
<1> SUFFICES ASSUME MigrationInv, [Next]_vars PROVE MigrationInv'
  OBVIOUS
<1>1. ASSUME NEW p \in Process, Boot(p) PROVE MigrationInv'
  BY <1>1, BootKeeps
<1>2. ASSUME NEW p \in Process, Statement(p) PROVE MigrationInv'
  <2>1. CASE RenameColumns(p)
    <3>1. pc[p] \in {"userType", "userType done?", "userId", "userId done?"}
      BY <2>1 DEF RenameColumns, Step, Recheck, Look, AfterError
    <3> QED
      BY <2>1, <3>1, RenameTypeKeeps, RenameIdKeeps
  <2> QED
    BY <1>2, <2>1, HasLegacyKeeps, HasTableKeeps, RenameLegacyKeeps, HasUserIdKeeps, CopyRowsKeeps,
       RenameToBackupKeeps, NextPivotKeeps, CreateSubjectRoleKeeps, HasSourceKeeps, AddSourceKeeps,
       CreateSubjectPermissionKeeps
    DEF Statement
<1>3. ASSUME NEW p \in Process, Crash(p) PROVE MigrationInv'
  BY <1>3, CrashKeeps
<1>4. ASSUME NEW v \in Pivot, NEW row \in Row, Write(v, row) PROVE MigrationInv'
  BY <1>4, WriteKeeps
<1>5. CASE UNCHANGED vars
  <2>1. /\ UNCHANGED <<dialect, db, pc, at, saw, crashes, writes, revoked, settled, old,
                       overlapped, cleared>>
    BY <1>5 DEF vars, history
  <2>2. Advances
    BY <2>1, NoneChanges DEF Known
  <2>3. ASSUME NEW q \in Process PROVE ProcessOK(q)'
    BY <2>1, <2>2, OthersKeep DEF Undisturbed
  <2> QED
    BY <2>1, <2>2, <2>3 DEF MigrationInv, Advances, PcTyped, RestTyped, Overlaps, Booting
<1> QED
  BY <1>1, <1>2, <1>3, <1>4, <1>5 DEF Next

LEMMA MigrationAlways == Spec => []MigrationInv
BY MigrationInit, MigrationStep, PTL DEF Spec

(* Every table has its columns, every boot its place.                        *)
THEOREM TypeHolds == Spec => []TypeOK
<1>1. MigrationInv => TypeOK
  <2> SUFFICES ASSUME MigrationInv PROVE TypeOK
    OBVIOUS
  <2>1. ASSUME NEW v \in Pivot
        PROVE  /\ \A t \in {db[v].legacy, db[v].table, db[v].backup} : t = Absent \/ t \in TableType
               /\ old[v] \in SUBSET Row /\ settled[v] \subseteq revoked[v]
               /\ revoked[v] \in SUBSET Row
    BY DEF MigrationInv, DbTyped, InstallType, InstallOK, RestTyped
  <2> QED
    BY <2>1, PivotFacts DEF MigrationInv, PcTyped, RestTyped, TypeOK
<1> QED
  BY <1>1, MigrationAlways, PTL

(* However many processes boot at once and wherever they crash, no assignment*)
(* of the old install is lost, and each is where the store reads it once any *)
(* boot has ended.                                                           *)
THEOREM CarriedOverHolds == Spec => []CarriedOver
<1>1. MigrationInv => CarriedOver
  <2> SUFFICES ASSUME MigrationInv, NEW v \in Pivot
               PROVE  /\ old[v] \subseteq Rows(db[v].legacy) \cup Rows(db[v].table) \cup revoked[v]
                      /\ (\E p \in Process : pc[p] = "ready") =>
                           /\ old[v] \subseteq Rows(db[v].table) \cup revoked[v]
                           /\ db[v].table.type = "subject" /\ db[v].table.id = "subject"
                           /\ v = "subjectRole" => db[v].table.source
    BY DEF CarriedOver
  <2>1. InstallOK(v)
    BY DEF MigrationInv
  <2>2. old[v] \subseteq Rows(db[v].legacy) \cup Rows(db[v].table) \cup revoked[v]
    <3>1. Legacy(old[v]).rows = old[v]
      BY DEF Legacy, Table
    <3> QED
      BY <2>1, <3>1 DEF InstallOK, Carried, Rows
  <2>3. ASSUME NEW p \in Process, pc[p] = "ready"
        PROVE  /\ old[v] \subseteq Rows(db[v].table) \cup revoked[v]
               /\ db[v].table.type = "subject" /\ db[v].table.id = "subject"
               /\ v = "subjectRole" => db[v].table.source
    <3>1. /\ db[First].table # Absent /\ db[Second].table # Absent /\ db[First].table.source
      BY <2>3 DEF MigrationInv, ProcessOK, BehindOK, Late
    <3>2. Done(v) /\ db[v].table # Absent
      BY <2>3, <3>1, ReadyDone, PivotFacts
    <3> QED
      BY <2>1, <3>1, <3>2 DEF InstallOK, Carried, Done, First
  <2> QED
    BY <2>2, <2>3
<1> QED
  BY <1>1, MigrationAlways, PTL

(* What is revoked once a boot has ended no later copy brings back: the old  *)
(* table is gone by then.                                                    *)
THEOREM RevokedStays == Spec => []RevokedStaysRevoked
<1>1. MigrationInv => RevokedStaysRevoked
  BY DEF MigrationInv, InstallOK, RevokedStaysRevoked
<1> QED
  BY <1>1, MigrationAlways, PTL

(* A boot that fails met another, or the backup of an earlier upgrade.       *)
THEOREM AloneSucceeds == Spec => []AloneBootSucceeds
<1>1. MigrationInv => AloneBootSucceeds
  BY DEF MigrationInv, ProcessOK, AloneOK, AloneBootSucceeds
<1> QED
  BY <1>1, MigrationAlways, PTL

-----------------------------------------------------------------------------
(* Boots that meet: what one of them does may take from another what that   *)
(* one has seen, but it is then past that place itself.                     *)

(* What p has seen is still so. *)
Sound(p) ==
  /\ pc[p] # "failed"
  /\ pc[p] = "hasTable" /\ saw[p].legacy => here(p).legacy # Absent
  /\ pc[p] \in {"hasUserId", "copy"} \cup Columns /\ saw[p].legacy /\ saw[p].table =>
       here(p).legacy # Absent
  /\ pc[p] = "addSource" /\ dialect = "sqlite" => ~db[First].table.source

(* A step that takes nothing away. *)
Quiet ==
  \A v \in Pivot : /\ db'[v].legacy = db[v].legacy
                   /\ db[v].table # Absent => db'[v].table.source = db[v].table.source

(* Where the statements of a boot may fail. *)
MayFailAt(p) ==
  \/ pc[p] = "copy"
  \/ pc[p] = "addSource" /\ dialect = "sqlite"
  \/ pc[p] = "backup done?" /\ ~cleared

(* What a statement of p comes to. *)
Outcome(p) ==
  /\ pc'[p] = "failed" => MayFailAt(p)
  /\ cleared /\ Sound(p) => Sound(p)'
  /\ Quiet \/ Sound(p)'

(* A statement that changes no table and after which p is at s. *)
LEMMA LookOutcome ==
  ASSUME MigrationInv, NEW p \in Process, NEW s \in Labels,
         Goto(p, s), UNCHANGED <<db, at, saw>>, Same,
         s = "failed" => MayFailAt(p) /\ (cleared => ~Sound(p)),
         s # "hasTable",
         s \in {"hasUserId", "copy"} \cup Columns =>
           pc[p] \in {"hasUserId", "copy"} \cup Columns \/ ~saw[p].table,
         s = "addSource" /\ dialect = "sqlite" => ~db[First].table.source
  PROVE  Outcome(p)
<1>1. pc'[p] = s /\ pivot(p)' = pivot(p) /\ saw'[p] = saw[p] /\ UNCHANGED dialect
  BY Went, SameKnown DEF MigrationInv
<1>2. here(p)' = here(p)
  BY <1>1 DEF here
<1>3. cleared /\ Sound(p) => Sound(p)'
  BY <1>1, <1>2 DEF Sound
<1>4. Quiet
  BY DEF Quiet
<1> QED
  BY <1>1, <1>3, <1>4 DEF Outcome

LEMMA LooksOutcome ==
  ASSUME MigrationInv, NEW p \in Process, HasLegacy(p) \/ HasTable(p)
  PROVE  Outcome(p)
<1>1. UNCHANGED <<db, at, dialect>> /\ here(p)' = here(p)
  BY SameKnown DEF HasLegacy, HasTable, here, pivot
<1>2. Quiet
  BY <1>1 DEF Quiet
<1>3. CASE HasLegacy(p)
  <2>1. pc'[p] = "hasTable" /\ saw'[p].legacy = (here(p).legacy # Absent)
    BY <1>3 DEF HasLegacy, Goto, MigrationInv, PcTyped
  <2> QED
    BY <1>1, <1>2, <2>1 DEF Outcome, Sound, Columns
<1>4. CASE HasTable(p)
  <2>1. /\ pc[p] = "hasTable" /\ pc'[p] \in {"rename", "hasUserId"}
        /\ saw'[p].legacy = saw[p].legacy
    BY <1>4 DEF HasTable, Goto, MigrationInv, PcTyped
  <2> QED
    BY <1>1, <1>2, <2>1 DEF Outcome, Sound, Columns
<1> QED
  BY <1>3, <1>4

LEMMA RenameLegacyOutcome ==
  ASSUME MigrationInv, NEW p \in Process, RenameLegacy(p)
  PROVE  Outcome(p)
<1> DEFINE v == pivot(p)
<1>1. v \in Pivot /\ here(p) = db[v] /\ SawOK(p) /\ StageOK(p)
  BY Here DEF ProcessOK
<1>2. pc[p] \in Renaming /\ Same /\ UNCHANGED <<at, saw>>
  BY DEF RenameLegacy, Step, Recheck, Look, Renaming, AfterError
<1>3. ~saw[p].table
  BY <1>1, <1>2 DEF SawOK
<1>4. CASE Goto(p, "hasUserId")
  <2>1. pc'[p] = "hasUserId" /\ saw'[p] = saw[p]
    BY <1>2, <1>4, Went DEF MigrationInv, Labels, Migrating, Seen, Sorted
  <2>2. Sound(p)'
    BY <1>3, <2>1 DEF Sound, Columns
  <2> QED
    BY <2>1, <2>2 DEF Outcome
<1>5. CASE UNCHANGED db /\ Goto(p, "rename done?")
  BY <1>2, <1>5, LookOutcome DEF Labels, Migrating, Seen, Renaming, Columns
<1>6. CASE /\ pc[p] = "rename done?"
           /\ Goto(p, IF db[v].table # Absent THEN "hasUserId" ELSE "failed")
  <2>1. db[v].table # Absent
    BY <1>1, <1>6 DEF StageOK
  <2> QED
    BY <1>4, <1>6, <2>1
<1> QED
  BY <1>1, <1>4, <1>5, <1>6 DEF RenameLegacy, Step, Recheck, Look, AfterError

LEMMA HasUserIdOutcome ==
  ASSUME MigrationInv, NEW p \in Process, HasUserId(p)
  PROVE  Outcome(p)
<1>1. PICK s \in {"userType", "copy", "next"} :
        /\ pc[p] = "hasUserId" /\ Same /\ UNCHANGED <<db, at, saw>> /\ Goto(p, s)
  BY DEF HasUserId, Look, ToCopy
<1>2. s \in Labels
  BY DEF Labels, Migrating, Seen, Sorted, Columns, Copying
<1> QED
  BY <1>1, <1>2, LookOutcome

(* A column is renamed, and p goes on to s. *)
LEMMA ColumnOutcome ==
  ASSUME MigrationInv, NEW p \in Process, pc[p] \in Columns, RenameColumns(p)
  PROVE  Outcome(p)
<1> DEFINE v == pivot(p)
           t == db[v].table
<1>1. /\ v \in Pivot /\ here(p) = db[v] /\ StageOK(p)
      /\ db[v] \in InstallType /\ db \in [Pivot -> InstallType]
      /\ t # Absent => t \in TableType
  BY Here DEF ProcessOK, MigrationInv, DbTyped
<1>2. t \in TableType
  BY <1>1 DEF StageOK
<1>3. Same /\ UNCHANGED <<at, saw>>
  BY DEF RenameColumns, Step, Recheck, Look
<1>4. ToCopy(p) \in {"copy", "next"}
  BY DEF ToCopy
<1>5. ASSUME NEW s \in {"userId", "copy", "next"}, Goto(p, s),
             \A w \in Pivot : /\ db'[w].legacy = db[w].legacy
                              /\ db[w].table # Absent => db'[w].table.source = db[w].table.source
      PROVE  Outcome(p)
  <2>1. s \in Labels
    BY DEF Labels, Migrating, Seen, Sorted, Columns, Copying
  <2>2. pc'[p] = s /\ pivot(p)' = v /\ saw'[p] = saw[p] /\ UNCHANGED dialect
    BY <1>3, <1>5, <2>1, Went, SameKnown DEF MigrationInv
  <2>3. here(p)'.legacy = here(p).legacy
    BY <1>1, <1>5, <2>2 DEF here
  <2>4. Quiet
    BY <1>5 DEF Quiet
  <2>5. Sound(p) => Sound(p)'
    BY <2>2, <2>3 DEF Sound
  <2> QED
    BY <2>2, <2>4, <2>5 DEF Outcome
<1>6. CASE pc[p] = "userType" /\ Goto(p, "userId") /\ db' = [db EXCEPT ![v].table.type = "subject"]
  BY <1>1, <1>2, <1>5, <1>6 DEF InstallType, TableType
<1>7. CASE pc[p] = "userId" /\ Goto(p, ToCopy(p)) /\ db' = [db EXCEPT ![v].table.id = "subject"]
  BY <1>1, <1>2, <1>4, <1>5, <1>7 DEF InstallType, TableType
<1>8. CASE UNCHANGED db /\ Goto(p, "userType done?")
  BY <1>3, <1>8, LookOutcome DEF Labels, Migrating, Seen, Sorted, Columns
<1>9. CASE UNCHANGED db /\ Goto(p, "userId done?")
  BY <1>3, <1>9, LookOutcome DEF Labels, Migrating, Seen, Sorted, Columns
<1>10. CASE /\ pc[p] = "userType done?" /\ UNCHANGED db
            /\ Goto(p, IF t.type = "subject" THEN "userId" ELSE "failed")
  <2>1. t.type = "subject"
    BY <1>1, <1>10 DEF StageOK, Columns
  <2> QED
    BY <1>5, <1>10, <2>1
<1>11. CASE /\ pc[p] = "userId done?" /\ UNCHANGED db
            /\ Goto(p, IF t.id = "subject" THEN ToCopy(p) ELSE "failed")
  <2>1. t.id = "subject"
    BY <1>1, <1>11 DEF StageOK
  <2> QED
    BY <1>4, <1>5, <1>11, <2>1
<1> QED
  BY <1>1, <1>6, <1>7, <1>8, <1>9, <1>10, <1>11
  DEF RenameColumns, Renamed, Step, Recheck, Look, AfterError

LEMMA CopyRowsOutcome ==
  ASSUME MigrationInv, NEW p \in Process, CopyRows(p)
  PROVE  Outcome(p)
<1> DEFINE v == pivot(p)
<1>1. /\ v \in Pivot /\ here(p) = db[v] /\ SawOK(p)
      /\ db[v] \in InstallType /\ db \in [Pivot -> InstallType]
      /\ db[v].table # Absent => db[v].table \in TableType
      /\ pc[p] = "copy" /\ Same /\ UNCHANGED <<at, saw>>
  BY Here DEF ProcessOK, MigrationInv, DbTyped, CopyRows
<1>2. saw[p].legacy /\ saw[p].table /\ db[v].table \in TableType
  BY <1>1 DEF SawOK, Copying, Seen, Sorted
<1>3. CASE db[v].legacy = Absent /\ UNCHANGED db /\ Goto(p, "failed")
  <2>1. MayFailAt(p) /\ ~Sound(p)
    BY <1>1, <1>2, <1>3 DEF MayFailAt, Sound
  <2> QED
    BY <1>1, <1>3, <2>1, LookOutcome DEF Labels, Columns
<1>4. CASE Goto(p, "backup") /\ db' = [db EXCEPT ![v].table.rows = @ \cup db[v].legacy.rows]
  <2>1. Quiet
    BY <1>1, <1>2, <1>4 DEF Quiet, InstallType, TableType
  <2>2. pc'[p] = "backup"
    BY <1>1, <1>4 DEF Goto, MigrationInv, PcTyped
  <2>3. Sound(p)'
    BY <2>2 DEF Sound, Columns
  <2> QED
    BY <2>1, <2>2, <2>3 DEF Outcome
<1> QED
  BY <1>1, <1>3, <1>4 DEF CopyRows

LEMMA RenameToBackupOutcome ==
  ASSUME MigrationInv, NEW p \in Process, RenameToBackup(p)
  PROVE  Outcome(p)
<1> DEFINE v == pivot(p)
<1>1. here(p) = db[v] /\ StageOK(p) /\ Same /\ UNCHANGED <<at, saw>>
  BY Here DEF ProcessOK, RenameToBackup, Step, Recheck, Look
<1>2. CASE Goto(p, "next")
  <2>1. pc'[p] = "next"
    BY <1>2 DEF Goto, MigrationInv, PcTyped
  <2> QED
    BY <2>1 DEF Outcome, Sound, Columns
<1>3. CASE UNCHANGED db /\ Goto(p, "backup done?")
  BY <1>1, <1>3, LookOutcome DEF Labels, Migrating, Seen, Sorted, Copying, Columns
<1>4. CASE /\ pc[p] = "backup done?" /\ UNCHANGED db
           /\ Goto(p, IF db[v].legacy = Absent THEN "next" ELSE "failed")
  <2>1. CASE db[v].legacy = Absent
    BY <1>2, <1>4, <2>1
  <2>2. CASE db[v].legacy # Absent
    <3>1. ~cleared /\ MayFailAt(p)
      BY <1>1, <1>4, <2>2 DEF StageOK, MayFailAt
    <3> QED
      BY <1>1, <1>4, <2>2, <3>1, LookOutcome DEF Labels, Columns
  <2> QED
    BY <2>1, <2>2
<1> QED
  BY <1>1, <1>2, <1>3, <1>4 DEF RenameToBackup, Step, Recheck, Look, AfterError

LEMMA NextPivotOutcome ==
  ASSUME MigrationInv, NEW p \in Process, NextPivot(p)
  PROVE  Outcome(p)
<1>1. pc'[p] \in {"hasLegacy", "createRole"}
  BY DEF NextPivot, Goto, MigrationInv, PcTyped
<1> QED
  BY <1>1 DEF Outcome, Sound, Columns

LEMMA CreatesOutcome ==
  ASSUME MigrationInv, NEW p \in Process, CreateSubjectRole(p) \/ CreateSubjectPermission(p)
  PROVE  Outcome(p)
<1>1. /\ pc'[p] \in {"addSource", "hasSource", "ready"} /\ UNCHANGED dialect
      /\ pc'[p] = "addSource" => dialect # "sqlite"
  BY SameKnown DEF CreateSubjectRole, CreateSubjectPermission, Goto, MigrationInv, PcTyped
<1> QED
  BY <1>1 DEF Outcome, Sound, Columns

LEMMA SourceOutcome ==
  ASSUME MigrationInv, NEW p \in Process, HasSource(p) \/ AddSource(p)
  PROVE  Outcome(p)
<1>1. /\ pc[p] \in Late /\ pivot(p) = First /\ here(p) = db[First] /\ Same
      /\ UNCHANGED <<at, saw>>
  BY LateFacts DEF HasSource, AddSource, Look, Late
<1>2. CASE HasSource(p)
  <2>1. PICK s \in {"createPermission", "addSource"} :
          /\ Goto(p, s) /\ UNCHANGED db
          /\ s = "addSource" => ~db[First].table.source
    BY <1>1, <1>2 DEF HasSource, Look
  <2> QED
    BY <1>1, <2>1, LookOutcome DEF Labels, Late, Columns
<1>3. CASE AddSource(p) /\ db[First].table.source /\ dialect = "sqlite"
  <2>1. /\ db \in [Pivot -> InstallType] /\ First \in Pivot /\ db[First] \in InstallType
        /\ db[First].table \in TableType
    BY <1>1, <1>3, LateFacts DEF MigrationInv, DbTyped, BehindOK, AddSource
  <2>2. db' = [db EXCEPT ![First].table.source = TRUE] /\ pc'[p] = "failed" /\ pc[p] = "addSource"
    BY <1>1, <1>3 DEF AddSource, Goto, MigrationInv, PcTyped
  <2>3. Quiet
    BY <1>3, <2>1, <2>2 DEF Quiet, InstallType, TableType
  <2>4. MayFailAt(p) /\ ~Sound(p)
    BY <1>3, <2>2 DEF MayFailAt, Sound
  <2> QED
    BY <2>3, <2>4 DEF Outcome
<1>4. CASE AddSource(p) /\ ~(db[First].table.source /\ dialect = "sqlite")
  <2>1. pc'[p] = "createPermission"
    BY <1>1, <1>4 DEF AddSource, Goto, MigrationInv, PcTyped
  <2> QED
    BY <2>1 DEF Outcome, Sound, Columns
<1> QED
  BY <1>2, <1>3, <1>4

LEMMA StatementOutcome ==
  ASSUME MigrationInv, NEW p \in Process, Statement(p)
  PROVE  Outcome(p)
<1>1. CASE RenameColumns(p)
  <2>1. pc[p] \in Columns
    BY <1>1 DEF RenameColumns, Step, Recheck, Look, AfterError, Columns
  <2> QED
    BY <1>1, <2>1, ColumnOutcome
<1> QED
  BY <1>1, LooksOutcome, RenameLegacyOutcome, HasUserIdOutcome, CopyRowsOutcome,
     RenameToBackupOutcome, NextPivotOutcome, CreatesOutcome, SourceOutcome
  DEF Statement

(* The other processes stay where they are. *)
LEMMA OthersStay ==
  ASSUME MigrationInv, NEW p \in Process, Statement(p)
  PROVE  /\ \A q \in Process \ {p} : pc'[q] = pc[q] /\ at'[q] = at[q] /\ saw'[q] = saw[q]
         /\ UNCHANGED <<dialect, cleared>>
<1>1. /\ \A q \in Process \ {p} : pc'[q] = pc[q]
      /\ UNCHANGED <<dialect, cleared>>
  BY SameKnown DEF MigrationInv, PcTyped, Statement, HasLegacy, HasTable, RenameLegacy, HasUserId,
     RenameColumns, CopyRows, RenameToBackup, NextPivot, CreateSubjectRole, HasSource, AddSource,
     CreateSubjectPermission, Step, Recheck, Look, Goto
<1>2. \A q \in Process \ {p} : at'[q] = at[q]
  BY DEF MigrationInv, PcTyped, Statement, HasLegacy, HasTable, RenameLegacy, HasUserId,
     RenameColumns, CopyRows, RenameToBackup, NextPivot, CreateSubjectRole, HasSource, AddSource,
     CreateSubjectPermission, Step, Recheck, Look
<1>3. \A q \in Process \ {p} : saw'[q] = saw[q]
  BY DEF MigrationInv, PcTyped, Statement, HasLegacy, HasTable, RenameLegacy, HasUserId,
     RenameColumns, CopyRows, RenameToBackup, NextPivot, CreateSubjectRole, HasSource, AddSource,
     CreateSubjectPermission, Step, Recheck, Look
<1> QED
  BY <1>1, <1>2, <1>3

LEMMA QuietKeepsSound ==
  ASSUME MigrationInv, NEW q \in Process, Quiet, UNCHANGED dialect, Sound(q),
         pc'[q] = pc[q], at'[q] = at[q], saw'[q] = saw[q]
  PROVE  Sound(q)'
<1>1. pivot(q) \in Pivot /\ pivot(q)' = pivot(q) /\ First \in Pivot
  BY Here, PivotFacts DEF pivot
<1>2. here(q)'.legacy = here(q).legacy
  BY <1>1 DEF here, Quiet
<1>3. pc[q] = "addSource" => db'[First].table.source = db[First].table.source
  BY <1>1, LateFacts DEF BehindOK, Late, Quiet
<1> QED
  BY <1>2, <1>3 DEF Sound

(* One process has seen nothing that is no longer so. *)
SomeSound == cleared => \E p \in Process : Sound(p)

LEMMA SoundStep == MigrationInv /\ SomeSound /\ [Next]_vars => SomeSound'
<1> SUFFICES ASSUME MigrationInv, SomeSound, [Next]_vars, cleared'
             PROVE  \E p \in Process : Sound(p)'
  BY DEF SomeSound
<1>1. CASE \E p \in Process : Boot(p) \/ Crash(p)
  <2>1. PICK p \in Process : Boot(p) \/ Crash(p)
    BY <1>1
  <2>2. pc'[p] \in {"hasLegacy", "down"}
    BY <2>1 DEF Boot, Crash, Goto, MigrationInv, PcTyped
  <2> QED
    BY <2>2 DEF Sound, Columns
<1>2. CASE \E p \in Process : Statement(p)
  <2>1. PICK p \in Process : Statement(p)
    BY <1>2
  <2>2. /\ \A q \in Process \ {p} : pc'[q] = pc[q] /\ at'[q] = at[q] /\ saw'[q] = saw[q]
        /\ UNCHANGED <<dialect, cleared>>
    BY <2>1, OthersStay
  <2>3. PICK q \in Process : Sound(q)
    BY <2>2 DEF SomeSound
  <2>4. CASE Sound(p) \/ ~Quiet
    BY <2>1, <2>2, <2>4, StatementOutcome DEF Outcome
  <2>5. CASE ~Sound(p) /\ Quiet
    BY <2>2, <2>3, <2>5, QuietKeepsSound
  <2> QED
    BY <2>4, <2>5
<1>3. CASE UNCHANGED vars \/ \E v \in Pivot, row \in Row : Write(v, row)
  <2>1. /\ Quiet /\ UNCHANGED <<dialect, cleared, pc, at, saw>>
    <3>1. CASE UNCHANGED vars
      BY <3>1 DEF vars, history, Quiet
    <3>2. CASE \E v \in Pivot, row \in Row : Write(v, row)
      <4>1. PICK v \in Pivot, row \in Row : Write(v, row)
        BY <3>2
      <4>2. PICK more : db' = [db EXCEPT ![v].table.rows = more]
        BY <4>1 DEF Write
      <4>3. db \in [Pivot -> InstallType] /\ db[v] \in InstallType /\ db[v].table \in TableType
        BY <4>1, InstallTyped DEF MigrationInv, DbTyped, Write
      <4>4. Quiet
        BY <4>2, <4>3 DEF Quiet, InstallType, TableType
      <4> QED
        BY <4>1, <4>4 DEF Write, history
    <3> QED
      BY <1>3, <3>1, <3>2
  <2>2. PICK q \in Process : Sound(q)
    BY <2>1 DEF SomeSound
  <2> QED
    BY <2>1, <2>2, QuietKeepsSound
<1> QED
  BY <1>1, <1>2, <1>3 DEF Next

(* However many boots meet and wherever they crash, they never all make each *)
(* other fail: the one that did last what disturbed another goes on.         *)
THEOREM OneAlwaysGetsThrough == Spec => []OneGetsThrough
<1>1. Init => SomeSound
  <2> SUFFICES ASSUME Init PROVE \E p \in Process : Sound(p)
    BY DEF SomeSound
  <2>1. PICK p \in Process : pc[p] = "down"
    BY MigrationAssumption DEF Init
  <2> QED
    BY <2>1 DEF Sound, Columns
<1>2. SomeSound => OneGetsThrough
  BY DEF SomeSound, OneGetsThrough, Sound
<1> QED
  BY <1>1, <1>2, MigrationAlways, SoundStep, PTL DEF Spec

(* No statement wrapped in step() ends a boot: what it looks for after an    *)
(* error is there, unless an earlier upgrade's backup has its name.          *)
THEOREM WrappedTolerate == Spec => WrappedStepsTolerate
<1>1. MigrationInv /\ [Next]_vars =>
        [\A p \in Process : pc[p] # "failed" /\ pc'[p] = "failed" =>
           \/ pc[p] = "copy"
           \/ pc[p] = "addSource" /\ dialect = "sqlite"
           \/ pc[p] = "backup done?" /\ ~cleared]_vars
  <2> SUFFICES ASSUME MigrationInv, Next,
                      NEW p \in Process, pc[p] # "failed", pc'[p] = "failed"
               PROVE  MayFailAt(p)
    BY DEF MayFailAt
  <2>1. ASSUME NEW q \in Process, Boot(q) \/ Crash(q) PROVE FALSE
    BY <2>1 DEF Boot, Crash, Goto, MigrationInv, PcTyped
  <2>2. ASSUME NEW q \in Process, Statement(q) PROVE q = p
    BY <2>2, OthersStay
  <2>3. Statement(p) \/ UNCHANGED pc
    BY <2>1, <2>2 DEF Next, Write
  <2> QED
    BY <2>3, StatementOutcome DEF Outcome
<1> QED
  BY <1>1, MigrationAlways, PTL DEF Spec, WrappedStepsTolerate

=============================================================================
