-------------------------- MODULE SchemaMigration --------------------------
(***************************************************************************)
(* The boots of several processes on one database.  Each runs              *)
(* createAuthzTables statement by statement, every statement committing by *)
(* itself: for each subject pivot the migration of the pre-0.15 table, then*)
(* the tables and the `source` column.  A process may crash between two    *)
(* statements and boot again; the one that has booted serves calls that    *)
(* assign and revoke.  The roles, permissions and role_permission tables   *)
(* and the indexes, which no statement here depends on, are left out.      *)
(*                                                                         *)
(* db[v] is the pivot v: `legacy`, its table under the old name, `table`,  *)
(* under the new one, and `backup`, the old table set aside; each is Absent*)
(* or has rows, and `table` has columns user_type, user_id or subject_*.   *)
(***************************************************************************)
EXTENDS Naturals, Sequences

CONSTANTS
  Process,
  Row,          \* the assignments
  Absent,       \* what is no table
  Dialects,     \* the databases to boot on: "pg", "mysql", "sqlite"
  Starts,       \* the installs to boot on, see Installs
  MaxCrashes,   \* how many times processes crash or are restarted
  MaxWrites     \* how many assignments and revocations are made

Pivots == <<"subjectRole", "subjectPermission">>
Pivot == {Pivots[i] : i \in DOMAIN Pivots}

TableType == [rows : SUBSET Row, type : {"user", "subject"}, id : {"user", "subject"},
              source : BOOLEAN]

ASSUME MigrationAssumption ==
  /\ Process # {}
  /\ Absent \notin TableType
  /\ Starts \subseteq {"fresh", "legacy", "named", "both", "undone"}
  /\ MaxCrashes \in Nat /\ MaxWrites \in Nat

VARIABLES
  dialect,
  db,
  pc,        \* [Process -> the statement it is to run, "down", "ready" or "failed"]
  at,        \* [Process -> the pivot it migrates, an index of Pivots]
  saw,       \* [Process -> what it saw of the old and the new table]
  crashes, writes,
  old,       \* history: [Pivot -> the rows of the old table before any boot]
  revoked,   \* history: [Pivot -> rows revoked, and not assigned since]
  settled,   \* history: [Pivot -> those of them revoked after a boot had ended]
  overlapped,\* history: the processes whose boot met another's
  cleared    \* history: no earlier upgrade has left a backup

history == <<old, overlapped, cleared>>
vars == <<dialect, db, pc, at, saw, crashes, writes, revoked, settled, history>>

-----------------------------------------------------------------------------
(* The installs a boot may find. *)

Rows(t) == IF t = Absent THEN {} ELSE t.rows

Table(rows, type, id, source) == [rows |-> rows, type |-> type, id |-> id, source |-> source]
Legacy(rows) == Table(rows, "user", "user", FALSE)
Current(rows, source) == Table(rows, "subject", "subject", source)

Installs(start) ==
  CASE start = "fresh"  -> {[legacy |-> Absent, table |-> Absent, backup |-> Absent]}
    [] start = "legacy" -> {[legacy |-> Legacy(Row), table |-> Absent, backup |-> Absent]}
    \* it kept its own table names, and so the old columns
    [] start = "named"  -> {[legacy |-> Absent, table |-> Legacy(Row), backup |-> Absent]}
    \* an earlier 0.15 boot created the new table, since used
    [] start = "both"   -> {[legacy |-> Legacy(Row), table |-> Current(rows, s), backup |-> Absent] :
                              rows \in SUBSET Row, s \in BOOLEAN}
    \* the same after an upgrade, undone, that had already set the old table aside
    [] start = "undone" -> {[legacy |-> Legacy(Row), table |-> Current({}, TRUE),
                             backup |-> Legacy({})]}

Init ==
  /\ dialect \in Dialects
  /\ \E start \in Starts : \E install \in Installs(start) :
       /\ db = [v \in Pivot |-> install]
       /\ old = [v \in Pivot |->
                    Rows(IF install.legacy # Absent THEN install.legacy ELSE install.table)]
       /\ cleared = (install.backup = Absent)
  /\ pc = [p \in Process |-> "down"]
  /\ at = [p \in Process |-> 1]
  /\ saw = [p \in Process |-> [legacy |-> FALSE, table |-> FALSE]]
  /\ crashes = 0 /\ writes = 0
  /\ revoked = [v \in Pivot |-> {}] /\ settled = [v \in Pivot |-> {}]
  /\ overlapped = {}

-----------------------------------------------------------------------------
(* Statements. *)

Booting(p) == pc[p] \notin {"down", "ready", "failed"}

pivot(p) == Pivots[at[p]]
here(p) == db[pivot(p)]

Goto(p, s) == pc' = [pc EXCEPT ![p] = s]
Set(p, field, t) == db' = [db EXCEPT ![pivot(p)][field] = t]

Same == UNCHANGED <<dialect, crashes, writes, revoked, settled, history>>

(* p looks at the schema and goes on to s. *)
Look(p, label, s) == pc[p] = label /\ Goto(p, s) /\ UNCHANGED <<db, at, saw>> /\ Same

(* Mutant: an error of the statement is an error of the boot. *)
AfterErrorThrow(label) == "failed"

(* step(): after an error, whether another process has done it is looked up. *)
AfterError(label) ==
  [rename |-> "rename done?", userType |-> "userType done?", userId |-> "userId done?",
   backup |-> "backup done?"][label]

(* p runs a statement wrapped in step(); it fails unless `able`. *)
Step(p, label, able, db2, s) ==
  /\ pc[p] = label
  /\ IF able THEN db' = db2 /\ Goto(p, s)
             ELSE UNCHANGED db /\ Goto(p, AfterError(label))
  /\ UNCHANGED <<at, saw>> /\ Same

Recheck(p, label, done, s) ==
  Look(p, AfterError(label), IF done THEN s ELSE "failed")

Boot(p) ==
  /\ pc[p] = "down" /\ Goto(p, "hasLegacy")
  /\ at' = [at EXCEPT ![p] = 1]
  /\ LET others == {q \in Process \ {p} : Booting(q)}
     IN  overlapped' = IF others = {} THEN overlapped \ {p}
                       ELSE overlapped \cup others \cup {p}
  /\ UNCHANGED <<dialect, db, saw, crashes, writes, revoked, settled, old, cleared>>

-----------------------------------------------------------------------------
(* migrateLegacySubjectPivots, for the pivot p is at. *)

HasLegacy(p) ==
  /\ pc[p] = "hasLegacy" /\ Goto(p, "hasTable")
  /\ saw' = [saw EXCEPT ![p].legacy = here(p).legacy # Absent]
  /\ UNCHANGED <<db, at>> /\ Same

(* Mutant: the old table is renamed only next to a new one. *)
ToRenameNever(legacy, table) == FALSE

ToRename(legacy, table) == legacy /\ ~table

HasTable(p) ==
  /\ pc[p] = "hasTable"
  /\ LET there == here(p).table # Absent
     IN  /\ saw' = [saw EXCEPT ![p].table = there]
         /\ Goto(p, IF ToRename(saw[p].legacy, there) THEN "rename" ELSE "hasUserId")
  /\ UNCHANGED <<db, at>> /\ Same

RenameLegacy(p) ==
  \/ Step(p, "rename", here(p).legacy # Absent /\ here(p).table = Absent,
          [db EXCEPT ![pivot(p)].table = here(p).legacy, ![pivot(p)].legacy = Absent],
          "hasUserId")
  \/ Recheck(p, "rename", here(p).table # Absent, "hasUserId")

ToCopy(p) == IF saw[p].legacy /\ saw[p].table THEN "copy" ELSE "next"

HasUserId(p) ==
  Look(p, "hasUserId", IF here(p).table # Absent /\ here(p).table.id = "user" THEN "userType"
                       ELSE ToCopy(p))

(* Mutant: after either column the id's new name is looked for. *)
RenamedId(t, column) == t.id = "subject"

Renamed(t, column) == t[column] = "subject"

RenameColumns(p) ==
  LET t == here(p).table IN
  \/ Step(p, "userType", t.type = "user", [db EXCEPT ![pivot(p)].table.type = "subject"], "userId")
  \/ Recheck(p, "userType", Renamed(t, "type"), "userId")
  \/ Step(p, "userId", t.id = "user", [db EXCEPT ![pivot(p)].table.id = "subject"], ToCopy(p))
  \/ Recheck(p, "userId", Renamed(t, "id"), ToCopy(p))

(* Not wrapped in step(): without the old table the statement, and the boot,*)
(* fail.                                                                    *)
CopyRows(p) ==
  /\ pc[p] = "copy"
  /\ IF here(p).legacy = Absent THEN UNCHANGED db /\ Goto(p, "failed")
     ELSE /\ db' = [db EXCEPT ![pivot(p)].table.rows = @ \cup here(p).legacy.rows]
          /\ Goto(p, "backup")
  /\ UNCHANGED <<at, saw>> /\ Same

(* Mutant: the old table stays where it is. *)
SetAsideKept(p) == db

SetAside(p) == [db EXCEPT ![pivot(p)].backup = here(p).legacy, ![pivot(p)].legacy = Absent]

RenameToBackup(p) ==
  \/ Step(p, "backup", here(p).legacy # Absent /\ here(p).backup = Absent, SetAside(p), "next")
  \/ Recheck(p, "backup", here(p).legacy = Absent, "next")

(* Mutant: the loop runs once too often. *)
MorePivotsAtLast(i) == i <= Len(Pivots)

MorePivots(i) == i < Len(Pivots)

NextPivot(p) ==
  /\ pc[p] = "next"
  /\ IF MorePivots(at[p])
       THEN at' = [at EXCEPT ![p] = @ + 1] /\ Goto(p, "hasLegacy")
       ELSE at' = [at EXCEPT ![p] = 1] /\ Goto(p, "createRole")
  /\ UNCHANGED <<db, saw>> /\ Same

-----------------------------------------------------------------------------
(* The rest of createAuthzTables: at[p] = 1, the subject-role pivot, whose  *)
(* column `source` ensureSourceColumn adds; then the other pivot.           *)

Create(v) == IF db[v].table # Absent THEN db ELSE [db EXCEPT ![v].table = Current({}, TRUE)]

CreateSubjectRole(p) ==
  /\ pc[p] = "createRole" /\ db' = Create("subjectRole")
  /\ Goto(p, IF dialect = "pg" THEN "addSource" ELSE "hasSource")
  /\ UNCHANGED <<at, saw>> /\ Same

HasSource(p) ==
  Look(p, "hasSource", IF here(p).table.source THEN "createPermission" ELSE "addSource")

(* ADD COLUMN fails when the column is there, but on postgres (IF NOT EXISTS);*)
(* only mysql's duplicate-column error is caught.                           *)
AddSource(p) ==
  /\ pc[p] = "addSource"
  /\ db' = [db EXCEPT ![pivot(p)].table.source = TRUE]
  /\ Goto(p, IF here(p).table.source /\ dialect = "sqlite" THEN "failed" ELSE "createPermission")
  /\ UNCHANGED <<at, saw>> /\ Same

CreateSubjectPermission(p) ==
  /\ pc[p] = "createPermission" /\ db' = Create("subjectPermission")
  /\ Goto(p, "ready")
  /\ UNCHANGED <<at, saw>> /\ Same

Statement(p) ==
  \/ HasLegacy(p) \/ HasTable(p) \/ RenameLegacy(p) \/ HasUserId(p) \/ RenameColumns(p)
  \/ CopyRows(p) \/ RenameToBackup(p) \/ NextPivot(p)
  \/ CreateSubjectRole(p) \/ HasSource(p) \/ AddSource(p) \/ CreateSubjectPermission(p)

-----------------------------------------------------------------------------
(* A process crashes, or is stopped: ready() keeps the promise of a boot that*)
(* failed, so only another process start boots again.                       *)
Crash(p) ==
  /\ pc[p] # "down" /\ crashes < MaxCrashes
  /\ Goto(p, "down") /\ crashes' = crashes + 1
  /\ UNCHANGED <<dialect, db, at, saw, writes, revoked, settled, history>>

(* Calls are served by a process whose boot has ended; where both tables were*)
(* found, also by the one that created the new table.                       *)
Serving == (\E p \in Process : pc[p] = "ready") \/ ~cleared
             \/ \E v \in Pivot : db[v].legacy # Absent /\ db[v].table # Absent

Write(v, row) ==
  /\ writes < MaxWrites /\ Serving
  /\ db[v].table # Absent /\ db[v].table.id = "subject" /\ db[v].table.type = "subject"
  /\ writes' = writes + 1
  /\ IF row \in db[v].table.rows
       THEN /\ db' = [db EXCEPT ![v].table.rows = @ \ {row}]
            /\ revoked' = [revoked EXCEPT ![v] = @ \cup {row}]
            /\ settled' = [settled EXCEPT ![v] =
                             IF \E p \in Process : pc[p] = "ready" THEN @ \cup {row} ELSE @]
       ELSE /\ db' = [db EXCEPT ![v].table.rows = @ \cup {row}]
            /\ revoked' = [revoked EXCEPT ![v] = @ \ {row}]
            /\ settled' = [settled EXCEPT ![v] = @ \ {row}]
  /\ UNCHANGED <<dialect, pc, at, saw, crashes, history>>

Next ==
  \/ \E p \in Process : Boot(p) \/ Statement(p) \/ Crash(p)
  \/ \E v \in Pivot, row \in Row : Write(v, row)

Spec == Init /\ [][Next]_vars

-----------------------------------------------------------------------------
(* Properties. *)

TypeOK ==
  /\ dialect \in Dialects
  /\ \A v \in Pivot : /\ \A t \in {db[v].legacy, db[v].table, db[v].backup} :
                           t = Absent \/ t \in TableType
                      /\ old[v] \in SUBSET Row /\ settled[v] \subseteq revoked[v]
                      /\ revoked[v] \in SUBSET Row
  /\ at \in [Process -> DOMAIN Pivots]
  /\ saw \in [Process -> [legacy : BOOLEAN, table : BOOLEAN]]
  /\ crashes \in 0 .. MaxCrashes /\ writes \in 0 .. MaxWrites
  /\ overlapped \subseteq Process /\ cleared \in BOOLEAN

(* "An upgrade keeps every role and direct permission": whatever the boots of*)
(* several processes do to each other and wherever they crash, no row is     *)
(* lost but by a revocation; and once a boot has ended, every row is in a    *)
(* table with the new name and columns, where the store reads it.            *)
CarriedOver ==
  \A v \in Pivot :
    /\ old[v] \subseteq Rows(db[v].legacy) \cup Rows(db[v].table) \cup revoked[v]
    /\ (\E p \in Process : pc[p] = "ready") =>
         /\ old[v] \subseteq Rows(db[v].table) \cup revoked[v]
         /\ db[v].table.type = "subject" /\ db[v].table.id = "subject"
         /\ v = "subjectRole" => db[v].table.source

(* "Re-copying would bring back assignments revoked since": what is revoked  *)
(* once any boot has ended stays revoked, whichever process boots later or   *)
(* is still on its way.                                                      *)
RevokedStaysRevoked == \A v \in Pivot : settled[v] \cap Rows(db[v].table) = {}

(* "Safe to run on every boot": a boot fails only if another's statements    *)
(* came between its own, or if the backup of an earlier upgrade is in the    *)
(* way; in particular it takes over whatever a crash has left half done.     *)
AloneBootSucceeds ==
  \A p \in Process : pc[p] = "failed" => p \in overlapped \/ ~cleared

(* Of "Each step tolerates another process doing it first" what the code     *)
(* does: whatever another process has run in between, no statement wrapped   *)
(* in step() makes a boot fail, unless an earlier upgrade's backup has its   *)
(* name; only the copy and, on sqlite, the new column do.                    *)
WrappedStepsTolerate ==
  [][\A p \in Process : pc[p] # "failed" /\ pc'[p] = "failed" =>
       \/ pc[p] = "copy"
       \/ pc[p] = "addSource" /\ dialect = "sqlite"
       \/ pc[p] = "backup done?" /\ ~cleared]_vars

(* Boots that meet may make each other fail, for good, but never all: where  *)
(* no earlier backup is in the way, one of the processes is in service, on   *)
(* its way there or yet to be started.                                       *)
OneGetsThrough == cleared => \E p \in Process : pc[p] # "failed"

(* The comment above the migration: "Each step tolerates another process     *)
(* doing it first".                                                          *)
ToleratesOthers == \A p \in Process : pc[p] # "failed"
=============================================================================
