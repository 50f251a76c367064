# adonis-agora-authz: TLA+ models, checks and proofs

The repository is an authorization library for AdonisJS: roles and permissions
kept in a store, per-request caching of what a subject holds, a decision
service with pluggable providers, row scopes compiled to SQL, and React
bindings that share a subject's grants with the browser. Paths below are
relative to `src/packages/core/src/` unless they start with `packages/`.

## 1. The system

| Component | State | Operations | Talks to |
|---|---|---|---|
| Store contract (`store.ts`) | none | the `PermissionStore` interface | implemented by the two stores |
| Lucid store (`stores/lucid.ts`) | five SQL tables; a memoised schema promise; the client a view is bound to | create/delete roles and permissions, grants, assignments per tenant and source, replacements, reads | the database; hosts that pass a transaction client |
| Schema (`stores/lucid-schema.ts`) | the tables and their columns | create, add the `source` column, migrate pre-0.15 pivots | the database, from every booting process |
| Memory store (`stores/memory.ts`) | maps in the process | the same contract | callers of one process, between awaits |
| Permission cache (`permission_cache.ts`, `request_scope.ts`) | promises of role and permission reads, per request | roles, permissions, compiled matcher | the store |
| Service (`authz_service.ts`, `decision_provider.ts`) | none of its own | check, checkMany, scope, hasRole, subjectsWithRole | cache, store, provider, super-admin hook |
| Matcher (`permission_matcher.ts`, `packages/react/src/matcher.ts`) | none | wildcard match, compiled match | service, React |
| Scopes (`scope.ts`, `lucid_scope.ts`) | registry of scopes | normalise, and/or, compile to SQL | service, models |
| Cerbos provider (`cerbos/`) | none | decide, decideMany, planScope | a Cerbos server |
| HTTP, Bouncer, commands, provisioning, boot | memoised service promise | thin handlers | service and store |
| React (`packages/react`) | the shared snapshot | useCan, Can | the matcher |

**What is hard.** Every store write is several SQL statements issued by
concurrent requests, and an id read by one statement is used by a later one.
The tables have no foreign keys. Name creation is find, insert-or-ignore, find
again, racing other creators. Four calls run in a transaction, on a client of
their own or on one the host passes; the others do not. Any statement may fail.
Several processes create or migrate the schema at boot. A request's reads are
shared through cached promises while the store changes. Providers answer in
batches of which some may fail. `PROJECT.json` lists each hazard at its line.

**What makes each part correct.**

* Stores: a write does what its contract says, within its own scope, whatever
  overlaps it or fails; references hold; a deleted role leaves nothing behind;
  every call ends.
* Schema: repeated and concurrent boots, crashes included, lose no row; what is
  revoked once the schema is up stays revoked; a boot fails only for a reason.
* Cache: one read per key, a failed read is not sticky, the checks of a request
  answer alike and from nothing older than the request, no leak across keys.
* Service: checkMany agrees with check, scope with can, the page's share and the
  permission guard of a route with the server's decisions.
* Matchers: the compiled and the React matcher agree with the plain one.
* Scopes and query plans: the SQL selects no row beyond what the condition, or
  the engine, admits, and otherwise all of them.

## 2. Modules and plan

Done:

| Module | What it is |
|---|---|
| `RbacTables` | rows of the five tables, their unique keys, and the store's reads as operators on a set of rows |
| `RbacCalls` | the write calls of the contract and their arguments |
| `RbacContract` | the abstract specification: roles, permissions, grants, memberships and direct grants as sets of names, each write one atomic step of a pending call |
| `LucidStore` | the SQL store, one action per SQL statement, and its properties; refines `RbacContract` |
| `MCLucidStore` | symmetry for model checking |
| `RbacProofs` | lemmas on calls, rows and reads, which the next four rest on |
| `LucidStoreProofs`, `LucidNamesProofs`, `LucidScopeProofs` | theorems about `LucidStore`: types and references; names and their ids; the refinement when calls overlap, and when they do not |
| `MemoryStore`, `MCMemoryStore` | the in-process store, one action per stretch between awaits; refines `RbacContract` |
| `MemoryStoreProofs` | theorems about `MemoryStore`: types, the refinement, effects |
| `Listing` | what a loop or filter that goes through a list once makes of it: some of its items, in order, or the first of each |
| `StoreReads` | the listing and counting reads of both stores, and the preload of `authzRolesRelation()` |
| `PermissionCache`, `MCPermissionCache` | the reads that concurrent checks share, per request and tenant |
| `PermissionCacheProofs` | theorems about `PermissionCache` |
| `SchemaMigration`, `SchemaMigrationProofs` | processes that boot, crash and serve on one database, and theorems about them |
| `PermissionMatcher` | the wildcard match, its compiled form, and React's per-array compilation |
| `AuthzDecision` | what the service, a route's permission guard and the share make of the reads |
| `RowScopes` | scope trees, their clauses, and what both mean on rows with nulls |
| `CerbosPlan`, `CerbosProvider` | query plans turned into scopes; batches in chunks |
| `Agreements`, `AgreementProofs` | how matcher, decisions, batches, member lists and the reads of both stores agree, for one input; theorems for every input |
| `MCAlgorithms` | the bounded inputs of the modules of operators above, and the properties of scopes and plans |

`AuthzDecision` extends the matcher, `CerbosPlan` extends `RowScopes`, and
`StoreReads` extends the rows of `RbacTables`, so that the definitions a property
relates are the ones the stores and the service are modelled with. `Agreements`
stands apart from `MCAlgorithms` because scopes and plans need recursive
operators, which a module with theorems cannot reach. The code's loops over lists that
keep order and drop repetitions are written with `Listing`, by places in the list and
their number, so that no recursion over the list stands in the way of a proof.

Left: "count, then remove" host transactions over `LucidStore`'s database, the
last-administrator guard of `store.ts:340`, once the repository has such a guard.

## 3. The stores

### The Lucid store: state

| Variable | In the code |
|---|---|
| `db` | the committed rows of the five tables, tagged by table |
| `pc`, `call` | the statement each caller is at, and the call it is in |
| `want`, `cur`, `ids` | names still to resolve, the name being created, the ids in the call's local variables |
| `todo` | pivot rows the call has yet to insert |
| `tx` | whether the caller runs on its own transaction, on its host's, or on none |
| `ins`, `del`, `snap` | a transaction's uncommitted inserts and deletes, and its snapshot |

Roles and permissions are name rows with an id; a pivot row refers to ids, and
nothing makes the id exist, as in the DDL. Unique keys are `SameKey`.

### The Lucid store: actions

| Action | Code |
|---|---|
| `Start` | the head of each call up to `atomically` (opens a transaction when there is no host client) |
| `Find` | `findRoleId` / `findPermissionId`; a miss goes on to insert, except in the calls that only find |
| `InsertName`, `Refind` | the insert-or-ignore of `createRole` / `createPermission` and the second find, with the fallback `?? id` |
| `Dispatch` | the early return of the find-only calls; the choice of the first DELETE or INSERT |
| `DeleteRows` | each DELETE, with its WHERE clause (`Doomed`) |
| `InsertRow` | each insert-or-ignore of a pivot row |
| `Return` | the end of the call, committing the transaction it opened |
| `Fail` | a statement throws, the connection is lost or the process dies |
| `HostBegin`, `HostEnd` | a host transaction around several calls (`opts.client`, `withClient`, `resolveClient`), committed or rolled back |

### The database (external)

Modelled from how the store uses it. A statement outside a transaction commits
by itself. A transaction's writes are its own until it commits, and a write that
meets an uncommitted write of the same key waits. A SELECT sees the last commit
(`ReadCommitted`) or the snapshot taken when the transaction began
(`RepeatableRead`), under the transaction's own writes; writes always act on
current rows, as InnoDB's do. A statement that waits takes its view when the
wait ends. A failure in a host transaction rolls the whole of it back. PostgreSQL
at REPEATABLE READ would abort a write that meets a newer row; that case is the
action `Fail`. InnoDB's gap locks, which make some overlapping replacements wait
for each other, are not modelled.

### Abstractions

The subject-id guard, the schema gate `ready()`, timestamps and bindings are left
out. Ids are drawn from `1..MaxId` and handed out again only when no row and no
caller mentions them, which is what a fresh UUID amounts to; `MaxId` bounds the
ids in use at a time. The order in which a list of names is resolved is any order.

### The memory store

One thread runs every call, so a step is what a call does between two awaits.
`Begin` is the call being made. `Create` is `createRole` or `createPermission`,
whose promise the call then awaits: `Await` puts the rest of the call at the end
of the microtask queue (`queue`), and `CanRun` lets only the head of the queue
run, or a call that has just been made. `Finish` is the last stretch, where rows
go and come with no await in between. The two name maps, the set of grants and
the two arrays are rows of `RbacTables`, with the composite key as the row itself.
Calls that only look names up do so in that one stretch. There is no failure to
model: no stretch throws once the arguments are accepted. Lists are taken without
repetitions.

### Reads

`StoreReads` states each read as the SQL does (a join, then DISTINCT over subject
type and id) and as the memory store's loops do, over the rows of `RbacTables`;
rows may refer to a deleted role. `countSubjectsByRole` and `getPermissionsForRoles`
of the memory store await once per role (`memory.ts:311-317, 379-386`), so a write may
fall between two roles of one answer; they are stated on one set of rows, as are the
SQL reads that take two statements, and the properties speak of reads that no write
overlaps. `RelationRows` to `PreloadedRoles` are what the
relation adds to Lucid's join: the tenant and source conditions, one instance per
role, and the comparison of keys as text (`KeyAs` keeps text and number apart).

## 4. Boots

`SchemaMigration` runs `createAuthzTables` in every process, one action per SQL
statement, each committing by itself.

| In the model | In `stores/lucid-schema.ts` |
|---|---|
| `db[v]` | the table of a subject pivot under its old name, its new one, and `_pre_subject`, with its rows and the names of its columns |
| `HasLegacy`, `HasTable` | the two looks on which the branches depend (`saw`) |
| `RenameLegacy`, `RenameColumns`, `RenameToBackup` | statements under `step()`: after an error, a second look decides whether the boot goes on |
| `CopyRows` | the INSERT ... SELECT, not under `step()` |
| `CreateSubjectRole`, `HasSource`, `AddSource`, `CreateSubjectPermission` | the two CREATE TABLE IF NOT EXISTS, and the column, per dialect |
| `Boot`, `pc = "failed"` | `ready()` and its memoised promise: a process that failed boots again only when restarted (`Crash`) |
| `Write` | assignments and revocations served by a process that is ready, or by the one that created the new table before these boots began |

The installs: none; the old tables; the old columns under the new name; both
tables, with and without `source`; and both with a backup's name already taken.

## 5. Requests

`PermissionCache` has one action per continuation of a promise. A check starts
(`Start`), resumes when what it awaits has settled (`Resume`), and the reads
(`ReadApp`, `ReadRoles`, `ReadPerms`), the matcher (`MatcherGoesOn`) and failures
(`ReadFails`, `MatcherRejects`) settle promises. A rejected promise leaves the
cache before anyone who awaits it goes on, since the handler that removes it is
attached first. The user is fixed; the tenant is part of the key. The answer kept
for a permission check is the set it is matched against.

`AuthzDecision` then takes what the reads return as one record `e` and follows
the code's order: super-admin hook, super-admin roles, provider, anonymity, grants.
A provider or a hook that disagrees with itself between two calls is not modelled.

## 6. Runs

The runs of the stores take one subject and one or two roles; the rows of
different subjects never meet in a WHERE clause of a write. Callers, roles and
sources are interchangeable, and where no liveness is checked they are symmetric.

| Run | Instance | Shows |
|---|---|---|
| `store_overlap` | 2 callers; r1, q1; give, assign, set, sync, deleteRole, removeSubject | types; unique names; `NewNamesStartEmpty`; every commit is one write's, within its scope (`ImplementsScopedContract`) |
| `store_host` | 2 callers, host transactions; 2 tenants; give, assign, set | `RefIntegrity`, `PermissionsBacked` |
| `store_sequential` | 1 caller, all twelve calls; 2 roles, 2 tenants, 2 sources | `ImplementsContract` (exact, all or nothing, failing anywhere), `ReturnHasEffect`, `RefIntegrity` |
| `store_races` | 2 callers, host transactions; createRole, assignRole on 2 roles | `ReturnHasEffect` under races, `CallsEnd` |
| `memory_overlap` | 2 callers of `MemoryStore`, all twelve calls; 2 roles, 2 sources | types; `ImplementsContract` ("bar deletions"); `ReturnHasEffect` |
| `request_checks` | 2 checks, one request or none; the context's tenant and the global one; 1 grant or revocation, 1 failed read | one read per key, answers alike, no answer older than its request, failures forgotten, `ChecksEnd` |
| `schema_boot` | 2 processes, 5 installs, 3 dialects, 1 assignment, 2 crashes, 1 write | `CarriedOver`, `RevokedStaysRevoked`, `AloneBootSucceeds`, `OneGetsThrough`, `WrappedStepsTolerate` |
| `algorithms` | 131,000 inputs | see below |
| `find_ghost` | 3 callers; give, assign, deleteRole | violated: a permission of a deleted role is still reported |
| `find_phantom_id` | 2 callers, snapshots; createRole, setSubjectRoles | violated: an assignment to an id of no role |
| `find_sync_overlap` | 2 callers; syncRolePermissions over 2 permissions | violated: the union of two replacements |
| `find_boot_race` | 2 processes on a pre-0.15 install | violated: the second boot fails, and its process with it |

Two callers suffice for every race on one name or one row: at most one other
transaction can hold the lock a statement waits for. Three are needed only for
`find_ghost`, where an assignment and a grant must both outlive one deletion.
`MaxId` is at least the names that exist plus one per caller creating. In
`store_overlap` ids may run out with `MaxId = 3` (a caller then waits at its
insert); the run's questions are about reuse of ids after a deletion, which
needs few of them.

The contract comes in three strengths (`Promise`). For calls of the SQL store that
do not overlap, a replacement leaves exactly the list asked for ("exact"). For
overlapping ones the SQL store promises less, and "scoped" says how much: only rows
of the call's own subject, tenant and source (or role) move, deletions of a role
are complete in names, and an assignment is never made to a role that is absent at
that moment under its name. The memory store promises more under any overlap ("bar
deletions"): no call fails, and each has its whole effect in one step, but for roles
deleted between its awaits. `lost[p]` says which: a role enters it only at the step
that deletes it, only if p's pending call names it, and only for calls that look
their names up before their last stretch. A replacement that drops any other role, or
does nothing, is not a step of the contract. The refinement defines `lost[p]` as the
roles of which p still holds an id that no role has any more.

`schema_boot`: two processes are enough for a boot to meet another's statement
anywhere; two crashes let a boot stop between two statements, and the next one too,
or each process once; one write is a revocation, or an assignment made after the
looks. `OneGetsThrough` and `WrappedStepsTolerate` say what two boots that meet may do
to each other, and `find_boot_race` what they may not and yet do. The two pivots are migrated one after the other and share no row, so one row
each suffices. `request_checks`: one grant or revocation falls between any two
reads; two checks cover joining a read, resuming it in either order and coming
after it failed. The token carries no role of its own; the role comes from the
application or the store, and the configuration grants it the permission, so that a
permission check depends on both reads.

`algorithms` chooses an input and checks each property on it:

| Property | Inputs | Compared with |
|---|---|---|
| `MatcherAgrees` | two grants and a permission of up to 3 segments | the definition of `*` in the doc comment |
| `SharedAgrees` | an array of up to 2 grants, and the same array later | the plain match on the later one |
| `BatchAgrees`, `ScopeAgrees`, `PageAgrees` | kinds of user, hook and provider verdicts, sources of roles, batches of up to 3 | `check` and `can`, one at a time |
| `SubjectsListedOnce` | up to 4 members from three sources | each member once |
| `SqlNeverWidens`, `SqlExact` | groups of two levels, every operator, queries with a condition | what the tree means on every row of two columns with nulls |
| `PlanNeverWidens`, `PlanExact` | plans of two levels, every operator, both orders, nulls, `in` with and without a list | the engine's verdict row by row |
| `BatchesIndependent` | up to 3 requests on 3 resources, chunks of 1 or 2, one failing, one silent | `decide`, one at a time |
| `ReadsAgree`, `MemoryReadsAgree`, `RelationAgrees` | databases of up to 3 assignments of two subjects with one id, two tenants, two sources | one read with another |

Deadlock is not checked in `request_checks` and `schema_boot`, where checks are
answered, processes serve or have failed, and the bounds on writes, failures and
crashes are used up; nor in `algorithms`, whose states are inputs.

Deadlock is not checked in `memory_overlap`: rows of deleted roles hold their ids,
so with `MaxId = 3` both callers may be left waiting for a fresh id, which the
code never is. The bound still leaves room for a role, its deleted namesake and
one name more, which is what the run is about.

**Fairness** (`FairSpec`, only for `CallsEnd`): a caller that has reached a
statement eventually gets it executed when the statement is enabled again and
again (the driver answers; strong, because a lock may be taken and released
meanwhile), a host ends the transactions it opens, and a caller in a cycle of
lock waits fails (the database's deadlock detection). Nothing makes a caller call,
or fail otherwise.

`PermissionCache` assumes that every read settles and every continuation runs (weak
fairness; the driver answers and the event loop goes on). No fairness makes a check
start, a read fail or anyone write. `SchemaMigration` assumes none: a boot is a finite
list of statements, and what matters is where it ends.

## 7. Proofs

Every theorem below holds for every number of callers, checks, processes, names,
subjects, tenants, sources, ids, requests and crashes, and for every set of calls and
both isolation levels, under the constants' named assumptions and the hypotheses it
states. None assumes fairness. Each inductive invariant was checked by TLC on the runs
of its module before it was proved; the proofs have one lemma per action about the
caller that acts, and one about the others.

### The SQL store

| Theorem | States | Hypothesis |
|---|---|---|
| `TypeCorrect` | `TypeOK` | none |
| `NamesStayUnique` | `NamesUnique` | none |
| `NewNamesAreEmpty` | `NewNamesStartEmpty` | none |
| `ReferencesHold`, `PermissionsAreBacked` | `RefIntegrity`, `PermissionsBacked` | `NamesOnlyGrow` |
| `AddersReturn` | `ReturnHasEffect` | `OnlyAdding` |
| `LucidImplementsScoped` | `ImplementsScopedContract` | `OwnTransactions` |
| `LoneReturns`, `LoneImplements` | `ReturnHasEffect`, `ImplementsContract` | `OwnTransactions`, and calls that do not overlap (`[]OneAtWork`) |

`NamesOnlyGrow`: no caller deletes roles, and isolation is read committed. `find_ghost`
and `find_phantom_id` show that neither half can be dropped. `OnlyAdding`: read
committed, and every call creates, grants or assigns, as in the run `store_races`; a call
that revokes what another has just granted takes the effect away before the other
returns. `OwnTransactions`: the
client has a transaction function and no call runs on a host's client. Otherwise
several calls commit at once, or a replacing call commits statement by statement, and
one step of the store is not one write of the contract. `OneAtWork`: of any number of
callers, at most one is in a call at a time; nothing is assumed of who calls next, of the
calls, or of where one fails. `find_sync_overlap` shows that overlapping replacements are
not exact, so this hypothesis cannot be dropped.

* `TypeInv`. A pivot row is built from ids a call holds, so `TypeOK` is not inductive:
  `TypeInv` adds that a caller at work is in a call of the contract, that the name being
  created is one, and that a creating call has an id for every name it has resolved.
* `NamesInv` adds `KeysInv`. A unique key among the committed rows is not enough: a
  transaction may insert a name that another is about to commit. So names are unique in
  what each caller sees of the current rows, the rows two open transactions hold never
  share a key (a write that would waits), a transaction deletes committed rows only, and
  outside a transaction nothing is held.
* `BirthInv` adds `SecretsInv`: the id of a name in an open insert is in no committed row
  and is known to nobody else, by a variable, a snapshot or an uncommitted row. A
  role can then have no member or grant of another before it is committed.
* `RefInv`, for `NamesOnlyGrow`, says of each caller that its ids, its rows still to
  insert and the rows of its open transaction rest on names it knows (committed, or
  its own); its deletes take no name rows; a name being refound is there. A step of
  one caller only adds names to what others know (`Bystander`).
* `AddedInv`, for `OnlyAdding`, is `RefInv` and progress: a call at its inserts has all its
  ids, and each row it is to insert is still to do or among the current rows. Nothing
  deletes, so a row stays, and the conflict that lets `INSERT ... ON CONFLICT DO NOTHING`
  skip a row is with the row wanted. `AddedIsEffect` reads the effect off the rows.
* `ScopeInv`, for the refinement, is `NamesInv`, `SecretsInv` and `CommitInv`. The
  contract speaks of names, the store writes ids, so an id must keep one meaning as long
  as any caller, row or snapshot has it (`OneMeaning`), deleted roles included. A caller
  is where its kind of call can be, with its ids resolved before the first write
  (`Placed`); what its transaction holds is what the call asked for: names of its list,
  rows of its own insertions, deletions within its WHERE clause (`Holds`); and when
  `deleteRole` is about to return, its role is among its deletions unless another has
  deleted it first (`Cleared`). Each step then changes nothing committed (a stutter), or
  commits one call's changes, which the invariant puts within that call's scope: one
  step of `RbacContract`. The lemmas of `RbacProofs` carry movements of rows to
  movements of grants, memberships and direct grants.

* `LoneInv`, for calls that do not overlap, is `ScopeInv` and `ProgressInv`: nobody writes
  between two statements of the caller at work, so its snapshot is the present
  (`Finding`), an id it has resolved is the id of that name now, or the name is absent now
  (`Found`), what its deletions were to take is gone, and what it was to insert is in place
  or still to do (`Achieved`). At the return nothing is left to do: `LoneEffect` reads the
  effect off the rows, and a replacement that has the effect and moved nothing outside its
  scope (the lemmas of `LucidImplementsScoped`) is the exact one.

### The memory store

`MemoryTyped` (`TypeOK`), `MemoryImplements` (`ImplementsContract`) and `MemoryReturns`
(`ReturnHasEffect`), without hypotheses. `MemoryInv` adds to the types that a name has one
id and an id one name, that a call past its awaits has an id for every name it created,
and that an id a caller holds never comes to stand for another name, and still stands for
its name if that is a permission (only roles are ever deleted) (`IdsMean`), and that a
caller holds ids of its own call's names only and drops them at the end (`OwnIds`).
These are why the rows a call writes under an id the name no longer has are rows of
no role, and the others are exactly what the call asked for without `lost[p]`: the
refinement maps each stretch to one step of the contract, or to none. The queue's half
of `TypeOK` needs that appending the caller that runs repeats nobody.

### Requests

`TypeHolds`, `OneReadHolds`, `SameAnswersHold`, `AnswersWithinRequestHolds`, `FailsAfreshHolds`,
without hypotheses. None of the five is inductive. `CacheInv` relates promises, history
and checks: each promise's value is what some state since the request began held
(`RolesOK`, `PermsOK`); the matcher is made of both promises (`MatcherOK`); a cache in use
has the present among its states (`SinceOK`); a check that has passed a stage has the
value its cache holds (`Begun`, `Complete`), so two checks of one cache have the same;
and whoever waits on a matcher that is failing began before the failure or joined it
late.

### Boots

`TypeHolds`, `CarriedOverHolds`, `RevokedStays`, `AloneSucceeds`, `OneAlwaysGetsThrough`,
`WrappedTolerate`, without hypotheses, for every install and dialect and any number of
processes but none (`Process # {}`). `MigrationInv` says of each pivot that the old table, while it
stands, has the rows it always had, and that once it is gone every row is under the new
name or was revoked (`InstallOK`). Of each booting process it says what its
last look still tells, though others have acted since (`SawOK`: a table seen missing
under its old name stays missing), how far it has come (`StageOK`), that what it has
behind it stays done (`BehindOK`), and, when it met no other, that its looks are
true and its statements cannot fail (`AloneOK`).

For `OneAlwaysGetsThrough`, `SomeSound` adds that some process is sound: it has not failed,
and the old table it has seen, or the column it has missed on sqlite, is as it saw it (`Sound`).
A sound process stays sound under its own statements. A statement of another that
spoils what it saw (the old table renamed, the column added) leaves that other past
the place where it can fail, and so sound itself (`Outcome`); any other statement leaves
both sound (`Quiet`).

### Algorithms

Each theorem states a property of `Agreements` for every input, of any size; the
hypotheses say what kind of value each part of the input is, and what the table adds.

| Theorem | States | For any | Hypothesis |
|---|---|---|---|
| `MatcherAlwaysAgrees`, `SharedAlwaysAgrees` | `MatcherAgrees`, `SharedAgrees` | alphabet of segments, length of grants and permissions | none |
| `ScopeAlwaysAgrees`, `PageAlwaysAgrees` | `ScopeAgrees`, `PageAgrees` (where hook, super-admin role and provider leave the answer to roles and grants) | hook, provider, sources of roles and grants (`Environment`) | none |
| `BatchesAlwaysAgree` | `BatchAgrees` | the same, and batches of any length | none |
| `SubjectsAlwaysListedOnce` | `SubjectsListedOnce` | lists of members | subject types have no blank: the code tells members apart by the text `type id`, and the first blank must end the type |
| `BatchesAlwaysIndependent` | `BatchesIndependent` | batches, chunk sizes, policies, failing and silent resources | a resource is asked about with one set of attributes (see section 8) |
| `ReadsAlwaysAgree` | `ReadsAgree` | rows, dangling references included | none |
| `MemoryAlwaysAgrees` | `MemoryReadsAgree` | finite sets of rows, order of the list | ids of roles and permissions are never mixed up (`TablesApart`: they are in columns and maps of their own) |
| `RelationAlwaysAgrees` | `RelationAgrees` | finite sets of rows, order and key types | unique keys, which the store's tables have (`NamesStayUnique`) |

`MaxBatch` bounds the batches that `BatchAgrees` speaks of; the proof never looks at it.
The lemmas on `Listing` carry these proofs: the places of a list count up without
gaps (`InOrderLists`), each item is first at exactly one of its places (`FirstsFind`), so
what is kept has every item and none twice (`KeptFirsts`), and a first item's
place among the firsts is the number of different items up to it (`PlaceOfFirst`). The
last one says which call of the Cerbos provider asks about which resource.

### Only model-checked

* Liveness (`CallsEnd`, `ChecksEnd`): fairness and ENABLED are outside what the
  proof system handles.
* Scopes and plans (`SqlNeverWidens`, `SqlExact`, `PlanNeverWidens`, `PlanExact`): trees of
  any depth, compiled and evaluated by recursive operators, so that a proof would be an
  induction over data.
* Of the SQL store, the host transactions of `store_host` and `store_races`, except for
  the theorems above without hypotheses.

## 8. What disagrees with its documentation

See `findings` in `PROJECT.json`: rows that outlive `deleteRole`, ids of no role
under REPEATABLE READ, replacements that merge when they overlap, and a boot that
fails for good because another one renamed the old table under it.

The following were met while modelling. Each narrows a property, in its statement
or in the inputs of its run, and none has a run of its own:

* `permission_cache.ts:21-23` says every check of a request "decides against the
  same state". The roles and the permissions are read one after the other, so a
  change that touches both may be seen half; `AnswersWithinRequest` lets each part
  have its own moment, and `SameAnswers` holds for all.
* `authz_service.ts:684` says `hasAnyRole` "never disagrees with hasRole". The hook is
  asked about `role:a,b` by one and `role:a` by the other, so it may answer them
  differently; and `requireRole` and `authorizeByRoles` do not ask it, nor look at
  super-admin roles. No property states it: without those answers the four are one
  expression, and with them the application decides which of them differ.
* An OR whose alternative compiles to no clause (an empty AND, a `nin` of an empty
  list) loses that alternative (`lucid_scope.ts:71-75, 108-116`): the query shows fewer
  rows than the scope means, never more. `SqlExact` excepts it (`LosesAlternative`).
* A plan's `ne`, or NOT, over a null column, and `in` with a null in its list, select
  fewer rows in SQL than the engine allows; `PlanExact` has no nulls in rows and lists.
* A database that was upgraded, went back and is upgraded again has the backup's
  name taken: each boot copies the old rows again and fails
  (`lucid-schema.ts:264-267`). Assignments revoked before a boot has ended come back if
  the copy runs twice; `RevokedStaysRevoked` is about those revoked after one has.
* With a provider that answers `decide` and has no `planScope`, `scope` decides by roles
  and grants what `can` leaves to the provider; `ScopeAgrees` is about providers that
  abstain.
* `decideMany` of the Cerbos provider asks about each resource key once, with the
  first request's attributes (`cerbos/decision_provider.ts:209`); in the run and in the
  theorem the requests on one key have the same.
* The React matcher compiles an array again only when its length changes
  (`packages/react/src/matcher.ts:101`); `SharedAgrees` excepts entries replaced in place.
* `subjectsWithRole` tells members apart by type and id joined with a space
  (`authz_service.ts:727`); the types of the run, and of the theorem, have none.
* `store.ts:340-342` calls a last-administrator guard that counts through `withClient`
  race-tolerant; at read committed two such transactions may each count the other's
  administrator. The guard is the host's, so there is no code to model.

## 9. Not modelled

* The role questions `hasRole`, `hasAnyRole`, `requireRole` and `authorizeByRoles`, beyond
  the reads they wait for (`hasRole` in `PermissionCache`) and the effective roles they look
  in, which the permission checks share.
* Redirects and response bodies of the HTTP handlers, the can endpoint and the
  Bouncer abilities: they hand one call of the service on.
* Container bindings and validation of the configuration, console commands,
  provisioning (event handlers that call the store and swallow errors), testing
  fakes, and React rendering.
* In the schema: the tables without pivots, the indexes (and with them the errors a
  database may raise for two concurrent CREATE ... IF NOT EXISTS), identifier
  checks, and `dropAuthzTables`.
* In the stores: the guard on integer subject ids, timestamps, and the order of
  listings.
