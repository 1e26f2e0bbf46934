# Costume Tree: TLA+ models, model checking and proofs

This directory holds TLA+ models of the parts of Costume Tree where actors
interleave, fail or restart, the TLC configurations that check them on small
instances, and TLAPS proofs of the properties that matter most for instances of
any size. Every definition is translated from the Go source, the SQL it sends
and the migrations; `PROJECT.json` maps each definition to its lines.

Contents: [1 Inventory](#1-inventory), [2 Modules](#2-modules),
[3 Runs](#3-runs), [4 Findings](#4-findings), [5 Fairness](#5-fairness),
[6 Proofs](#6-proofs), [7 What is left out](#7-what-is-left-out),
[8 Plan](#8-plan).

## 1 Inventory

Costume Tree is one Go process in front of one PostgreSQL database and one photo
directory. Requests run on goroutines of their own, each under
`http.TimeoutHandler`; the photo service adds one dispatcher and two workers.
Everything durable is in the database or the directory.

| Component | Source | State it keeps | Operations | Hard behaviour | What makes it correct |
|---|---|---|---|---|---|
| Photo service | `photos/service.go` | queue, `queued` map, two one-slot signal channels, contexts; originals and derivatives on disk | `Start`, `Close`, `Upload`, `dispatch`, `worker`, `process`, `Resolve` | dropped signals, a page that is older than the workers' progress, a bounded queue, disk and statement errors, a crash between disk and table | one worker per photo, no lost wake-up, acknowledged uploads kept, ready only with derivatives, pending work resumes |
| Photo repository | `storage/photos.go` | `costume_item_photos` | `Create`, `ListPending`, `MarkReady`, `MarkFailed`, readers | a mark that took effect but returns an error | the status changes once, from pending |
| Bulk importer | `storage/bulk_import.go` | `inflight`, `committed` (memory); rows (database) | `Preview`, `Commit` | double submit, timeouts, retries, edits of the scope between preview and commit | an import happens at most once, as previewed, and completely |
| Bulk import handler | `web/bulk_import.go` | preview store: `entries`, `used` | `put`, `get`, `consume`, prune | tokens that expire while a request runs, restart | a preview stays available until imported or expired |
| Costume items | `storage/repositories.go`, `web/costume_items.go` | `costume_items`, `production_item_sequences` | create, edit, status, copy, paste, remove | check-then-act on `updated_at` and on archived scope; code allocation under row locks | no lost edit, versions identify rows, codes unique and immutable |
| Actor workspace, dashboard | `web/dashboard.go`, `storage/dashboard_queries.go` | none | workspace update, KPI queries | the same row edited by three handlers that derive status and progress differently; figures and rows are two statements | the row always satisfies the table's CHECK; rows add up to the figures |
| Productions, actors, item types | `storage/repositories.go`, `web/actors.go`, `web/item_types.go` | their tables | create, edit, archive, restore, seeding of types | duplicate check in the handler against a partial unique index | live type names unique; archiving stops writers |
| Migrations | `storage/db.go`, `storage/validation.go` | `schema_migrations`, session advisory lock | `Open`, `Migrate`, validate | several processes at once, a crash between steps, a history of another version | each migration applied once, in order; served only on a valid schema |
| Summaries, reports, search | `storage/*summary*`, `reports.go`, `*_queries.go`, handlers | none | aggregate queries, lists, pages of a search | five queries with their own joins count the same pieces; a page is numbers of rows to skip | the same items counted the same way; a count is the length of the list behind it; no item is missed but for a reason |
| Bulk text parser | `bulk/import.go` | none | `Parse` | the last block ends with the text, several faults in one text | the first fault is reported, accepted blocks are the runs of the text |
| Application lifecycle | `application/application.go`, `cmd/.../main.go` | serving goroutine, signal context, defers | `run`, `Run` | a failing server, a signal and the shutdown's timeout in any order; handlers that outlive their answer | no error is lost, a clean return cuts nobody off, the database is closed last, the process ends |
| SQLite loader | `scripts/migrate-sqlite-to-postgres.sh` | target database | preflight, load, verify | partial failure | all or nothing |
| Configuration, web shell, templates, build | `config/`, `web/web.go`, ... | none | | | |

How they interact:

- *Calls.* A handler calls repositories (`storage`) and the photo service; the
  bulk handler calls the importer between two calls of its preview store.
- *Shared memory.* `queued`, the channels and the lifecycle flags of the photo
  service; the preview store's and the importer's maps. Each map has a mutex
  that is never held across I/O.
- *Shared rows.* `costume_items` is written by three editing handlers, creation,
  paste, bulk import and removal; the production row is locked by the importer
  (`FOR UPDATE`) and, through foreign keys, by every insert below it.
- *Files and rows.* The photo service keeps the directory and
  `costume_item_photos` in step without a transaction over both.

Every hazard, at the line where it bites and with the properties that would
catch it, is listed in `PROJECT.json`.

## 2 Modules

| Module | Models | Level |
|---|---|---|
| `PhotoLifecycle` | what the rows of photos go through | abstract specification |
| `PhotoPipeline` | photo service, photo repository, directory, process | detailed; implements `PhotoLifecycle` |
| `PhotoPipelineProofs` | | theorems |
| `BulkImport` | preview store, importer, other writers of the scope | detailed |
| `BulkImportProofs` | | theorems |
| `ItemEditing` | three editing handlers, `Update`, `Archive` | detailed |
| `ItemEditingProofs` | | theorems |
| `CodeBook` | what item codes promise | abstract specification |
| `ItemCodes` | creating, copying, pasting, importing items of one production | detailed; implements `CodeBook` |
| `ItemCodesProofs` | | theorems |
| `Migrations` | `Migrate`, `Ready` and the SQLite loader, several processes and releases | detailed |
| `Catalog` | a new production, its default item types, the item types page | detailed |
| `CatalogProofs` | | theorems |
| `Screens` | landing page, dashboard, workspace, summary, reports, search, beside writers | detailed |
| `ScreensProofs` | | theorems |
| `BulkText` | the text of an import, its preview, its commit, alone | detailed |
| `BulkTextProofs` | | theorems |
| `Shutdown` | `run`, `Run`, requests and workers from start to exit | detailed |
| `ProcessProofs` | | theorems about `Migrations` and `Shutdown` |
| `MC...` | symmetry sets and constants of the runs | |

### Conventions

One action is one step that other goroutines can interleave with: a statement
that is its own transaction, a critical section, a channel operation, a file
operation. Statements of one transaction are separate steps where other
transactions can act between them (READ COMMITTED) and one step where a row lock
keeps them out. A program counter (`upload`, `dpc`, `wpc`, `pc`) says where each
goroutine is. Operators called *Seeded bug* are not used by any specification:
each is a mistake that a property must notice, and `PROJECT.json` pairs them.

### PhotoPipeline

| State | Code |
|---|---|
| `status` | row of `costume_item_photos` and its `status` column |
| `originals`, `displays`, `thumbs` | the three files of a photo in the directory |
| `main` | `run()`, `Service.Start`, `Service.Close`, death of the process |
| `upload[p]` | request goroutine in `Upload` |
| `wake`, `retry`, `queue`, `queued` | `s.wake`, `s.retry`, `s.work`, `s.queued` |
| `dpc`, `snapshot` | `dispatch` and the page from `ListPending` |
| `wpc`, `wphoto`, `moved` | `worker`, `process`, its result |

`Upload` is check, copy, create, then notify or remove; `dispatch` is select,
(backoff), list, then per photo offer and send; a worker takes, opens, writes
two derivatives, marks (or removes both and marks failed), releases, signals.
Three transient faults may happen at any matching step: `disk`, `db`
(a statement, with or without effect for the marks), `commit` (the answer to a
COMMIT is lost). The process may be cancelled and closed, or die, anywhere, and
starts again. Photos are numbered by `(created_at, id)` and rows may commit in
any order, so a late commit can appear in front of a page already read.

### BulkImport

| State | Code |
|---|---|
| `clock` | `time.Now().UTC()` |
| `name`, `archived`, `actors`, `types`, `imports` | production, actors, item types, imported rows |
| `lock` | the row lock of `SELECT ... FOR UPDATE` on the production |
| `born`, `seen`, `want*`, `existing`, `allowNew` | fields of the canonical preview |
| `stored`, `until`, `used` | `entries`, their `expires`, `used` |
| `inflight`, `committed` | the importer's maps |
| `pc`, `token`, `since`, `newActors`, `newTypes` | a request, what its transaction adds |

A submit is `Lookup` (get), `CheckAge`, `Admit` (the guard against a second
submit), `Lock`, `Resolve`, `Commit` or `DbFails`, `Record`, `Leave` (deferred
delete from `inflight`), `Consume`. `Edit` is every other handler that changes
the scope, restrained by the locks its statements take. `Tick` advances time
only while no request in progress would exceed `Life`.

### ItemEditing

| State | Code |
|---|---|
| `row` | the `costume_items` row, `at` is `updated_at` |
| `clock` | `CURRENT_TIMESTAMP`, the time the transaction began |
| `closed`, `archivedTypes` | archived production or actor, archived types |
| `page[w]` | what a window shows, with its hidden `updated_at` |
| `pc`, `input` | a request after its check, and the columns it will write |
| `missed` | history: the row was written since this request read it |

`Submit` is a handler up to the call of `Update`, for three forms that compute
the columns differently; `Begin` is BEGIN and the three `ensure` checks;
`Write` is UPDATE and COMMIT. Description and next action are one text, blocker
and notes another: they are always written together.

### ItemCodes

| State | Code |
|---|---|
| `seq` | `next_value` in the production's row of `production_item_sequences`, 0 without a row |
| `items`, `ids` | `costume_items` (code, id) and the identity sequence behind the ids |
| `owner`, `exclusive`, `shared` | row locks: the uncommitted sequence row, `FOR UPDATE` and `FOR KEY SHARE` of the production |
| `copied` | the cookie of `CopyCostumeItems` |
| `pc`, `kind`, `left`, `mine`, `rows` | a request: what it does, items to come, its version of the sequence row, its uncommitted items |

`Create`, `Paste` and `Import` start a request. `Number` is `allocateCodeTx`
(`INSERT ... ON CONFLICT DO UPDATE ... RETURNING`), `Reference` the foreign key
check that follows when the row is new, `InsertItem` the insert of the item,
`Commit` the end of a transaction: of each item for `Create` and `Paste`, of all
rows for `Import`, which has taken the production `FOR UPDATE` before (`Lock`).
A statement that waits for a lock is an action that is not enabled; `Victim` is
PostgreSQL's answer to a deadlock.

### Migrations

| State | Code |
|---|---|
| `hasHistory`, `recorded` | the table `schema_migrations` and its rows |
| `tables`, `foreign` | tables and indexes by the migration that creates them; tables of something else |
| `lock` | the session advisory lock; `Ghost` is a session whose process has gone |
| `rows`, `marker` | where the data comes from; `sqlite_migration_source` |
| `pc`, `release`, `applied`, `ok` | a start of a process, the migrations it embeds, the history it read, its result |
| `lpc` | a run of `migrate-sqlite-to-postgres.sh` |

`Lock` to `Unlock` are the statements of `Migrate` in order, `Ready` is the
check before serving. One migration and its record are one transaction and one
step. A process may die, and its connection may break, anywhere, and what it
last sent may still take effect (`InFlight`). The loader does not take the lock.

### Catalog

| State | Code |
|---|---|
| `exists` | the row of `productions` |
| `types` | `item_types` by id, with name and `archived_at` |
| `pc`, `target`, `name` | a request after its check, and what it will write |
| `seen` | the map of `seedDefaultItemTypes` |
| `seeded`, `ever`, `alone` | history: creation answered without an error, names types have had, no two requests have met |

`CreateProduction`, `SeedList`, `SeedNext`, `SeedDone` are the handler of a new
production, one statement each. `Submit...` is a handler of the item types page
up to its write, with `hasDuplicate` (`Check`); the action named like the handler
is the write, which the partial unique index (`Free`) may refuse.

### Screens

| State | Code |
|---|---|
| `items`, `roster`, `shelved` | `costume_items`, `actors`, archived `item_types` of a production |
| `page` | what a browser tab shows: the result of the queries of a page |
| `promised` | the count of the link that led to the page |
| `overtaken` | history: something was written since that count was read |
| `seen`, `still`, `shifted`, `pushed` | history of a search: how often each item was listed; untouched items, and those before which an item has left or come in |

Each operator named like a query is that query: `Joined` is the join of actors
and items, `Count` is `COUNT(ci.id)`, `TypeRows` adds the inner joins of the
summary and of reports, `Matches` and `Listed` are the WHERE and the LIMIT of a
search. `Query`, `SummaryQuery` and `Parse` are the two writers and the reader
of query strings. `Open...` opens a page by its address, `Follow...` by a count
on another page; `ReadSummaries` and `ReadAccessories` are second statements of
a page. `Write` is every other transaction of the production.

### BulkText

| State | Code |
|---|---|
| `text`, `allowNew` | the form; a line is blank, invalid or a name |
| `actors`, `types` | names in the production before the import |
| `line`, `current`, `blocks`, `fault` | locals and result of `Parse` |
| `block`, `item`, `rows`, `valid` | the loops and the result of `Preview` |
| `row`, `hired`, `added`, `items` | the loop of `Commit`, `actorByName` and `typeByName`, the items it inserts |

`Parse` has one action per kind of line, `PreviewRow` and `CommitRow` are one
pass of a loop. Nobody else writes meanwhile: `BulkImport` is about who does, and
takes of a text the names it mentions.

### Shutdown

| State | Code |
|---|---|
| `main`, `failed` | `run`, `Run`, the defers; whether an error is returned |
| `ctxDone` | the context of `signal.NotifyContext` |
| `serve`, `serveResult`, `closing` | the goroutine that serves, its channel, the closed listener |
| `conn`, `handler` | a request: what its client got, what its handler does |
| `photos`, `worker` | the photo service and its workers |
| `database` | `storage.DB` |

`LifeInit`, `LifeNext` and `LifeSpec` are called so because `ProcessProofs`
extends `Migrations` as well. The main goroutine walks `Open`, `Prepare`, `StartPhotos`, `NewHandler`,
`Listen`, then `ServeEndedFirst` or `BeginShutdown`, `ShutdownReturns` or
`ShutdownTimesOut`, `Collect`, and back through `Stop`, `ClosePhotos`,
`WaitWorkers`, `CloseDatabase`. A step that fails goes to the defers registered so
far. `Signal` may come at any time; before the context exists and after `stop`
it kills the process. `http.Server`, `http.TimeoutHandler` and
`signal.NotifyContext` are modelled from how the code uses them. The photo
service is here what can hold the end of the process up; `PhotoPipeline` has
the rest of it and sees of this module `main` alone.

## 3 Runs

| Run | Bounds | Shows |
|---|---|---|
| `photo_safety` | 2 sound photos, 2 workers, page and queue of 1, 2 faults of any kind, 1 stop | one owner, no stranded photo, acknowledged kept, ready only when complete, refinement of `PhotoLifecycle` |
| `photo_settles` | 2 photos (1 corrupt), 1 worker, 1 statement fault, 1 stop; fair | with a sound disk ready rows have files and only corrupt photos fail; owed rows settle, also after a restart (`KeepsLifecyclePromise`); `Close` returns |
| `bulk_once` | 1 preview, 3 requests, TTL 4, request 2, 1 renamed actor, 1 crash | at most one import, previews kept for a retry |
| `bulk_scope` | 2 previews, 2 requests, 1 edit, 1 crash; fair | the production cannot change under an import; no second actor; every import lets go of `inflight` and the row lock |
| `bulk_text` | every text of up to 6 lines over 2 names, blank and invalid lines, every scope before | the first fault is reported, blocks are runs, items follow the text, the preview foretells the import |
| `item_edit` | 2 windows, 2 texts, statuses Find and Complete, 3 transactions | versions identify rows, the CHECK holds, stale forms are refused |
| `item_codes` | 3 requests, 0 to 2 old items, 4 new ones, 2 failures; fair | codes unique, without gaps (refinement of `CodeBook`), lists in order, deadlocks only over the first code, every request ends |
| `migrate` | 2 processes of releases 1 to 3, 1 loader for release 2, 1 fault, 1 death; fair | history and tables agree, only migrated databases served, starts do not fail each other, loads into empty targets, the lock is given back |
| `catalog` | 3 requests, 2 default names and 1 more, 4 types, 4 edits, 1 fault | names unique without interleaving, answered creations are seeded |
| `screens` | 2 actors, 2 types (1 accessory), 2 statuses, 0 to 2 items at first and 3 in all, 2 writes, pages of 1 or 2 | types of what pages show, queries agree, counts are lengths of lists, a search misses only what others have shifted |
| `shutdown` | 2 requests, 2 workers; fair | a clean return cuts nobody off, a failing server is reported, the database is closed last, the process ends |
| `item_lost_update` | 2 windows, smallest that shows it | expected violation, section 4 |

The type invariant of every module is a theorem (section 6); the run of
`Screens` checks it, too.

Why the bounds are enough. A photo race needs one photo in two hands or two
photos competing for one slot of the page, the queue or a signal; with a page of
one the second photo is already "beyond the page", and a late commit of the
first is "in front of it". The guard against double imports is about one
preview; the third request covers a late one that was admitted after the first
was forgotten. Time needs `TTL = 2 * Life` with `Life` at least 2 so that a
request can be late by one tick and still run, and a clock of `2 * TTL`. A lost
update needs two windows; a third transaction lets one slip between read and
write. Codes need two transactions that wait for each other and a third that
waits for both; four new items let an import of two meet a paste of one and a
form. For migrations two processes of different releases are what an upgrade
is, and release 3 has a process meet migrations it does not know. For item types two
requests race for a name and a third archives, restores or imports one between
them; with four types a name can be taken by an archived and a live type at
once. A page of a search needs a list longer than a page and an item that moves
between two pages: three items, pages of one, two writes, one to move it and one
to move another back. Faults of a text that compete for being the first need two
blocks and a blank line between them; six lines hold three blocks, or two with a
repeated pair. One request may be cut off while another is answered; a third
behaves like one of them. Counters (`faults`, `stops`, `edits`, `asked`, `clock`) have no other
effect than to end. For the safety properties the proofs remove these bounds.

Deadlock is checked except where the system may come to rest: all photos
settled, all requests answered, an archived item, or a used-up bound.

## 4 Findings

*`ExpectedUpdatedAt` is never compared in `Update`* (`item_lost_update`,
`repositories.go:638`). A comment of the workspace says "stale writes return
409" (`dashboard.go:133`); the handlers compare `updated_at` with a row they read
outside of the transaction, so two overlapping submits of the same page are both
accepted.

What else the models show, where no comment or test of the repository promises
otherwise, or where the promise is weaker than one might think:

- *A stale page sends a settled photo again* (`service.go:427`). A page read
  before `MarkReady` may be used after the worker released the photo. If the
  second pass meets a disk error it removes the derivatives of a ready row for
  good. `ReadyHasDerivatives` is therefore stated, and proved, for a sound disk.
- *A lost answer to a COMMIT allows a second import* (`bulk_import.go:292`). The
  preview is kept for a retry. `ImportedOnce` assumes `LostAnswers = FALSE`.
- *Actors are resolved again at commit* (`bulk_import.go:229`): one that was
  renamed since the preview is created anew. `NoSecondActor` is proved where no
  actor is renamed.
- *`Upload` may remove the original of a committed row* (`service.go:187`) when
  `Create` took effect and answered an error: the row ends as failed.
- *Seeding may stop half way* (`actors.go:467`), also because somebody else added
  a default type meanwhile; the production stays without the rest.
- *A server that fails by itself is not drained* (`application.go:61`): `Run`
  returns at once, and requests in progress end with the process.
- *The checks of the scope are plain reads* (`repositories.go:88`): in READ
  COMMITTED an item may be written into a scope or a type that is archived
  between the check and the write.
- *The insert of a type may deadlock with an import of the same type*
  (`repositories.go:374`): it writes the unique index before it asks for the
  key-share lock on the production. PostgreSQL ends one of the two.
- *Ages are differences of wall clock times*: `UTC()` drops the monotonic
  reading, so setting the clock changes when previews expire.

## 5 Fairness

- `PhotoPipeline!Fairness`: weak fairness of every goroutine that has begun and
  of the start of a stopped process. The Go scheduler runs what can run; every
  blocking point is a `select` that stays ready once ready. Nothing forces an
  upload, a shutdown, a crash or a fault. Faults are transient, so bounded.
- `BulkImport!Fairness`: weak fairness of each request's next step. The database
  steps end at the request's timeout at the latest (`DbFails`), and the steps
  between them only take mutexes. Waiting for the row lock ends the same way.
- `ItemCodes!Fairness`: weak fairness of each request's next statement, and the
  server looks for deadlocks (`deadlock_timeout`). New requests are bounded, so
  that nobody is overtaken for ever; in PostgreSQL lock queues see to that.
- `Migrations!Fairness`: a start goes on until `startupCtx` expires, and the
  server notices broken connections. Nothing forces a start, a fault or a death.
- `Shutdown!LifeFairness`: weak fairness of the main goroutine, of the serving
  goroutine and of a worker that is busy or has been cancelled. `Shutdown` has a
  timeout and the workers watch their context, so nothing else is needed;
  handlers and clients may hang for ever.
- `ItemEditing`, `Catalog`, `Screens` and `BulkText` have no liveness property:
  every request ends by its timeout, and loops run over a list.

## 6 Proofs

`tlapm` proves, for every value of the constants that satisfies the named
assumptions, the theorems listed in `PROJECT.json`. Each is
`Spec => []Inv` or `Spec => [][A]_vars` from an inductive invariant.

**PhotoPipelineProofs.** Assumption: `PhotoAssumption`. The invariant is
`TypeOK` with
*OwnerInv*: `queued` is exactly the disjoint union of what the queue, the
dispatcher and the workers hold (`OneOwner` alone is not inductive, since a
worker could take a photo the queue holds twice);
*KeptInv*: where an upload is says whether its row and original exist;
*WakeInv*: every owed row is announced, held or will be looked for
(*Stirring*), which is what `NoStrandedPhoto` needs across dropped signals;
*SavedInv*: a worker that is about to mark ready has written both files and
nobody else can remove them (by *OwnerInv*).
`PipelineImplementsLifecycle` maps `row <- status` and `promised` to the rows of
finished uploads, initial state and step by step. `ReadyPhotosHaveFiles` and
`OnlyCorruptPhotosFail` have one assumption more, *SoundDisk* (statements are
the only thing that fails), and an invariant of their own, *SoundInv*: rows have
their originals, what anybody holds has a row, and a worker's next step says
whether the photo it holds is corrupt.

**BulkImportProofs.** Assumptions: `BulkAssumption`; `ShortRequests`
(`2 * Life <= TTL`), which is tight: with `TTL = 2 * Life - 1` TLC finds a
double import. The default request timeout is 30 s against a TTL of 600 s, but
`COSTUME_TREE_REQUEST_TIMEOUT` may be any positive duration. At-most-once also
assumes `LostAnswers = FALSE` (section 4), and `ImportsShareActors` that
`"renameActor"` is not among the edits. The invariant adds to `TypeOK`:
*LockInv* (who holds the row), *BornInv*, *PutInv* and *TimeInv* (how old what a
request holds may be), *InflightInv* (a request inside the guarded section owns
its entry), *ProgressInv*, *CommittedInv* and *OnceInv* (an imported preview is
remembered for as long as any request could still submit it), *UsedInv* and
*PlanInv* (what a transaction will add is still missing when it commits).
`PreviewsKeptForRetry` needs none of the extra assumptions: by *DoneInv* a
request that is about to answer with success, and a remembered preview, stand
for an import, and imports are only ever added.

**BulkTextProofs.** Assumption: `BulkTextAssumption`, so for texts of any
length. The loop's invariant says how far it has come: *CompleteInv* (the
blocks so far are runs, in order, with the items of their lines), *CurrentInv*
(so is the block being read, but for its end), *CoverInv* (every filled line read
belongs to one of them; without it a lost line could not be told from a blank
one) and *EndInv* (what is true of the final answer). For commit, *RowsInv* says
what the rows stand for, *CommitInv* what has been created and what was there
before. `ItemsAreLines` needs *FollowInv* in addition: while the rows are walked,
the items made so far are the item lines in front of the cursor, each once.

**ItemEditingProofs.** Assumption: `ItemAssumption`. The invariant is `TypeOK`,
*Bounded* (all stamps are at most the clock), *Distinct* (no two pending stamps
are equal or equal to a stamp shown), `StampIdentifies`, *Checked* (`FitsCheck`
for requests that have not begun, too) and *Followed* (a request that missed
nothing still has the row it read). `AloneLosesNothing` is the other side of the
finding of section 4: `NoLostUpdate`, which the run refutes, holds of behaviours
in which at most one request is in progress (`Spec /\ []Alone`), by *ShownInv*.

**ItemCodesProofs.** Assumption: `CodesAssumption`. Everything follows from one
fact (*RowInv*): only the owner of the sequence row has uncommitted items, and
their codes are the ones after `seq`, in a row. *HoldInv* says which locks go
with which statement, *CodeInv* that the committed codes are `1..seq`, *OrderInv*
that ids and codes grow together. `CodesUnique` alone is not inductive: a request
could hold a number that another has committed. `CodesImplementBook` maps
`last <- seq`, `codes <- Codes`.

**CatalogProofs.** Assumption: `CatalogAssumption`. The invariant is `TypeOK`,
*TypesInv* (which has `LiveNamesUnique`, by the index and no check of the
handlers), *ExistInv*, *SeedInv* (what is in `seen` has been a type) and
*AloneInv*: while no two requests have met, what the only one in progress has
found out still holds.

**ScreensProofs.** Assumptions: `ScreensAssumption`, `FormsAssumption` (a search
is opened at its first page). Two facts carry everything. *SumOfParts*: a finite
set that falls into parts is as large as their sizes together. `SumOf` is the
size of a union of disjoint sets, so this needs no induction but a bijection,
put together from those that count the parts. With it the figures of every query
are counts of one set of items (`Of`, `OfType`), and the identities of
`RollupsAgree` follow. *PositionsFill*: the search's order is total, so the
positions of `n` matches are `0..n-1`, and a page with an item behind it is full
(*FullPage*): the link to the next page is never missing. The invariants are
*WalkInv* (where the pages read so far end, an untouched item that has not been
listed lies behind and one that has been lies ahead, unless others have moved it
across; `WalkMissesOnlyShifted` only speaks of the last page) and *CountInv*
(until somebody writes, a page shows the database as it is, and a search has
listed exactly the items in front of its page's end). That a link reads back as
the filters it was written from is *ParseQuery* and *ParseSummaryQuery*.
`QuietWalksAreExact` says of every search, also of one that no count has led to,
that its pages list each match once when nobody writes.

**ProcessProofs.** For `Migrations` the assumption is `MigrationsAssumption`. The
invariant is `TypeOK` (whoever is inside `Migrate` holds the lock), *Found* (what
a process has read of the schema stays true while it holds the lock) and
`ServingMigrated`. The loader takes no lock; it need not, because it only ever
creates the history, and a process that has found one is not disturbed. The
lemma `SchemaSteps` reduces every action to four things that can happen to the
schema, and the action properties follow from it. `Shutdown` needs no
assumption, so its theorems hold for any sets of requests and workers. Its
invariant is `LifeTypeOK`, *ServeInv* (what the serving goroutine and
the listener can be while the main goroutine is where it is), *DrainInv* (a
shutdown that returned has nobody left inside) and *WorkerInv* (the workers have
ended before the database closes).

Only model-checked:

- All liveness properties, which TLAPS does not reach here: `CloseReturns`,
  `KeepsLifecyclePromise`, `ImportsLetGo`, `RequestsEnd`, `LockReleased`,
  `ProcessEnds`. Every other property of the passing runs is a theorem.

## 7 What is left out

- *Photos*: temporary files and directory syncs, image contents, `Resolve` and
  other readers, several processes on one directory.
- *Imports*: rows beyond the sets of names they mention (`BulkText` has the
  rows); refusals that differ only in wording (unknown token, other session,
  other production) are one. The clock is never set: `UTC()` drops the monotonic
  reading, so setting the wall clock would change ages.
- *Text*: line ends, trimming, case folding and the characters a line may have;
  nobody else writes between the preview and the import (`BulkImport` has that).
- *Editing*: one item; photo upload in the same form (that is `PhotoPipeline`'s
  `Upload`); refused forms, which change nothing; two transactions that begin in
  the same microsecond.
- *Codes*: one production (the sequence rows of two never meet); the key-share
  locks on actors and item types, which nothing conflicts with; `AllocateCode`,
  which only a test calls; columns other than code and id.
- *Migrations*: releases are linear, and a migration's script is the set of its
  tables; the reads of the loader's check are one step; `pg_restore` is only the
  kind of database it may leave (`Init`); copying and verifying the rows.
- *Catalog*: a name stands for all its spellings, which the handlers fold and the
  index lowers; one production, which stays (no handler renames or archives it);
  refused forms, which change nothing; the deadlock of an insert of a type with
  an import of the same type, noted under hazards.
- *Screens*: filters by code, text and progress; the columns and the order of
  printed rows; archived productions, since no route archives one. The report's
  list of accessories matches only a type named `accessories`, while the default
  type is `Accessory`; names of types are not in the model.
- *Shutdown*: idle keep-alive connections, `Run`'s checks of its arguments, what
  handlers and workers do (`PhotoPipeline` has the workers).
- For good: rendering, configuration, routing and build files, which keep no
  state and make no decision that another part relies on.

## 8 Plan

Done, in this order: `PhotoPipeline` with `PhotoLifecycle`, `BulkImport`,
`ItemEditing`, `Migrations`, `ItemCodes` with `CodeBook`, `Catalog`, `Screens`,
`BulkText`, `Shutdown`, each with its proofs. Each module is
self-contained; where two parts meet in the database (an import numbering items,
an import creating types) the module of the shared rows has the other's
transaction as one of its actions.

What could come next:

1. The page of one actor (`EditActor` and its form) beside the item handlers.
2. The loader's copy and verification, all or nothing.
3. An *import ledger* (each preview at most once, all rows or none) that
   `BulkImport` implements.
4. The safety part of the lifecycle promises that are only checked as liveness:
   which steps are left to a photo, an import or a shutdown decrease a measure.

Runs stay within minutes; where a new module needs one, expected violations give
way first.
