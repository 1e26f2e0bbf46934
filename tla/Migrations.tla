------------------------------ MODULE Migrations ------------------------------
(***************************************************************************)
(* How a database gets its schema: processes of several releases that      *)
(* start at once (run() in cmd/costume-tree/main.go, Migrate and Ready in  *)
(* internal/storage/db.go, validateSchema in validation.go), and the       *)
(* one-time loader (scripts/migrate-sqlite-to-postgres.sh).                *)
(*                                                                         *)
(* Release n embeds the migrations 1..n.  Migrate works on one connection  *)
(* under a session advisory lock; each migration and its row of            *)
(* schema_migrations are one transaction, so one step.  The loader does    *)
(* not take that lock.  The connection of a process that dies may outlive  *)
(* it, as a ghost that holds the lock until the server notices.            *)
(***************************************************************************)
EXTENDS Integers

CONSTANTS
    Processes,    \* processes of the application
    Releases,     \* releases that are ever started
    Current,      \* the release the loader was written for
    Loaders,      \* runs of the loader, each with an SQLite file of its own
    MaxFaults,    \* bound: failing statements
    MaxStops      \* bound: processes that die

Free  == "free"
Ghost == "ghost"
App   == "application"     \* origin of rows that users entered

ASSUME MigrationsAssumption ==
    /\ Releases \subseteq Nat \ {0}
    /\ Current \in Nat \ {0}
    /\ {Free, Ghost} \intersect Processes = {}
    /\ App \notin Loaders /\ Free \notin Loaders
    /\ MaxFaults \in Nat /\ MaxStops \in Nat

VARIABLES
    \* the database
    hasHistory,   \* whether schema_migrations exists
    recorded,     \* versions in schema_migrations
    tables,       \* versions whose tables and indexes exist
    foreign,      \* whether there are tables of something else
    lock,         \* holder of the advisory lock
    rows,         \* where the rows come from: App or the source of a loader
    marker,       \* source in sqlite_migration_source
    \* the processes
    pc, release,
    applied,      \* the history that Migrate read, and what it added
    ok,           \* whether Migrate is going to return without an error
    \* the loader
    lpc,
    \* bounds
    faults, stops

schema  == <<hasHistory, recorded, tables, foreign>>
content == <<rows, marker>>
process == <<pc, release, applied, ok>>
bounds  == <<faults, stops>>
vars == <<schema, lock, content, process, lpc, bounds>>

Inside == {"inspect", "create", "read", "apply", "validate", "unlock"}
Pcs    == {"down", "lock", "ready", "serving"} \union Inside

\* A new database, one that some release migrated, or one that is not as its
\* history says: restored in part, or of another program.
Init ==
    /\ hasHistory \in BOOLEAN
    /\ \E n \in Releases \union {0} : recorded = 1..n
    /\ ~hasHistory => recorded = {}
    /\ \E n \in Releases \union {0} : tables = 1..n
    /\ foreign \in BOOLEAN
    /\ lock = Free
    /\ rows \in IF tables = {} THEN {{}} ELSE {{}, {App}}
    /\ marker = Free
    /\ pc = [p \in Processes |-> "down"]
    /\ release = [p \in Processes |-> 0]
    /\ applied = [p \in Processes |-> {}]
    /\ ok = [p \in Processes |-> FALSE]
    /\ lpc = [l \in Loaders |-> "idle"]
    /\ faults = 0 /\ stops = 0

Goto(p, to) == pc' = [pc EXCEPT ![p] = to]

\* userTableCount() = 0, and the loader's count of relations.
NoTables == ~hasHistory /\ tables = {} /\ ~foreign

-----------------------------------------------------------------------------
(* Migrate.                                                                *)

\* An error: the deferred unlock is next.
Fail(p) == Goto(p, "unlock") /\ ok' = [ok EXCEPT ![p] = FALSE]

Boot(p) ==
    /\ pc[p] = "down"
    /\ Goto(p, "lock")
    /\ \E n \in Releases : release' = [release EXCEPT ![p] = n]
    /\ ok' = [ok EXCEPT ![p] = FALSE]
    /\ applied' = [applied EXCEPT ![p] = {}]
    /\ UNCHANGED <<schema, lock, content, lpc, bounds>>

\* Seeded bug: pg_try_advisory_lock, and its answer is not looked at.
LockAnyway(p) ==
    /\ pc[p] = "lock"
    /\ lock' = IF lock = Free THEN p ELSE lock
    /\ Goto(p, "inspect")
    /\ UNCHANGED <<schema, content, release, applied, ok, lpc, bounds>>

Lock(p) ==
    /\ pc[p] = "lock" /\ lock = Free
    /\ lock' = p
    /\ Goto(p, "inspect")
    /\ UNCHANGED <<schema, content, release, applied, ok, lpc, bounds>>

\* startupCtx expires while another session holds the lock.
LockTimeout(p) ==
    /\ pc[p] = "lock" /\ lock # Free
    /\ Goto(p, "down")
    /\ UNCHANGED <<schema, lock, content, release, applied, ok, lpc, bounds>>

Inspect(p) ==
    /\ pc[p] = "inspect"
    /\ \/ hasHistory /\ Goto(p, "read") /\ UNCHANGED ok
       \/ NoTables /\ Goto(p, "create") /\ UNCHANGED ok
       \/ ~hasHistory /\ ~NoTables /\ Fail(p)
    /\ UNCHANGED <<schema, lock, content, release, applied, lpc, bounds>>

CreateHistory(p) ==
    /\ pc[p] = "create"
    /\ \/ ~hasHistory /\ hasHistory' = TRUE /\ Goto(p, "read") /\ UNCHANGED ok
       \/ hasHistory /\ Fail(p) /\ UNCHANGED hasHistory
    /\ UNCHANGED <<recorded, tables, foreign, lock, content, release, applied, lpc, bounds>>

\* readMigrationHistory and validateMigrationHistory.
Known(p) == recorded \subseteq 1..release[p]

ReadHistory(p) ==
    /\ pc[p] = "read"
    /\ applied' = [applied EXCEPT ![p] = recorded]
    /\ \/ Known(p) /\ Goto(p, "apply") /\ UNCHANGED ok
       \/ ~Known(p) /\ Fail(p)
    /\ UNCHANGED <<schema, lock, content, release, lpc, bounds>>

\* The next migration in version order.
IsNext(p, v) == /\ v \in 1..release[p] \ applied[p]
                /\ \A u \in 1..release[p] \ applied[p] : v <= u

\* Seeded bug: the script and its record are two transactions.
RunUnrecorded(v) == tables' = tables \union {v} /\ UNCHANGED recorded

\* The transaction of one migration.
Run(v) == tables' = tables \union {v} /\ recorded' = recorded \union {v}

\* Its script creates tables, which must not exist, with references to
\* those of the migrations before it; the record is a primary key.
Runnable(v) == v \notin tables /\ v \notin recorded /\ 1..(v - 1) \subseteq tables

Apply(p) ==
    /\ pc[p] = "apply"
    /\ \E v \in 1..release[p] : IsNext(p, v) /\
          \/ /\ Runnable(v) /\ Run(v)
             /\ applied' = [applied EXCEPT ![p] = @ \union {v}]
             /\ UNCHANGED <<pc, ok>>
          \/ ~Runnable(v) /\ Fail(p) /\ UNCHANGED <<tables, recorded, applied>>
    /\ UNCHANGED <<hasHistory, foreign, lock, content, release, lpc, bounds>>

ApplyDone(p) ==
    /\ pc[p] = "apply" /\ 1..release[p] \subseteq applied[p]
    /\ Goto(p, "validate")
    /\ UNCHANGED <<schema, lock, content, release, applied, ok, lpc, bounds>>

\* Seeded bug: only the history is compared.
ValidHistory(p) == recorded = 1..release[p]

\* validateSchema: the history is complete, and so are tables and indexes.
Valid(p) == recorded = 1..release[p] /\ 1..release[p] \subseteq tables

Validate(p) ==
    /\ pc[p] = "validate"
    /\ Goto(p, "unlock")
    /\ ok' = [ok EXCEPT ![p] = Valid(p)]
    /\ UNCHANGED <<schema, lock, content, release, applied, lpc, bounds>>

\* Seeded bug: the connection returns to the pool with the lock.
UnlockOnError(p) ==
    /\ pc[p] = "unlock"
    /\ lock' = IF ok[p] THEN lock ELSE Free
    /\ Goto(p, IF ok[p] THEN "ready" ELSE "down")
    /\ UNCHANGED <<schema, content, release, applied, ok, lpc, bounds>>

\* The deferred pg_advisory_unlock; an error of Migrate ends run().
Unlock(p) ==
    /\ pc[p] = "unlock"
    /\ lock' = Free
    /\ Goto(p, IF ok[p] THEN "ready" ELSE "down")
    /\ UNCHANGED <<schema, content, release, applied, ok, lpc, bounds>>

\* Ready, without the lock.
Ready(p) ==
    /\ pc[p] = "ready"
    /\ Goto(p, IF Valid(p) THEN "serving" ELSE "down")
    /\ UNCHANGED <<schema, lock, content, release, applied, ok, lpc, bounds>>

Step(p) == \/ Lock(p) \/ LockTimeout(p) \/ Inspect(p) \/ CreateHistory(p)
           \/ ReadHistory(p) \/ Apply(p) \/ ApplyDone(p) \/ Validate(p)
           \/ Unlock(p) \/ Ready(p)

-----------------------------------------------------------------------------
(* Failures.                                                               *)

\* What was sent as p's connection broke may still take effect.
InFlight(p) ==
    \/ /\ pc[p] = "create" /\ ~hasHistory
       /\ hasHistory' = TRUE /\ UNCHANGED <<recorded, tables>>
    \/ /\ pc[p] = "apply"
       /\ \E v \in 1..release[p] : IsNext(p, v) /\ Runnable(v) /\ Run(v)
       /\ UNCHANGED hasHistory
    \/ UNCHANGED <<hasHistory, recorded, tables>>

\* The connection breaks; its lock goes when the server notices.
Abandon(p) == lock' = IF lock = p THEN Ghost ELSE lock

\* A statement fails, with the connection or without it.  Waiting for the
\* lock, p may have been given it when the answer is lost.
DbFails(p) ==
    /\ pc[p] \in Inside \union {"lock", "ready"}
    /\ faults < MaxFaults /\ faults' = faults + 1
    /\ \/ /\ pc[p] \in Inside \ {"unlock"}
          /\ Fail(p) /\ InFlight(p) /\ UNCHANGED lock
       \/ /\ pc[p] \in Inside \union {"ready"}
          /\ Goto(p, "down") /\ InFlight(p) /\ Abandon(p) /\ UNCHANGED ok
       \/ /\ pc[p] = "lock"
          /\ Goto(p, "down") /\ lock' \in IF lock = Free THEN {Free, Ghost} ELSE {lock}
          /\ UNCHANGED <<hasHistory, recorded, tables, ok>>
    /\ UNCHANGED <<foreign, content, release, applied, lpc, stops>>

\* The process dies, or is stopped.
Crash(p) ==
    /\ pc[p] # "down"
    /\ stops < MaxStops /\ stops' = stops + 1
    /\ Goto(p, "down") /\ InFlight(p) /\ Abandon(p)
    /\ UNCHANGED <<foreign, content, release, applied, ok, lpc, faults>>

\* The server ends the session of a broken connection.
GhostEnds ==
    /\ lock = Ghost /\ lock' = Free
    /\ UNCHANGED <<schema, content, process, lpc, bounds>>

-----------------------------------------------------------------------------
(* The loader.                                                             *)

LGoto(l, to) == lpc' = [lpc EXCEPT ![l] = to]

\* The relations of the target are counted.
LoaderInspect(l) ==
    /\ lpc[l] = "idle"
    /\ LGoto(l, IF NoTables /\ marker = Free THEN "init" ELSE "check")
    /\ UNCHANGED <<schema, lock, content, process, bounds>>

\* initialize-target.sql: everything in one transaction, or nothing.
LoaderInit(l) ==
    /\ lpc[l] = "init"
    /\ \/ /\ ~hasHistory /\ tables = {}
          /\ hasHistory' = TRUE /\ recorded' = 1..Current /\ tables' = 1..Current
          /\ LGoto(l, "check")
       \/ LGoto(l, "idle") /\ UNCHANGED <<hasHistory, recorded, tables>>
    /\ UNCHANGED <<foreign, lock, content, process, bounds>>

\* The target is the complete schema and nothing else, not loaded and empty.
LoaderCheck(l) ==
    /\ lpc[l] = "check"
    /\ LGoto(l, IF /\ hasHistory /\ recorded = 1..Current
                   /\ tables = 1..Current /\ ~foreign
                   /\ marker = Free /\ rows = {}
                THEN "load" ELSE "idle")
    /\ UNCHANGED <<schema, lock, content, process, bounds>>

\* Seeded bug: the load relies on what LoaderCheck found.
LoadChecked(l) == recorded = 1..Current

\* migration_target_empty, and the comparison of the counts of all tables.
Loadable(l) == marker = Free /\ rows = {} /\ recorded = 1..Current

\* load-target.sql, with every table locked ACCESS EXCLUSIVE.
LoaderLoad(l) ==
    /\ lpc[l] = "load"
    /\ \/ Loadable(l) /\ rows' = rows \union {l} /\ marker' = l
       \/ UNCHANGED content
    /\ LGoto(l, "idle")
    /\ UNCHANGED <<schema, lock, process, bounds>>

Loader(l) == LoaderInspect(l) \/ LoaderInit(l) \/ LoaderCheck(l) \/ LoaderLoad(l)

\* A user enters something.
Serve(p) ==
    /\ pc[p] = "serving"
    /\ rows' = rows \union {App}
    /\ UNCHANGED <<schema, lock, marker, process, lpc, bounds>>

Next == \/ \E p \in Processes : Boot(p) \/ Step(p) \/ DbFails(p) \/ Crash(p) \/ Serve(p)
        \/ GhostEnds
        \/ \E l \in Loaders : Loader(l)

\* A start goes on, until startupCtx expires at the latest, and the server
\* notices broken connections.  Nobody has to start a process or a loader.
Fairness == /\ \A p \in Processes : WF_vars(Step(p))
            /\ WF_vars(GhostEnds)

Spec == Init /\ [][Next]_vars
FairSpec == Spec /\ Fairness
-----------------------------------------------------------------------------
(* Properties.                                                             *)

\* Each variable has its type, and Migrate holds the lock from its first look
\* at the schema to the end.
TypeOK ==
    /\ hasHistory \in BOOLEAN /\ foreign \in BOOLEAN
    /\ recorded \subseteq Nat \ {0} /\ tables \subseteq Nat \ {0}
    /\ lock \in Processes \union {Free, Ghost}
    /\ rows \subseteq Loaders \union {App} /\ marker \in Loaders \union {Free}
    /\ pc \in [Processes -> Pcs]
    /\ release \in [Processes -> Nat]
    /\ applied \in [Processes -> SUBSET (Nat \ {0})]
    /\ ok \in [Processes -> BOOLEAN]
    /\ lpc \in [Loaders -> {"idle", "init", "check", "load"}]
    /\ faults \in Nat /\ stops \in Nat
    /\ \A p \in Processes : pc[p] \in Inside => lock = p

\* A migration and its record appear together, whatever breaks: the history
\* never claims what is not there, and nothing is there that it conceals.
RecordedWithTables == [][recorded' \ recorded = tables' \ tables]_vars

\* "Existing schemas without migration history are never modified."
UnknownUntouched == [][~hasHistory /\ ~NoTables => UNCHANGED schema]_vars

\* A process that serves has every migration of its release, and the tables.
ServingMigrated ==
    \A p \in Processes : pc[p] = "serving" => 1..release[p] \subseteq recorded \intersect tables

\* What makes a start fail although nothing breaks: a newer history, a schema
\* that is not as its history says, a loader that got ahead.
Unfit(p) == \/ ~Known(p) \/ recorded # tables
            \/ (~hasHistory /\ foreign)
            \/ (pc[p] = "create" /\ hasHistory)

\* Processes that start at once do not make each other fail.
StartsTogether ==
    [][\A p \in Processes :
          pc[p] \in Inside \ {"unlock"} /\ pc'[p] = "unlock" /\ ~ok'[p]
          => faults' # faults \/ Unfit(p)]_vars

\* A source is loaded into an empty database, and only once, although users
\* and other loaders write at the same time.
LoadedAlone == [][\A l \in Loaders : l \in rows' \ rows => rows = {} /\ marker = Free]_vars

\* Whoever holds the lock gives it back, also by breaking down.
LockReleased == \A p \in Processes : lock = p ~> lock # p
=============================================================================
