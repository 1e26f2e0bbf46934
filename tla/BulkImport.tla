------------------------------ MODULE BulkImport ------------------------------
(***************************************************************************)
(* Bulk imports: the preview store of the web handler (internal/web/       *)
(* bulk_import.go), the importer with its in-memory guard against a second *)
(* submit and its one database transaction (internal/storage/              *)
(* bulk_import.go), and the other writers of the same production's scope.  *)
(*                                                                         *)
(* One production; every preview below is of it.  A request has at most    *)
(* Life ticks: http.TimeoutHandler cancels its context, which fails its    *)
(* database steps, and the steps between them wait for nothing but a mutex *)
(* that is never held across I/O.  The commit transaction is three steps:  *)
(* it takes the production's row lock, reads the scope, and writes and     *)
(* commits; what it writes is invisible until then.  The wall clock is     *)
(* taken never to be set, so that no preview is older or younger than the  *)
(* time it has existed, and the lower bound on its age always holds.       *)
(***************************************************************************)
EXTENDS Integers

CONSTANTS
    Previews,     \* the random tokens (and preview ids) ever drawn
    Requests,     \* request goroutines
    ActorNames, TypeNames,    \* name keys of actors and item types
    Productions,  \* names the production may be given
    TTL,          \* BulkImportPreviewTTL
    Life,         \* how long one request may take (the request timeout)
    Edits,        \* kinds of edits other handlers make, see Edit
    LostAnswers,  \* whether the answer to a COMMIT that took effect may be lost
    MaxClock,     \* bound: ticks of the clock
    MaxEdits,     \* bound: edits by other handlers
    MaxStops      \* bound: times the process dies

NoTime    == -1
NoPreview == "no preview"
NoRequest == "no request"
EditKinds == {"createActor", "renameActor", "archiveActor",
              "addType", "archiveType", "renameProduction", "archiveProduction"}

ASSUME BulkAssumption ==
    /\ NoPreview \notin Previews
    /\ NoRequest \notin Requests
    /\ TTL \in Nat /\ Life \in Nat
    /\ Edits \subseteq EditKinds
    /\ LostAnswers \in BOOLEAN
    /\ MaxClock \in Nat /\ MaxEdits \in Nat /\ MaxStops \in Nat

\* Settings.RequestTimeout is any positive duration, 30 seconds by default;
\* the TTL is 10 minutes.  The guard is sound while this holds.
ASSUME ShortRequests == 2 * Life <= TTL

VARIABLES
    clock,        \* the wall clock (UTC() drops the monotonic reading)
    \* the database
    name, archived,   \* the production row
    actors,       \* how many live actors have each name key
    types,        \* name keys of the live item types, unique by an index
    imports,      \* how many times the rows of each preview were imported
    lock,         \* holder of FOR UPDATE on the production row
    \* previews as drawn: CreatedAt, ProductionName, the actors and types of
    \* their rows, the actors resolved as existing, and AllowNewTypes
    born, seen, wantActors, wantTypes, existing, allowNew,
    \* the preview store
    stored,       \* tokens in entries
    until,        \* their expires
    used,         \* when each token in used was consumed
    \* the importer
    inflight, committed,
    \* the requests
    pc, token, since,
    newActors, newTypes,      \* what the transaction adds
    \* bounds
    edits, stops

scope    == <<name, archived, actors, types>>
database == <<scope, imports, lock>>
drawn    == <<born, seen, wantActors, wantTypes, existing, allowNew>>
store    == <<stored, until, used>>
importer == <<inflight, committed>>
plan     == <<newActors, newTypes>>
requests == <<pc, token, since, plan>>
bounds   == <<edits, stops>>
vars == <<clock, database, drawn, store, importer, requests, bounds>>

\* A request before and within the section that inflight guards.
Waiting == {"age", "admit"}
Inside  == {"lock", "resolve", "commit", "record", "leaveOk", "leaveError"}
Pcs     == {"idle", "put", "consume"} \union Waiting \union Inside

Init ==
    /\ clock = 0
    /\ name \in Productions /\ archived = FALSE
    /\ actors = [n \in ActorNames |-> 0]
    /\ types \in SUBSET TypeNames
    /\ imports = [p \in Previews |-> 0]
    /\ lock = NoRequest
    /\ born = [p \in Previews |-> NoTime]
    /\ seen = [p \in Previews |-> name]
    /\ wantActors = [p \in Previews |-> {}] /\ wantTypes = [p \in Previews |-> {}]
    /\ existing = [p \in Previews |-> {}] /\ allowNew = [p \in Previews |-> FALSE]
    /\ stored = {} /\ until = [p \in Previews |-> NoTime]
    /\ used = [p \in Previews |-> NoTime]
    /\ inflight = {} /\ committed = [p \in Previews |-> NoTime]
    /\ pc = [r \in Requests |-> "idle"]
    /\ token = [r \in Requests |-> NoPreview]
    /\ since = [r \in Requests |-> 0]
    /\ newActors = [r \in Requests |-> {}] /\ newTypes = [r \in Requests |-> {}]
    /\ edits = 0 /\ stops = 0

LiveActors == {n \in ActorNames : actors[n] > 0}

Goto(r, to) == pc' = [pc EXCEPT ![r] = to]

\* The request is answered.
Finish(r) == /\ Goto(r, "idle")
             /\ token' = [token EXCEPT ![r] = NoPreview]
             /\ since' = [since EXCEPT ![r] = 0]
             /\ newActors' = [newActors EXCEPT ![r] = {}]
             /\ newTypes' = [newTypes EXCEPT ![r] = {}]

\* Deletes what a map from tokens to times held for longer than the TTL.
Forget(times) == [p \in Previews |-> IF times[p] # NoTime /\ clock - times[p] > TTL
                                     THEN NoTime ELSE times[p]]

\* pruneLocked.
Prune == /\ stored' = {p \in stored : clock < until[p]}
         /\ used' = Forget(used)

-----------------------------------------------------------------------------
(* Drawing a preview.                                                      *)

\* Preview: the scope is read without locks, nothing is written.  What other
\* writers do between its reads they may as well do just after.  A preview
\* with an unknown type is valid only if new types are allowed; an invalid
\* one is not retained.
Preview(r, p) ==
    /\ pc[r] = "idle" /\ born[p] = NoTime /\ ~archived
    /\ \E as \in SUBSET ActorNames \ {{}}, ts \in SUBSET TypeNames \ {{}}, allow \in BOOLEAN :
          /\ allow \/ ts \subseteq types
          /\ wantActors' = [wantActors EXCEPT ![p] = as]
          /\ wantTypes' = [wantTypes EXCEPT ![p] = ts]
          /\ existing' = [existing EXCEPT ![p] = as \intersect LiveActors]
          /\ allowNew' = [allowNew EXCEPT ![p] = allow]
    /\ born' = [born EXCEPT ![p] = clock]
    /\ seen' = [seen EXCEPT ![p] = name]
    /\ Goto(r, "put")
    /\ token' = [token EXCEPT ![r] = p]
    /\ since' = [since EXCEPT ![r] = clock]
    /\ UNCHANGED <<clock, database, store, importer, plan, bounds>>

Put(r) ==
    /\ pc[r] = "put"
    /\ stored' = {p \in stored : clock < until[p]} \union {token[r]}
    /\ used' = Forget(used)
    /\ until' = [until EXCEPT ![token[r]] = clock + TTL]
    /\ Finish(r)
    /\ UNCHANGED <<clock, database, drawn, importer, bounds>>

-----------------------------------------------------------------------------
(* Committing a preview.                                                   *)

\* Seeded bug: get takes the preview out of the store.
LookupConsumes(r, p) ==
    /\ pc[r] = "idle" /\ ~archived
    /\ stored' = {q \in stored : clock < until[q]} \ {p}
    /\ used' = Forget(used)
    /\ \/ /\ p \in stored /\ clock < until[p]
          /\ Goto(r, "age")
          /\ token' = [token EXCEPT ![r] = p]
          /\ since' = [since EXCEPT ![r] = clock]
       \/ UNCHANGED <<pc, token, since>>
    /\ UNCHANGED <<clock, database, drawn, until, importer, plan, bounds>>

\* The handler's check of the production and previews.get.  A token that is
\* unknown, expired or used, and one that is submitted for another production
\* or from another session, is refused.
Lookup(r, p) ==
    /\ pc[r] = "idle" /\ ~archived
    /\ Prune
    /\ \/ /\ p \in stored'
          /\ Goto(r, "age")
          /\ token' = [token EXCEPT ![r] = p]
          /\ since' = [since EXCEPT ![r] = clock]
       \/ UNCHANGED <<pc, token, since>>
    /\ UNCHANGED <<clock, database, drawn, until, importer, plan, bounds>>

CheckAge(r) ==
    /\ pc[r] = "age"
    /\ IF clock - born[token[r]] > TTL
       THEN Finish(r)
       ELSE Goto(r, "admit") /\ UNCHANGED <<token, since, plan>>
    /\ UNCHANGED <<clock, database, drawn, store, importer, bounds>>

\* Seeded bug: only finished imports count.
DuplicateOfFinished(p) == committed'[p] # NoTime

\* ErrBulkDuplicateSubmit.
Duplicate(p) == committed'[p] # NoTime \/ p \in inflight

Admit(r) ==
    /\ pc[r] = "admit"
    /\ committed' = Forget(committed)
    /\ IF Duplicate(token[r])
       THEN Finish(r) /\ UNCHANGED inflight
       ELSE /\ inflight' = inflight \union {token[r]}
            /\ Goto(r, "lock")
            /\ UNCHANGED <<token, since, plan>>
    /\ UNCHANGED <<clock, database, drawn, store, bounds>>

\* Seeded bug: a plain SELECT.
LockNothing(r) ==
    /\ pc[r] = "lock" /\ lock = NoRequest
    /\ Goto(r, IF archived \/ name # seen[token[r]] THEN "leaveError" ELSE "resolve")
    /\ UNCHANGED <<clock, database, drawn, store, importer, token, since, plan, bounds>>

\* SELECT ... FOR UPDATE of the production, refused when it is no longer the
\* one that was previewed.
Lock(r) ==
    /\ pc[r] = "lock" /\ lock = NoRequest
    /\ IF archived \/ name # seen[token[r]]
       THEN Goto(r, "leaveError") /\ UNCHANGED lock
       ELSE Goto(r, "resolve") /\ lock' = r
    /\ UNCHANGED <<clock, scope, imports, drawn, store, importer, token, since, plan, bounds>>

\* Seeded bug: no Rollback on an early return.
RollbackMissing(r) == UNCHANGED lock /\ Goto(r, "leaveError")

\* The deferred Rollback and the error.
Rollback(r) == /\ lock' = IF lock = r THEN NoRequest ELSE lock
               /\ Goto(r, "leaveError")

\* Seeded bug: the scope is read in a transaction of its own.
ResolveUnlocks(r) ==
    /\ pc[r] = "resolve"
    /\ IF allowNew[token[r]] \/ wantTypes[token[r]] \subseteq types
       THEN /\ newActors' = [newActors EXCEPT ![r] = wantActors[token[r]] \ LiveActors]
            /\ newTypes' = [newTypes EXCEPT ![r] = wantTypes[token[r]] \ types]
            /\ Goto(r, "commit")
            /\ lock' = NoRequest
       ELSE Rollback(r) /\ UNCHANGED plan
    /\ UNCHANGED <<clock, scope, imports, drawn, store, importer, token, since, bounds>>

\* scopeTx, and the refusal of types that disappeared since the preview.
Resolve(r) ==
    /\ pc[r] = "resolve"
    /\ IF allowNew[token[r]] \/ wantTypes[token[r]] \subseteq types
       THEN /\ newActors' = [newActors EXCEPT ![r] = wantActors[token[r]] \ LiveActors]
            /\ newTypes' = [newTypes EXCEPT ![r] = wantTypes[token[r]] \ types]
            /\ Goto(r, "commit")
            /\ UNCHANGED lock
       ELSE Rollback(r) /\ UNCHANGED plan
    /\ UNCHANGED <<clock, scope, imports, drawn, store, importer, token, since, bounds>>

\* The rows of the transaction become visible, all of them at once.
Write(r) ==
    /\ actors' = [n \in ActorNames |->
                    IF n \in newActors[r] THEN actors[n] + 1 ELSE actors[n]]
    /\ types' = types \union newTypes[r]
    /\ imports' = [imports EXCEPT ![token[r]] = @ + 1]
    /\ UNCHANGED <<name, archived>>

\* The inserts and COMMIT.  A type that was added since the scope was read
\* is refused by the unique index.
NoConflict(r) == newTypes[r] \intersect types = {}

Commit(r) ==
    /\ pc[r] = "commit" /\ NoConflict(r)
    /\ Write(r)
    /\ lock' = NoRequest
    /\ Goto(r, "record")
    /\ UNCHANGED <<clock, drawn, store, importer, token, since, plan, bounds>>

\* A statement fails or the context is cancelled.
DbFails(r) ==
    /\ pc[r] \in {"lock", "resolve", "commit"}
    /\ Rollback(r)
    /\ \/ LostAnswers /\ pc[r] = "commit" /\ NoConflict(r) /\ Write(r)
       \/ UNCHANGED <<scope, imports>>
    /\ UNCHANGED <<clock, drawn, store, importer, token, since, plan, bounds>>

Record(r) ==
    /\ pc[r] = "record"
    /\ committed' = [committed EXCEPT ![token[r]] = clock]
    /\ Goto(r, "leaveOk")
    /\ UNCHANGED <<clock, database, drawn, store, inflight, token, since, plan, bounds>>

\* Seeded bug: the delete is not deferred and a failed commit skips it.
LeaveOnSuccess(r) ==
    /\ pc[r] \in {"leaveOk", "leaveError"}
    /\ IF pc[r] = "leaveOk"
       THEN /\ inflight' = inflight \ {token[r]}
            /\ Goto(r, "consume") /\ UNCHANGED <<token, since, plan>>
       ELSE Finish(r) /\ UNCHANGED inflight
    /\ UNCHANGED <<clock, database, drawn, store, committed, bounds>>

\* The deferred delete from inflight.
Leave(r) ==
    /\ pc[r] \in {"leaveOk", "leaveError"}
    /\ inflight' = inflight \ {token[r]}
    /\ IF pc[r] = "leaveOk" THEN Goto(r, "consume") /\ UNCHANGED <<token, since, plan>>
                            ELSE Finish(r)
    /\ UNCHANGED <<clock, database, drawn, store, committed, bounds>>

\* previews.consume.
Consume(r) ==
    /\ pc[r] = "consume"
    /\ stored' = stored \ {token[r]}
    /\ used' = IF token[r] \in stored THEN [used EXCEPT ![token[r]] = clock] ELSE used
    /\ Finish(r)
    /\ UNCHANGED <<clock, database, drawn, until, importer, bounds>>

Step(r) == \/ Put(r) \/ CheckAge(r) \/ Admit(r) \/ Lock(r) \/ Resolve(r)
           \/ Commit(r) \/ DbFails(r) \/ Record(r) \/ Leave(r) \/ Consume(r)

-----------------------------------------------------------------------------
(* The other writers, time and the process.                                *)

Make(kind) == kind \in Edits /\ edits < MaxEdits /\ edits' = edits + 1

\* Inserting an actor or a type locks the production row FOR KEY SHARE (its
\* foreign key), and updating the production locks its row: both wait for an
\* import.  Updates of actors and types do not.
Unlocked == lock = NoRequest

EditActors ==
    /\ \/ /\ Make("createActor") /\ Unlocked /\ ~archived
          /\ \E n \in ActorNames : actors' = [actors EXCEPT ![n] = @ + 1]
       \/ /\ Make("archiveActor")
          /\ \E n \in LiveActors : actors' = [actors EXCEPT ![n] = @ - 1]
       \/ /\ Make("renameActor")
          /\ \E m \in LiveActors : \E n \in ActorNames \ {m} :
                actors' = [actors EXCEPT ![m] = @ - 1, ![n] = @ + 1]
    /\ UNCHANGED <<name, archived, types>>

\* A type is added by an insert, by Restore or by a rename; only the first
\* waits for the import's lock.
EditTypes ==
    /\ \/ /\ Make("addType")
          /\ \E t \in TypeNames \ types : types' = types \union {t}
       \/ /\ Make("archiveType")
          /\ \E t \in types : types' = types \ {t}
    /\ UNCHANGED <<name, archived, actors>>

EditProduction ==
    /\ Unlocked
    /\ \/ Make("renameProduction") /\ name' \in Productions \ {name} /\ UNCHANGED archived
       \/ Make("archiveProduction") /\ archived' = TRUE /\ UNCHANGED name
    /\ UNCHANGED <<actors, types>>

Edit == /\ EditActors \/ EditTypes \/ EditProduction
        /\ UNCHANGED <<clock, imports, lock, drawn, store, importer,
                       requests, stops>>

Tick == /\ clock < MaxClock
        /\ \A r \in Requests : pc[r] # "idle" => clock < since[r] + Life
        /\ clock' = clock + 1
        /\ UNCHANGED <<database, drawn, store, importer, requests, bounds>>

\* The process dies with its maps; a COMMIT it had sent may still take effect.
Crash ==
    /\ stops < MaxStops /\ stops' = stops + 1
    /\ \/ \E r \in Requests : pc[r] = "commit" /\ NoConflict(r) /\ Write(r)
       \/ UNCHANGED <<scope, imports>>
    /\ lock' = NoRequest
    /\ stored' = {} /\ used' = [p \in Previews |-> NoTime]
    /\ inflight' = {} /\ committed' = [p \in Previews |-> NoTime]
    /\ pc' = [r \in Requests |-> "idle"]
    /\ token' = [r \in Requests |-> NoPreview]
    /\ since' = [r \in Requests |-> 0]
    /\ newActors' = [r \in Requests |-> {}] /\ newTypes' = [r \in Requests |-> {}]
    /\ UNCHANGED <<clock, drawn, until, edits>>

Next == \/ \E r \in Requests, p \in Previews : Preview(r, p) \/ Lookup(r, p)
        \/ \E r \in Requests : Step(r)
        \/ Edit \/ Tick \/ Crash

\* A request that has begun goes on, since its database steps fail at the
\* timeout at the latest; nothing forces one to begin.
Fairness == \A r \in Requests : WF_vars(Step(r))

Spec == Init /\ [][Next]_vars
FairSpec == Spec /\ Fairness
-----------------------------------------------------------------------------
(* Properties.                                                             *)

\* Each variable has its type, and a request has a token while it works.
TypeOK ==
    /\ clock \in Nat
    /\ name \in Productions /\ archived \in BOOLEAN
    /\ actors \in [ActorNames -> Nat] /\ types \subseteq TypeNames
    /\ imports \in [Previews -> Nat]
    /\ lock \in Requests \union {NoRequest}
    /\ born \in [Previews -> Nat \union {NoTime}] /\ seen \in [Previews -> Productions]
    /\ wantActors \in [Previews -> SUBSET ActorNames]
    /\ wantTypes \in [Previews -> SUBSET TypeNames]
    /\ existing \in [Previews -> SUBSET ActorNames]
    /\ allowNew \in [Previews -> BOOLEAN]
    /\ stored \subseteq Previews
    /\ until \in [Previews -> Nat \union {NoTime}]
    /\ used \in [Previews -> Nat \union {NoTime}]
    /\ inflight \subseteq Previews /\ committed \in [Previews -> Nat \union {NoTime}]
    /\ pc \in [Requests -> Pcs]
    /\ token \in [Requests -> Previews \union {NoPreview}]
    /\ since \in [Requests -> Nat]
    /\ newActors \in [Requests -> SUBSET ActorNames]
    /\ newTypes \in [Requests -> SUBSET TypeNames]
    /\ edits \in Nat /\ stops \in Nat
    /\ \A r \in Requests : pc[r] # "idle" => token[r] \in Previews

\* A preview is imported at most once, however often it is submitted, across
\* pruned maps, requests that straddle its expiry, failures and restarts.
ImportedOnce == \A p \in Previews : imports[p] <= 1

\* An import never writes a preview older than the TTL allows: the age is
\* checked before the wait for locks, which ends at the request's timeout.
ImportIsFresh ==
    [][\A p \in Previews : imports'[p] > imports[p] => clock - born[p] <= TTL + Life]_vars

\* The rows of a preview go into the production that was previewed: between
\* the check and the commit nobody renames or archives it.
IntoPreviewedProduction ==
    [][\A p \in Previews : imports'[p] > imports[p] => ~archived /\ name = seen[p]]_vars

\* An import does not add an actor beside a live one of the same name, not
\* even one that another import or the actors page creates meanwhile.
NoSecondActor ==
    [][imports' # imports =>
          \A n \in ActorNames : actors'[n] > actors[n] => actors[n] = 0]_vars

\* A preview stays available until it is imported or expires, whatever
\* commit attempts fail, short of the end of the process.
KeptForRetry ==
    [][\A p \in stored : p \notin stored'
          => imports[p] > 0 \/ clock >= until[p] \/ stops' # stops]_vars

\* What is remembered as imported was imported.
RememberedWasImported ==
    \A p \in Previews : used[p] # NoTime \/ committed[p] # NoTime => imports[p] > 0

\* A submitted import lets go of what it holds, however it ends: its entry in
\* the inflight map, which refuses every retry, and the production's row, which
\* every other import waits for.
ImportsLetGo ==
    /\ \A p \in Previews : p \in inflight ~> p \notin inflight
    /\ lock # NoRequest ~> lock = NoRequest
=============================================================================
