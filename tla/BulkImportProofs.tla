--------------------------- MODULE BulkImportProofs ---------------------------
(* Theorems about BulkImport, for every value of its constants. *)
EXTENDS BulkImport, TLAPS

USE DEF scope, database, drawn, store, importer, plan, requests, bounds

-----------------------------------------------------------------------------
(* The parts of the inductive invariant.                                   *)

\* A request in the transaction past the lock holds it, over the production
\* that was previewed.
LockInv == \A r \in Requests : pc[r] \in {"resolve", "commit"} =>
              lock = r /\ ~archived /\ name = seen[token[r]]

\* What is stored, worked on or imported was drawn.
BornInv == \A p \in Previews : born[p] = NoTime =>
              /\ imports[p] = 0 /\ p \notin stored /\ committed[p] = NoTime
              /\ used[p] = NoTime
              /\ \A r \in Requests : token[r] # p

\* The request that stores a preview is alone with it.
PutInv == \A r \in Requests : pc[r] = "put" =>
              /\ imports[token[r]] = 0 /\ committed[token[r]] = NoTime
              /\ token[r] \notin stored
              /\ \A s \in Requests : token[s] = token[r] => s = r

\* A request past its start has not outlived its time, and past the age
\* check began before its preview expired.
TimeInv == \A r \in Requests : pc[r] # "idle" =>
              /\ since[r] <= clock /\ clock <= since[r] + Life
              /\ pc[r] \in {"admit", "lock", "resolve", "commit"} =>
                    since[r] <= born[token[r]] + TTL

\* inflight excludes a second request with the same preview.
InflightInv ==
    \A r \in Requests : pc[r] \in Inside =>
        /\ token[r] \in inflight
        /\ \A s \in Requests : pc[s] \in Inside /\ token[s] = token[r] => s = r

\* Before the commit the preview is not imported, after it, it is.
ProgressInv ==
    \A r \in Requests :
        /\ pc[r] \in {"lock", "resolve", "commit"} => imports[token[r]] = 0
        /\ pc[r] \in {"record", "leaveOk", "consume"} => imports[token[r]] = 1

\* An id recorded as committed: every request that could still ask began
\* soon after, and the token leaves the store with the request that recorded.
AskedInTime(p) ==
    \A r \in Requests : token[r] = p =>
        /\ pc[r] \notin {"lock", "resolve", "commit", "record"}
        /\ pc[r] \in Waiting => since[r] <= committed[p] + Life

StillLeaving(p) ==
    \E r \in Requests : /\ token[r] = p /\ pc[r] \in {"leaveOk", "consume"}
                        /\ since[r] <= committed[p]

CommittedInv ==
    \A p \in Previews : committed[p] # NoTime =>
        /\ imports[p] = 1 /\ committed[p] <= clock
        /\ AskedInTime(p)
        /\ p \in stored => StillLeaving(p)

\* Nobody can import the preview any more.
Gone(p) == /\ p \notin stored
           /\ \A r \in Requests : token[r] = p =>
                 pc[r] \notin {"put", "age", "admit", "lock", "resolve", "commit"}

Closed(p) == \/ committed[p] # NoTime
             \/ \E r \in Requests : token[r] = p /\ pc[r] = "record"
             \/ Gone(p)

OnceInv == \A p \in Previews :
              imports[p] <= 1 /\ (imports[p] = 1 => Closed(p))

UsedInv == \A p \in Previews : used[p] # NoTime => imports[p] = 1

Inv == /\ TypeOK /\ LockInv /\ BornInv /\ PutInv /\ TimeInv /\ InflightInv
       /\ ProgressInv /\ CommittedInv /\ OnceInv /\ UsedInv

-----------------------------------------------------------------------------
(* Types.                                                                  *)

LEMMA ForgetType ==
    ASSUME NEW times \in [Previews -> Nat \union {NoTime}]
    PROVE  Forget(times) \in [Previews -> Nat \union {NoTime}]
  BY DEF Forget

LEMMA WriteType ==
    ASSUME TypeOK, NEW r \in Requests, pc[r] # "idle", Write(r)
    PROVE  /\ actors' \in [ActorNames -> Nat] /\ types' \subseteq TypeNames
           /\ imports' \in [Previews -> Nat]
  BY DEF TypeOK, Write

\* The part of TypeOK about the requests.
RequestsOK ==
    /\ pc \in [Requests -> Pcs]
    /\ token \in [Requests -> Previews \union {NoPreview}]
    /\ since \in [Requests -> Nat]
    /\ newActors \in [Requests -> SUBSET ActorNames]
    /\ newTypes \in [Requests -> SUBSET TypeNames]
    /\ \A r \in Requests : pc[r] # "idle" => token[r] \in Previews

LEMMA FinishType ==
    ASSUME TypeOK, NEW r \in Requests, Finish(r) PROVE RequestsOK'
  <1>1. pc' \in [Requests -> Pcs] /\ token' \in [Requests -> Previews \union {NoPreview}]
    BY DEF TypeOK, Finish, Goto, Pcs, Waiting, Inside
  <1>2. since' \in [Requests -> Nat]
    BY DEF TypeOK, Finish
  <1>3. newActors' \in [Requests -> SUBSET ActorNames] /\ newTypes' \in [Requests -> SUBSET TypeNames]
    BY DEF TypeOK, Finish
  <1>4. \A s \in Requests : pc'[s] # "idle" => token'[s] \in Previews
    BY DEF TypeOK, Finish, Goto
  <1> QED
    BY <1>1, <1>2, <1>3, <1>4 DEF RequestsOK

LEMMA TypeInit == Init => TypeOK
  <1> SUFFICES ASSUME Init PROVE TypeOK
    OBVIOUS
  <1>1. /\ clock \in Nat /\ name \in Productions /\ archived \in BOOLEAN
        /\ actors \in [ActorNames -> Nat] /\ types \subseteq TypeNames
        /\ imports \in [Previews -> Nat] /\ lock \in Requests \union {NoRequest}
    BY DEF Init
  <1>2. /\ born \in [Previews -> Nat \union {NoTime}] /\ seen \in [Previews -> Productions]
        /\ wantActors \in [Previews -> SUBSET ActorNames]
        /\ wantTypes \in [Previews -> SUBSET TypeNames]
        /\ existing \in [Previews -> SUBSET ActorNames]
        /\ allowNew \in [Previews -> BOOLEAN]
    BY DEF Init
  <1>3. /\ stored \subseteq Previews /\ until \in [Previews -> Nat \union {NoTime}]
        /\ used \in [Previews -> Nat \union {NoTime}]
        /\ inflight \subseteq Previews /\ committed \in [Previews -> Nat \union {NoTime}]
    BY DEF Init
  <1>4. /\ pc \in [Requests -> Pcs] /\ \A r \in Requests : pc[r] = "idle"
        /\ token \in [Requests -> Previews \union {NoPreview}]
        /\ since \in [Requests -> Nat]
        /\ newActors \in [Requests -> SUBSET ActorNames]
        /\ newTypes \in [Requests -> SUBSET TypeNames]
        /\ edits \in Nat /\ stops \in Nat
    BY DEF Init, Pcs
  <1> QED
    BY <1>1, <1>2, <1>3, <1>4 DEF TypeOK

LEMMA TypeStep ==
    ASSUME TypeOK, NEW r \in Requests, Step(r) PROVE TypeOK'
  <1> USE DEF TypeOK, Pcs, Waiting, Inside, Goto
  <1>1. CASE Put(r)
    BY <1>1, ForgetType, BulkAssumption DEF Put, Finish
  <1>2. CASE CheckAge(r)
    <2>1. UNCHANGED <<clock, database, drawn, store, importer, bounds>>
      BY <1>2 DEF CheckAge
    <2>2. CASE Finish(r)
      BY <2>1, <2>2, FinishType DEF RequestsOK
    <2>3. CASE Goto(r, "admit") /\ UNCHANGED <<token, since, plan>>
      BY <1>2, <2>1, <2>3 DEF CheckAge
    <2> QED
      BY <1>2, <2>2, <2>3 DEF CheckAge
  <1>3. CASE Admit(r)
    <2>1. /\ UNCHANGED <<clock, database, drawn, store, bounds>>
          /\ committed' \in [Previews -> Nat \union {NoTime}]
      BY <1>3, ForgetType DEF Admit
    <2>2. CASE Finish(r) /\ UNCHANGED inflight
      BY <2>1, <2>2, FinishType DEF RequestsOK
    <2>3. CASE inflight' = inflight \union {token[r]} /\ Goto(r, "lock") /\ UNCHANGED <<token, since, plan>>
      BY <1>3, <2>1, <2>3 DEF Admit
    <2> QED
      BY <1>3, <2>2, <2>3 DEF Admit
  <1>4. CASE Lock(r)
    BY <1>4 DEF Lock
  <1>5. CASE Resolve(r)
    BY <1>5 DEF Resolve, Rollback
  <1>6. CASE Commit(r)
    BY <1>6, WriteType DEF Commit, Write
  <1>7. CASE DbFails(r)
    BY <1>7, WriteType DEF DbFails, Rollback, Write
  <1>8. CASE Record(r)
    BY <1>8 DEF Record
  <1>9. CASE Leave(r)
    <2>1. /\ inflight' \subseteq Previews
          /\ UNCHANGED <<clock, database, drawn, store, committed, bounds>>
      BY <1>9 DEF Leave
    <2>2. CASE pc[r] = "leaveOk"
      BY <1>9, <2>1, <2>2 DEF Leave
    <2>3. CASE pc[r] # "leaveOk"
      BY <1>9, <2>1, <2>3 DEF Leave, Finish
    <2> QED
      BY <2>2, <2>3
  <1>10. CASE Consume(r)
    BY <1>10 DEF Consume, Finish
  <1> QED
    BY <1>1, <1>2, <1>3, <1>4, <1>5, <1>6, <1>7, <1>8, <1>9, <1>10 DEF Step

LEMMA TypeNext == TypeOK /\ [Next]_vars => TypeOK'
  <1> SUFFICES ASSUME TypeOK, [Next]_vars PROVE TypeOK'
    OBVIOUS
  <1> USE DEF TypeOK, Pcs, Waiting, Inside, Goto
  <1>1. ASSUME NEW r \in Requests, NEW p \in Previews, Preview(r, p) PROVE TypeOK'
    <2>1. /\ wantActors' \in [Previews -> SUBSET ActorNames]
          /\ wantTypes' \in [Previews -> SUBSET TypeNames]
          /\ existing' \in [Previews -> SUBSET ActorNames]
          /\ allowNew' \in [Previews -> BOOLEAN]
      <3>1. PICK as \in SUBSET ActorNames \ {{}}, ts \in SUBSET TypeNames \ {{}}, allow \in BOOLEAN :
               /\ wantActors' = [wantActors EXCEPT ![p] = as]
               /\ wantTypes' = [wantTypes EXCEPT ![p] = ts]
               /\ existing' = [existing EXCEPT ![p] = as \intersect LiveActors]
               /\ allowNew' = [allowNew EXCEPT ![p] = allow]
        BY <1>1 DEF Preview
      <3> QED
        BY <3>1
    <2>2. born' \in [Previews -> Nat \union {NoTime}] /\ seen' \in [Previews -> Productions]
      BY <1>1 DEF Preview
    <2>3. /\ pc' \in [Requests -> Pcs]
          /\ token' \in [Requests -> Previews \union {NoPreview}]
          /\ since' \in [Requests -> Nat]
          /\ \A s \in Requests : pc'[s] # "idle" => token'[s] \in Previews
      BY <1>1 DEF Preview
    <2>4. UNCHANGED <<clock, database, store, importer, plan, bounds>>
      BY <1>1 DEF Preview
    <2> QED
      BY <2>1, <2>2, <2>3, <2>4
  <1>2. ASSUME NEW r \in Requests, NEW p \in Previews, Lookup(r, p) PROVE TypeOK'
    <2>1. /\ UNCHANGED <<clock, database, drawn, until, importer, plan, bounds>>
          /\ stored' \subseteq Previews /\ used' \in [Previews -> Nat \union {NoTime}]
      BY <1>2, ForgetType DEF Lookup, Prune
    <2>2. CASE UNCHANGED <<pc, token, since>>
      BY <2>1, <2>2
    <2>3. CASE /\ pc' = [pc EXCEPT ![r] = "age"] /\ token' = [token EXCEPT ![r] = p]
               /\ since' = [since EXCEPT ![r] = clock]
      BY <2>1, <2>3
    <2> QED
      BY <1>2, <2>2, <2>3 DEF Lookup
  <1>3. ASSUME NEW r \in Requests, Step(r) PROVE TypeOK'
    BY <1>3, TypeStep
  <1>4. CASE Edit
    <2>1. UNCHANGED <<clock, imports, lock, drawn, store, importer, requests, stops>>
      BY <1>4 DEF Edit
    <2>2. CASE EditActors
      <3>1. actors' \in [ActorNames -> Nat]
        <4>1. CASE \E n \in ActorNames : actors' = [actors EXCEPT ![n] = @ + 1]
          BY <4>1
        <4>2. CASE \E n \in LiveActors : actors' = [actors EXCEPT ![n] = @ - 1]
          BY <4>2 DEF LiveActors
        <4>3. CASE \E m \in LiveActors : \E n \in ActorNames \ {m} :
                      actors' = [actors EXCEPT ![m] = @ - 1, ![n] = @ + 1]
          BY <4>3 DEF LiveActors
        <4> QED
          BY <2>2, <4>1, <4>2, <4>3 DEF EditActors
      <3>2. edits' \in Nat /\ UNCHANGED <<name, archived, types>>
        BY <2>2 DEF EditActors, Make
      <3> QED
        BY <2>1, <3>1, <3>2
    <2>3. CASE EditTypes
      <3>1. types' \subseteq TypeNames /\ edits' \in Nat /\ UNCHANGED <<name, archived, actors>>
        BY <2>3 DEF EditTypes, Make
      <3> QED
        BY <2>1, <3>1
    <2>4. CASE EditProduction
      <3>1. /\ name' \in Productions /\ archived' \in BOOLEAN /\ edits' \in Nat
            /\ UNCHANGED <<actors, types>>
        <4>1. CASE Make("renameProduction") /\ name' \in Productions \ {name} /\ UNCHANGED archived
          BY <2>4, <4>1 DEF EditProduction, Make
        <4>2. CASE Make("archiveProduction") /\ archived' = TRUE /\ UNCHANGED name
          BY <2>4, <4>2 DEF EditProduction, Make
        <4> QED
          BY <2>4, <4>1, <4>2 DEF EditProduction
      <3> QED
        BY <2>1, <3>1
    <2> QED
      BY <1>4, <2>2, <2>3, <2>4 DEF Edit
  <1>5. CASE Tick
    BY <1>5 DEF Tick
  <1>6. CASE Crash
    <2>1. UNCHANGED <<clock, drawn, until, edits>> /\ stops' \in Nat /\ lock' = NoRequest
      BY <1>6 DEF Crash
    <2>2. /\ name' \in Productions /\ archived' \in BOOLEAN /\ types' \subseteq TypeNames
          /\ actors' \in [ActorNames -> Nat] /\ imports' \in [Previews -> Nat]
      <3>1. CASE UNCHANGED <<scope, imports>>
        BY <3>1
      <3>2. CASE \E r \in Requests : pc[r] = "commit" /\ NoConflict(r) /\ Write(r)
        BY <3>2, WriteType DEF Write
      <3> QED
        BY <1>6, <3>1, <3>2 DEF Crash
    <2>3. /\ stored' = {} /\ used' \in [Previews -> Nat \union {NoTime}]
          /\ inflight' = {} /\ committed' \in [Previews -> Nat \union {NoTime}]
      BY <1>6 DEF Crash
    <2>4. /\ pc' = [r \in Requests |-> "idle"] /\ token' = [r \in Requests |-> NoPreview]
          /\ since' = [r \in Requests |-> 0]
          /\ newActors' = [r \in Requests |-> {}] /\ newTypes' = [r \in Requests |-> {}]
      BY <1>6 DEF Crash
    <2> QED
      BY <2>1, <2>2, <2>3, <2>4
  <1>7. CASE UNCHANGED vars
    BY <1>7 DEF vars
  <1> QED
    BY <1>1, <1>2, <1>3, <1>4, <1>5, <1>6, <1>7 DEF Next

-----------------------------------------------------------------------------
(* What a step does to the requests.                                       *)

\* A step of one request leaves the others alone; it answers the request or
\* takes it further with the same token.
LEMMA StepFrame ==
    ASSUME TypeOK, NEW r \in Requests, Step(r)
    PROVE  /\ \A s \in Requests \ {r} :
                pc'[s] = pc[s] /\ token'[s] = token[s] /\ since'[s] = since[s]
           /\ \/ pc'[r] = "idle" /\ token'[r] = NoPreview
              \/ token'[r] = token[r] /\ since'[r] = since[r] /\ pc'[r] # "idle"
           /\ pc[r] # "idle" /\ token[r] \in Previews
           /\ UNCHANGED <<clock, drawn, bounds>>
  <1> USE DEF TypeOK, Goto, Finish, Rollback
  <1>1. CASE Put(r) \/ CheckAge(r) \/ Admit(r) \/ Consume(r)
    BY <1>1 DEF Put, CheckAge, Admit, Consume
  <1>2. CASE Lock(r) \/ Resolve(r) \/ Record(r)
    BY <1>2 DEF Lock, Resolve, Record
  <1>3. CASE Commit(r) \/ DbFails(r)
    BY <1>3 DEF Commit, DbFails
  <1>4. CASE Leave(r)
    BY <1>4 DEF Leave
  <1> QED
    BY <1>1, <1>2, <1>3, <1>4 DEF Step

\* Between the lock and the commit the production stays what was previewed.
LEMMA LockNext ==
    ASSUME TypeOK, BornInv, LockInv, [Next]_vars PROVE LockInv'
  <1> USE BulkAssumption DEF LockInv, TypeOK, Goto
  <1>1. ASSUME NEW r \in Requests, NEW p \in Previews, Preview(r, p) PROVE LockInv'
    BY <1>1 DEF Preview, BornInv
  <1>2. ASSUME NEW r \in Requests, NEW p \in Previews, Lookup(r, p) PROVE LockInv'
    BY <1>2 DEF Lookup
  <1>3. ASSUME NEW r \in Requests, Step(r) PROVE LockInv'
    <2>1. CASE Put(r) \/ CheckAge(r) \/ Admit(r) \/ Record(r) \/ Consume(r)
      BY <2>1 DEF Put, CheckAge, Admit, Record, Consume, Finish
    <2>2. CASE Leave(r)
      BY <2>2 DEF Leave, Finish
    <2>3. CASE Lock(r)
      BY <2>3 DEF Lock
    <2>4. CASE Resolve(r)
      BY <2>4 DEF Resolve, Rollback
    <2>5. CASE Commit(r)
      BY <2>5 DEF Commit, Write
    <2>6. CASE DbFails(r)
      BY <2>6 DEF DbFails, Rollback, Write
    <2> QED
      BY <1>3, <2>1, <2>2, <2>3, <2>4, <2>5, <2>6 DEF Step
  <1>4. CASE Edit
    BY <1>4 DEF Edit, EditActors, EditTypes, EditProduction, Unlocked
  <1>5. CASE Tick \/ Crash \/ UNCHANGED vars
    BY <1>5 DEF Tick, Crash, vars
  <1> QED
    BY <1>1, <1>2, <1>3, <1>4, <1>5 DEF Next

\* What is drawn stays drawn, and nothing else is worked on.
LEMMA BornNext ==
    ASSUME TypeOK, BornInv, [Next]_vars PROVE BornInv'
  <1> USE BulkAssumption DEF BornInv, TypeOK
  <1>1. ASSUME NEW r \in Requests, NEW p \in Previews, Preview(r, p) PROVE BornInv'
    BY <1>1 DEF Preview, Goto, NoTime
  <1>2. ASSUME NEW r \in Requests, NEW p \in Previews, Lookup(r, p) PROVE BornInv'
    BY <1>2 DEF Lookup, Prune, Forget
  <1>3. ASSUME NEW r \in Requests, Step(r) PROVE BornInv'
    <2>0. /\ UNCHANGED born /\ born[token[r]] # NoTime
          /\ \A s \in Requests : token'[s] = token[s] \/ token'[s] = NoPreview
      BY <1>3, StepFrame
    <2>1. \A p \in Previews : p # token[r] => imports'[p] = imports[p]
      BY <1>3 DEF Step, Put, CheckAge, Admit, Lock, Resolve, Commit, DbFails, Record,
                  Leave, Consume, Write
    <2>2. \A p \in Previews : p # token[r] /\ p \notin stored => p \notin stored'
      BY <1>3 DEF Step, Put, CheckAge, Admit, Lock, Resolve, Commit, DbFails, Record,
                  Leave, Consume
    <2>3. \A p \in Previews : p # token[r] /\ committed[p] = NoTime => committed'[p] = NoTime
      BY <1>3 DEF Step, Put, CheckAge, Admit, Lock, Resolve, Commit, DbFails, Record,
                  Leave, Consume, Forget
    <2>4. \A p \in Previews : p # token[r] /\ used[p] = NoTime => used'[p] = NoTime
      BY <1>3 DEF Step, Put, CheckAge, Admit, Lock, Resolve, Commit, DbFails, Record,
                  Leave, Consume, Forget
    <2> QED
      BY <2>0, <2>1, <2>2, <2>3, <2>4
  <1>4. CASE Edit \/ Tick \/ UNCHANGED vars
    BY <1>4 DEF Edit, Tick, vars
  <1>5. CASE Crash
    <2>1. \A p \in Previews : born[p] = NoTime => imports'[p] = imports[p]
      BY <1>5 DEF Crash, Write
    <2>2. /\ stored' = {} /\ UNCHANGED born
          /\ \A p \in Previews : used'[p] = NoTime /\ committed'[p] = NoTime
          /\ \A r \in Requests : token'[r] = NoPreview
      BY <1>5 DEF Crash
    <2> QED
      BY <2>1, <2>2
  <1> QED
    BY <1>1, <1>2, <1>3, <1>4, <1>5 DEF Next

\* A request has at most Life ticks, and it passed the age check in time.
LEMMA TimeNext ==
    ASSUME TypeOK, BornInv, TimeInv, [Next]_vars PROVE TimeInv'
  <1> USE BulkAssumption DEF TimeInv, TypeOK, Goto, NoTime
  <1>1. ASSUME NEW r \in Requests, NEW p \in Previews, Preview(r, p) PROVE TimeInv'
    BY <1>1 DEF Preview, BornInv
  <1>2. ASSUME NEW r \in Requests, NEW p \in Previews, Lookup(r, p) PROVE TimeInv'
    BY <1>2 DEF Lookup
  <1>3. ASSUME NEW r \in Requests, Step(r) PROVE TimeInv'
    <2>1. CASE CheckAge(r)
      <3>1. CASE pc'[r] = "idle"
        BY <1>3, <3>1, StepFrame
      <3>2. CASE pc'[r] # "idle"
        <4>1. clock - born[token[r]] <= TTL /\ born[token[r]] # NoTime
          BY <1>3, <2>1, <3>2, StepFrame DEF CheckAge, Finish, BornInv
        <4>2. since[r] <= born[token[r]] + TTL
          BY <1>3, <4>1, StepFrame
        <4> QED
          BY <1>3, <4>2, StepFrame
      <3> QED
        BY <3>1, <3>2
    <2>2. CASE ~CheckAge(r)
      <3>1. pc'[r] \in {"admit", "lock", "resolve", "commit"}
               => pc[r] \in {"admit", "lock", "resolve", "commit"}
        BY <1>3, <2>2 DEF Step, Put, Admit, Lock, Resolve, Commit, DbFails, Record,
                          Leave, Consume, Finish, Rollback
      <3> QED
        BY <1>3, <3>1, StepFrame
    <2> QED
      BY <2>1, <2>2
  <1>4. CASE Edit \/ UNCHANGED vars
    BY <1>4 DEF Edit, vars
  <1>5. CASE Tick
    BY <1>5 DEF Tick
  <1>6. CASE Crash
    BY <1>6 DEF Crash
  <1> QED
    BY <1>1, <1>2, <1>3, <1>4, <1>5, <1>6 DEF Next

\* The first commit of a preview excludes a second one meanwhile.
LEMMA InflightNext ==
    ASSUME TypeOK, InflightInv, [Next]_vars PROVE InflightInv'
  <1> USE BulkAssumption DEF InflightInv, TypeOK, Goto, Inside
  <1>1. ASSUME NEW r \in Requests, NEW p \in Previews, Preview(r, p) PROVE InflightInv'
    BY <1>1 DEF Preview
  <1>2. ASSUME NEW r \in Requests, NEW p \in Previews, Lookup(r, p) PROVE InflightInv'
    BY <1>2 DEF Lookup
  <1>3. ASSUME NEW r \in Requests, Step(r) PROVE InflightInv'
    <2>1. CASE Put(r) \/ CheckAge(r) \/ Consume(r)
      BY <2>1 DEF Put, CheckAge, Consume, Finish
    <2>2. CASE Admit(r)
      <3>1. CASE pc'[r] = "idle"
        BY <2>2, <3>1 DEF Admit, Finish
      <3>2. CASE pc'[r] # "idle"
        <4>1. /\ token[r] \notin inflight /\ inflight' = inflight \union {token[r]}
              /\ pc' = [pc EXCEPT ![r] = "lock"] /\ UNCHANGED token
          BY <2>2, <3>2 DEF Admit, Finish, Duplicate
        <4> QED
          BY <4>1
      <3> QED
        BY <3>1, <3>2
    <2>3. CASE Lock(r) \/ Resolve(r) \/ Commit(r) \/ DbFails(r) \/ Record(r)
      <3>1. /\ UNCHANGED <<inflight, token>> /\ pc[r] \in Inside
            /\ \A s \in Requests \ {r} : pc'[s] = pc[s]
        BY <2>3 DEF Lock, Resolve, Commit, DbFails, Record, Rollback
      <3> QED
        BY <3>1
    <2>4. CASE Leave(r)
      <3>1. /\ inflight' = inflight \ {token[r]} /\ pc[r] \in Inside /\ pc'[r] \notin Inside
            /\ \A s \in Requests \ {r} : pc'[s] = pc[s] /\ token'[s] = token[s]
        BY <2>4 DEF Leave, Finish
      <3> QED
        BY <3>1
    <2> QED
      BY <1>3, <2>1, <2>2, <2>3, <2>4 DEF Step
  <1>4. CASE Edit \/ Tick \/ UNCHANGED vars
    BY <1>4 DEF Edit, Tick, vars
  <1>5. CASE Crash
    BY <1>5 DEF Crash
  <1> QED
    BY <1>1, <1>2, <1>3, <1>4, <1>5 DEF Next

\* Only its own request works on a preview before it is stored.
LEMMA PutNext ==
    ASSUME TypeOK, BornInv, PutInv, [Next]_vars PROVE PutInv'
  <1> USE BulkAssumption DEF PutInv, TypeOK, Goto
  <1>1. ASSUME NEW r \in Requests, NEW p \in Previews, Preview(r, p) PROVE PutInv'
    BY <1>1 DEF Preview, BornInv
  <1>2. ASSUME NEW r \in Requests, NEW p \in Previews, Lookup(r, p) PROVE PutInv'
    <2>1. CASE UNCHANGED <<pc, token, since>>
      BY <1>2, <2>1 DEF Lookup, Prune
    <2>2. CASE p \in stored' /\ pc' = [pc EXCEPT ![r] = "age"]
               /\ token' = [token EXCEPT ![r] = p]
      BY <1>2, <2>2 DEF Lookup, Prune
    <2> QED
      BY <1>2, <2>1, <2>2 DEF Lookup
  <1>3. ASSUME NEW r \in Requests, Step(r) PROVE PutInv'
    <2>1. SUFFICES ASSUME NEW s \in Requests, pc'[s] = "put"
                   PROVE  /\ imports'[token'[s]] = 0 /\ committed'[token'[s]] = NoTime
                          /\ token'[s] \notin stored'
                          /\ \A q \in Requests : token'[q] = token'[s] => q = s
      OBVIOUS
    <2>2. pc'[r] # "put"
      BY <1>3 DEF Step, Put, CheckAge, Admit, Lock, Resolve, Commit, DbFails, Record,
                  Leave, Consume, Finish, Rollback
    <2>3. s # r /\ pc[s] = "put" /\ token'[s] = token[s] /\ token[s] # token[r]
      BY <1>3, <2>1, <2>2, StepFrame
    <2>4. imports'[token[s]] = imports[token[s]]
      BY <1>3, <2>3 DEF Step, Put, CheckAge, Admit, Lock, Resolve, Commit, DbFails, Record,
                  Leave, Consume, Write
    <2>5. token[s] \notin stored'
      BY <1>3, <2>3 DEF Step, Put, CheckAge, Admit, Lock, Resolve, Commit, DbFails, Record,
                  Leave, Consume
    <2>6. committed'[token[s]] = NoTime
      BY <1>3, <2>3 DEF Step, Put, CheckAge, Admit, Lock, Resolve, Commit, DbFails, Record,
                  Leave, Consume, Forget
    <2> QED
      BY <1>3, <2>3, <2>4, <2>5, <2>6, StepFrame
  <1>4. CASE Edit \/ Tick \/ UNCHANGED vars
    BY <1>4 DEF Edit, Tick, vars
  <1>5. CASE Crash
    BY <1>5 DEF Crash
  <1> QED
    BY <1>1, <1>2, <1>3, <1>4, <1>5 DEF Next

-----------------------------------------------------------------------------
(* The guard against a second import.                                      *)

\* By the time an id is forgotten, whoever could still have asked is gone.
LEMMA ForgottenIsGone ==
    ASSUME TypeOK, TimeInv, CommittedInv, PutInv, NEW p \in Previews,
           committed[p] # NoTime, Forget(committed)[p] = NoTime
    PROVE  Gone(p)
  <1>1. clock > committed[p] + TTL /\ committed[p] \in Nat
    BY BulkAssumption DEF Forget, TypeOK, NoTime
  <1>2. p \notin stored
    <2>1. SUFFICES ASSUME p \in stored PROVE FALSE
      OBVIOUS
    <2>2. PICK r \in Requests : pc[r] # "idle" /\ since[r] <= committed[p]
      BY <2>1 DEF CommittedInv, AskedInTime, StillLeaving
    <2>3. clock <= since[r] + Life
      BY <2>2 DEF TimeInv
    <2> QED
      BY <1>1, <2>2, <2>3, ShortRequests, BulkAssumption DEF TypeOK
  <1>3. ASSUME NEW r \in Requests, token[r] = p, pc[r] \in Waiting PROVE FALSE
    <2>1. since[r] <= committed[p] + Life /\ clock <= since[r] + Life
      BY <1>3 DEF CommittedInv, AskedInTime, StillLeaving, TimeInv, Waiting
    <2> QED
      BY <1>1, <2>1, ShortRequests, BulkAssumption DEF TypeOK
  <1> QED
    BY <1>2, <1>3 DEF Gone, CommittedInv, AskedInTime, StillLeaving, PutInv, Waiting

\* A request is admitted only if its preview was never imported.
LEMMA AdmittedIsNew ==
    ASSUME TypeOK, TimeInv, InflightInv, CommittedInv, PutInv, OnceInv,
           NEW r \in Requests, Admit(r), pc'[r] # "idle"
    PROVE  imports[token[r]] = 0 /\ committed[token[r]] = NoTime
  <1> DEFINE p == token[r]
  <1>1. p \in Previews /\ pc[r] = "admit"
    BY DEF Admit, TypeOK
  <1>2. Forget(committed)[p] = NoTime /\ p \notin inflight
    BY <1>1 DEF Admit, Duplicate, Finish, Goto, TypeOK
  <1>3. ~Gone(p)
    BY <1>1 DEF Gone
  <1>4. committed[p] = NoTime
    BY <1>1, <1>2, <1>3, ForgottenIsGone
  <1>5. ~Closed(p)
    BY <1>2, <1>3, <1>4 DEF Closed, InflightInv, Inside
  <1> QED
    BY <1>1, <1>4, <1>5 DEF OnceInv, TypeOK

LEMMA ProgressNext ==
    ASSUME LostAnswers = FALSE, TypeOK, BornInv, TimeInv, InflightInv, CommittedInv, PutInv,
           OnceInv, ProgressInv, [Next]_vars
    PROVE  ProgressInv'
  <1> USE BulkAssumption DEF ProgressInv, TypeOK, Goto
  <1>1. ASSUME NEW r \in Requests, NEW p \in Previews, Preview(r, p) PROVE ProgressInv'
    BY <1>1 DEF Preview
  <1>2. ASSUME NEW r \in Requests, NEW p \in Previews, Lookup(r, p) PROVE ProgressInv'
    BY <1>2 DEF Lookup
  <1>3. ASSUME NEW r \in Requests, Step(r) PROVE ProgressInv'
    <2>1. CASE Put(r) \/ CheckAge(r) \/ Consume(r)
      BY <2>1 DEF Put, CheckAge, Consume, Finish
    <2>2. CASE Admit(r)
      <3>1. CASE pc'[r] = "idle"
        BY <2>2, <3>1 DEF Admit, Finish
      <3>2. CASE pc'[r] # "idle"
        BY <2>2, <3>2, AdmittedIsNew DEF Admit, Finish
      <3> QED
        BY <3>1, <3>2
    <2>3. CASE Lock(r) \/ Resolve(r) \/ DbFails(r) \/ Record(r)
      BY <2>3 DEF Lock, Resolve, DbFails, Record, Rollback
    <2>4. CASE Commit(r)
      <3>1. /\ imports' = [imports EXCEPT ![token[r]] = @ + 1] /\ UNCHANGED token
            /\ pc' = [pc EXCEPT ![r] = "record"] /\ imports[token[r]] = 0
        BY <2>4 DEF Commit, Write
      <3>2. \A s \in Requests : pc[s] \in {"lock", "resolve", "commit"} /\ s # r
               => token[s] # token[r]
        BY <2>4 DEF Commit, InflightInv, Inside
      <3>3. \A s \in Requests : pc[s] \in {"record", "leaveOk", "consume"}
               => token[s] # token[r]
        BY <3>1
      <3>4. token[r] \in Previews /\ imports'[token[r]] = 1 /\ pc'[r] = "record"
        BY <2>4, <3>1 DEF Commit
      <3>5. \A s \in Requests : s # r => pc'[s] = pc[s]
        BY <3>1
      <3>6. \A s \in Requests : pc[s] # "idle" /\ token[s] # token[r]
               => imports'[token[s]] = imports[token[s]]
        BY <3>1
      <3> QED
        BY <3>1, <3>2, <3>3, <3>4, <3>5, <3>6
    <2>5. CASE Leave(r)
      BY <2>5 DEF Leave, Finish
    <2> QED
      BY <1>3, <2>1, <2>2, <2>3, <2>4, <2>5 DEF Step
  <1>4. CASE Edit \/ Tick \/ UNCHANGED vars
    BY <1>4 DEF Edit, Tick, vars
  <1>5. CASE Crash
    BY <1>5 DEF Crash
  <1> QED
    BY <1>1, <1>2, <1>3, <1>4, <1>5 DEF Next

LEMMA CommittedNext ==
    ASSUME TypeOK, BornInv, TimeInv, InflightInv, CommittedInv, PutInv, ProgressInv, [Next]_vars
    PROVE  CommittedInv'
  <1> USE BulkAssumption DEF TypeOK, Goto
  <1>1. ASSUME NEW r \in Requests, NEW p \in Previews, Preview(r, p) PROVE CommittedInv'
    <2>1. /\ \A s \in Requests \ {r} : pc'[s] = pc[s] /\ token'[s] = token[s] /\ since'[s] = since[s]
          /\ token'[r] = p /\ pc[r] = "idle" /\ committed[p] = NoTime
          /\ UNCHANGED <<clock, imports, stored, committed>>
      BY <1>1 DEF Preview, BornInv
    <2> QED
      BY <2>1 DEF CommittedInv, AskedInTime, StillLeaving
  <1>2. ASSUME NEW r \in Requests, NEW p \in Previews, Lookup(r, p) PROVE CommittedInv'
    <2>1. UNCHANGED <<clock, imports, committed>> /\ stored' \subseteq stored /\ pc[r] = "idle"
      BY <1>2 DEF Lookup, Prune
    <2>2. CASE UNCHANGED <<pc, token, since>>
      BY <2>1, <2>2 DEF CommittedInv, AskedInTime, StillLeaving
    <2>3. CASE /\ p \in stored' /\ pc' = [pc EXCEPT ![r] = "age"]
               /\ token' = [token EXCEPT ![r] = p] /\ since' = [since EXCEPT ![r] = clock]
      <3>1. committed[p] # NoTime => clock <= committed[p] + Life
        <4>1. SUFFICES ASSUME committed[p] # NoTime PROVE clock <= committed[p] + Life
          OBVIOUS
        <4>2. PICK s \in Requests : pc[s] # "idle" /\ since[s] <= committed[p]
          BY <2>1, <2>3, <4>1 DEF CommittedInv, AskedInTime, StillLeaving
        <4> QED
          BY <4>1, <4>2 DEF TimeInv, NoTime
      <3>2. \A s \in Requests \ {r} : pc'[s] = pc[s] /\ token'[s] = token[s] /\ since'[s] = since[s]
        BY <2>3
      <3>3. pc'[r] = "age" /\ token'[r] = p /\ since'[r] = clock
        BY <2>3
      <3> QED
        BY <2>1, <3>1, <3>2, <3>3 DEF CommittedInv, AskedInTime, StillLeaving, Waiting
    <2> QED
      BY <1>2, <2>2, <2>3 DEF Lookup
  <1>3. ASSUME NEW r \in Requests, Step(r) PROVE CommittedInv'
    <2> DEFINE q == token[r]
    <2>0. /\ q \in Previews /\ UNCHANGED clock
          /\ \A s \in Requests \ {r} : pc'[s] = pc[s] /\ token'[s] = token[s] /\ since'[s] = since[s]
          /\ \/ pc'[r] = "idle" /\ token'[r] = NoPreview
             \/ token'[r] = token[r] /\ since'[r] = since[r]
      BY <1>3, StepFrame
    <2>1. CASE Put(r)
      <3>1. /\ committed[q] = NoTime /\ pc'[r] = "idle" /\ token'[r] = NoPreview
            /\ UNCHANGED <<imports, committed>> /\ stored' \subseteq stored \union {q}
        BY <2>1 DEF Put, Finish, PutInv
      <3> QED
        BY <2>0, <2>1, <3>1 DEF CommittedInv, AskedInTime, StillLeaving, Put
    <2>2. CASE CheckAge(r)
      <3>1. /\ pc[r] = "age" /\ pc'[r] \in {"idle", "admit"}
            /\ UNCHANGED <<imports, stored, committed>>
        BY <2>2 DEF CheckAge, Finish
      <3> QED
        BY <2>0, <3>1 DEF CommittedInv, AskedInTime, StillLeaving, Waiting
    <2>3. CASE Admit(r)
      <3>1. /\ pc[r] = "admit" /\ pc'[r] \in {"idle", "lock"}
            /\ UNCHANGED <<imports, stored>>
            /\ \A p \in Previews : committed'[p] \in {committed[p], NoTime}
            /\ pc'[r] = "lock" => committed'[q] = NoTime
        BY <2>3 DEF Admit, Finish, Forget, Duplicate
      <3>2. ASSUME NEW p \in Previews, committed'[p] # NoTime
            PROVE  AskedInTime(p)' /\ (p \in stored' => StillLeaving(p)')
        <4>1. /\ committed'[p] = committed[p]
              /\ AskedInTime(p) /\ (p \in stored => StillLeaving(p))
          BY <3>1, <3>2 DEF CommittedInv
        <4>2. AskedInTime(p)'
          BY <2>0, <3>1, <3>2, <4>1 DEF AskedInTime, Waiting
        <4>3. StillLeaving(p) => StillLeaving(p)'
          BY <2>0, <3>1, <4>1 DEF StillLeaving
        <4> QED
          BY <3>1, <4>1, <4>2, <4>3
      <3>3. \A p \in Previews : committed'[p] # NoTime =>
                imports'[p] = 1 /\ committed'[p] <= clock'
        BY <2>0, <3>1 DEF CommittedInv
      <3> QED
        BY <3>2, <3>3 DEF CommittedInv
    <2>4. CASE Lock(r) \/ Resolve(r) \/ Commit(r) \/ DbFails(r)
      <3>1. /\ UNCHANGED <<stored, committed>> /\ committed[q] = NoTime
            /\ \A p \in Previews : p # q => imports'[p] = imports[p]
        BY <2>4 DEF Lock, Resolve, Commit, DbFails, Write, CommittedInv, AskedInTime, StillLeaving
      <3>2. pc[r] \in {"lock", "resolve", "commit"}
        BY <2>4 DEF Lock, Resolve, Commit, DbFails
      <3>3. ASSUME NEW p \in Previews, committed'[p] # NoTime
            PROVE  AskedInTime(p)' /\ (p \in stored' => StillLeaving(p)')
        <4>1. /\ committed'[p] = committed[p] /\ p # token[r]
              /\ AskedInTime(p) /\ (p \in stored => StillLeaving(p))
          BY <3>1, <3>3 DEF CommittedInv
        <4>2. AskedInTime(p)'
          BY <2>0, <4>1 DEF AskedInTime
        <4>3. StillLeaving(p) => StillLeaving(p)'
          BY <2>0, <4>1 DEF StillLeaving
        <4> QED
          BY <3>1, <4>1, <4>2, <4>3
      <3>4. \A p \in Previews : committed'[p] # NoTime =>
                imports'[p] = 1 /\ committed'[p] <= clock'
        BY <2>0, <3>1 DEF CommittedInv
      <3> QED
        BY <3>3, <3>4 DEF CommittedInv
    <2>5. CASE Record(r)
      <3>1. /\ pc[r] = "record" /\ pc'[r] = "leaveOk" /\ token'[r] = q /\ since'[r] = since[r]
            /\ UNCHANGED <<imports, stored>> /\ committed' = [committed EXCEPT ![q] = clock]
            /\ imports[q] = 1
        BY <2>5 DEF Record, ProgressInv
      <3>2. \A s \in Requests \ {r} : token[s] = q =>
                pc[s] \notin {"put", "lock", "resolve", "commit", "record"}
        BY <3>1, <2>0 DEF InflightInv, Inside, PutInv
      <3>3. \A s \in Requests : pc[s] # "idle" => since[s] <= clock
        BY DEF TimeInv
      <3>4. ASSUME NEW p \in Previews, committed'[p] # NoTime, p # q
            PROVE  /\ imports'[p] = 1 /\ committed'[p] <= clock'
                   /\ \A s \in Requests : token'[s] = p =>
                        /\ pc'[s] \notin {"lock", "resolve", "commit", "record"}
                        /\ pc'[s] \in Waiting => since'[s] <= committed'[p] + Life
                   /\ p \in stored' =>
                        \E s \in Requests : /\ token'[s] = p /\ pc'[s] \in {"leaveOk", "consume"}
                                            /\ since'[s] <= committed'[p]
        <4>1. committed[p] # NoTime /\ committed'[p] = committed[p]
          BY <2>0, <3>1, <3>4 DEF CommittedInv
        <4>2. /\ imports'[p] = 1 /\ committed'[p] <= clock'
              /\ \A s \in Requests : token'[s] = p =>
                        /\ pc'[s] \notin {"lock", "resolve", "commit", "record"}
                        /\ pc'[s] \in Waiting => since'[s] <= committed'[p] + Life
          BY <2>0, <3>1, <3>4, <4>1 DEF CommittedInv, AskedInTime
        <4>3. ASSUME p \in stored'
              PROVE  \E s \in Requests : /\ token'[s] = p /\ pc'[s] \in {"leaveOk", "consume"}
                                         /\ since'[s] <= committed'[p]
          <5>1. PICK s \in Requests : /\ token[s] = p /\ pc[s] \in {"leaveOk", "consume"}
                                      /\ since[s] <= committed[p]
            BY <3>1, <4>1, <4>3 DEF CommittedInv, StillLeaving
          <5> QED
            BY <2>0, <3>1, <4>1, <5>1
        <4> QED
          BY <4>2, <4>3
      <3>5. /\ imports'[q] = 1 /\ committed'[q] <= clock'
            /\ \A s \in Requests : token'[s] = q =>
                  /\ pc'[s] \notin {"lock", "resolve", "commit", "record"}
                  /\ pc'[s] \in Waiting => since'[s] <= committed'[q] + Life
        BY <2>0, <3>1, <3>2, <3>3 DEF Waiting
      <3>6. token'[r] = q /\ pc'[r] = "leaveOk" /\ since'[r] <= committed'[q]
        BY <2>0, <3>1, <3>3
      <3> QED
        BY <3>4, <3>5, <3>6 DEF CommittedInv, AskedInTime, StillLeaving
    <2>6. CASE Leave(r)
      <3>1. /\ UNCHANGED <<imports, stored, committed>> /\ pc[r] \in {"leaveOk", "leaveError"}
            /\ pc[r] = "leaveOk" => pc'[r] = "consume" /\ token'[r] = q /\ since'[r] = since[r]
            /\ pc[r] = "leaveError" => pc'[r] = "idle" /\ token'[r] = NoPreview
        BY <2>6 DEF Leave, Finish
      <3>2. ASSUME NEW p \in Previews, committed'[p] # NoTime
            PROVE  /\ imports'[p] = 1 /\ committed'[p] <= clock'
                   /\ \A s \in Requests : token'[s] = p =>
                        /\ pc'[s] \notin {"lock", "resolve", "commit", "record"}
                        /\ pc'[s] \in Waiting => since'[s] <= committed'[p] + Life
        BY <2>0, <3>1, <3>2 DEF CommittedInv, AskedInTime, Waiting
      <3>3. ASSUME NEW p \in Previews, committed'[p] # NoTime, p \in stored'
            PROVE  \E s \in Requests : /\ token'[s] = p /\ pc'[s] \in {"leaveOk", "consume"}
                                       /\ since'[s] <= committed'[p]
        <4>1. PICK s \in Requests : /\ token[s] = p /\ pc[s] \in {"leaveOk", "consume"}
                                    /\ since[s] <= committed[p]
          BY <3>1, <3>3 DEF CommittedInv, StillLeaving
        <4> QED
          BY <2>0, <3>1, <4>1
      <3> QED
        BY <3>2, <3>3 DEF CommittedInv, AskedInTime, StillLeaving
    <2>7. CASE Consume(r)
      <3>1. /\ UNCHANGED <<imports, committed>> /\ stored' = stored \ {q}
            /\ pc'[r] = "idle" /\ token'[r] = NoPreview
        BY <2>7 DEF Consume, Finish
      <3> QED
        BY <2>0, <3>1 DEF CommittedInv, AskedInTime, StillLeaving
    <2> QED
      BY <1>3, <2>1, <2>2, <2>3, <2>4, <2>5, <2>6, <2>7 DEF Step
  <1>4. CASE Edit \/ UNCHANGED vars
    BY <1>4 DEF Edit, vars, CommittedInv, AskedInTime, StillLeaving
  <1>5. CASE Tick
    <2>1. UNCHANGED <<imports, stored, committed, pc, token, since>> /\ clock' = clock + 1
      BY <1>5 DEF Tick
    <2> QED
      BY <2>1 DEF CommittedInv, AskedInTime, StillLeaving, NoTime
  <1>6. CASE Crash
    BY <1>6 DEF Crash, CommittedInv, AskedInTime, StillLeaving
  <1> QED
    BY <1>1, <1>2, <1>3, <1>4, <1>5, <1>6 DEF Next

LEMMA OnceNext ==
    ASSUME LostAnswers = FALSE, TypeOK, BornInv, TimeInv, InflightInv, CommittedInv, PutInv,
           ProgressInv, OnceInv, [Next]_vars
    PROVE  OnceInv'
  <1> USE BulkAssumption DEF TypeOK, Goto
  <1>1. ASSUME NEW r \in Requests, NEW p \in Previews, Preview(r, p) PROVE OnceInv'
    <2>1. /\ \A s \in Requests \ {r} : pc'[s] = pc[s] /\ token'[s] = token[s]
          /\ token'[r] = p /\ pc[r] = "idle" /\ imports[p] = 0
          /\ UNCHANGED <<imports, stored, committed>>
      BY <1>1 DEF Preview, BornInv
    <2> QED
      BY <2>1 DEF OnceInv, Closed, Gone
  <1>2. ASSUME NEW r \in Requests, NEW p \in Previews, Lookup(r, p) PROVE OnceInv'
    <2>1. UNCHANGED <<imports, committed>> /\ stored' \subseteq stored /\ pc[r] = "idle"
      BY <1>2 DEF Lookup, Prune
    <2>2. CASE UNCHANGED <<pc, token, since>>
      BY <2>1, <2>2 DEF OnceInv, Closed, Gone
    <2>3. CASE /\ p \in stored' /\ pc' = [pc EXCEPT ![r] = "age"]
               /\ token' = [token EXCEPT ![r] = p] /\ since' = [since EXCEPT ![r] = clock]
      <3>1. /\ \A s \in Requests \ {r} : pc'[s] = pc[s] /\ token'[s] = token[s]
            /\ pc'[r] = "age" /\ token'[r] = p /\ ~Gone(p)
        BY <2>1, <2>3 DEF Gone
      <3> QED
        BY <2>1, <3>1 DEF OnceInv, Closed, Gone
    <2> QED
      BY <1>2, <2>2, <2>3 DEF Lookup
  <1>3. ASSUME NEW r \in Requests, Step(r) PROVE OnceInv'
    <2>p. PICK q \in Previews : q = token[r]
      BY <1>3, StepFrame
    <2> USE <2>p
    <2>0. /\ q \in Previews
          /\ \A s \in Requests \ {r} : pc'[s] = pc[s] /\ token'[s] = token[s]
          /\ \/ pc'[r] = "idle" /\ token'[r] = NoPreview
             \/ token'[r] = token[r]
      BY <1>3, StepFrame
    <2>1. CASE Put(r)
      <3>1. /\ imports[q] = 0 /\ pc'[r] = "idle" /\ token'[r] = NoPreview /\ pc[r] = "put"
            /\ UNCHANGED <<imports, committed>> /\ stored' \subseteq stored \union {q}
        BY <2>1 DEF Put, Finish, PutInv
      <3> QED
        BY <2>0, <3>1 DEF OnceInv, Closed, Gone
    <2>2. CASE CheckAge(r) \/ Lock(r) \/ Resolve(r) \/ DbFails(r)
      <3>1. /\ UNCHANGED <<imports, stored, committed>>
            /\ pc[r] \in {"age", "lock", "resolve", "commit"}
        BY <2>2 DEF CheckAge, Lock, Resolve, DbFails
      <3>2. ~Gone(q) /\ pc[r] # "record"
        BY <3>1 DEF Gone
      <3>3. CASE CheckAge(r)
        BY <2>0, <3>1, <3>2 DEF OnceInv, Closed, Gone
      <3>4. CASE ~CheckAge(r)
        BY <2>0, <3>1, <3>2 DEF OnceInv, Closed, Gone
      <3> QED
        BY <3>3, <3>4
    <2>3. CASE Admit(r)
      <3>1. /\ pc[r] = "admit" /\ UNCHANGED <<imports, stored>>
            /\ committed' = Forget(committed)
            /\ pc'[r] # "record"
        BY <2>3 DEF Admit, Finish
      <3>2. ~Gone(q)
        BY <3>1 DEF Gone
      <3>3. \A p \in Previews : committed'[p] # committed[p] =>
                committed[p] # NoTime /\ Forget(committed)[p] = NoTime
        BY <3>1 DEF Forget
      <3>4. \A p \in Previews : committed'[p] # committed[p] => Gone(p)
        BY <3>3, ForgottenIsGone
      <3>5. \A p \in Previews : Gone(p) => Gone(p)'
        BY <2>0, <3>1, <3>2 DEF Gone
      <3>6. \A p \in Previews : Closed(p) => Closed(p)'
        <4>1. SUFFICES ASSUME NEW p \in Previews, Closed(p) PROVE Closed(p)'
          OBVIOUS
        <4>2. CASE committed[p] # NoTime
          BY <4>2, <3>4, <3>5 DEF Closed
        <4>3. CASE \E s \in Requests : token[s] = p /\ pc[s] = "record"
          BY <4>3, <2>0, <3>1 DEF Closed
        <4>4. CASE Gone(p)
          BY <4>4, <3>5 DEF Closed
        <4> QED
          BY <4>1, <4>2, <4>3, <4>4 DEF Closed
      <3> QED
        BY <3>1, <3>6 DEF OnceInv
    <2>4. CASE Commit(r)
      <3>1. /\ imports' = [imports EXCEPT ![q] = @ + 1] /\ imports[q] = 0
            /\ pc'[r] = "record" /\ token'[r] = q /\ pc[r] = "commit"
            /\ UNCHANGED <<stored, committed>>
        BY <2>4 DEF Commit, Write, ProgressInv
      <3>2. imports'[q] = 1 /\ Closed(q)'
        BY <2>0, <3>1 DEF Closed
      <3>3. \A p \in Previews : p # q => imports'[p] = imports[p] /\ (Closed(p) => Closed(p)')
        BY <2>0, <3>1 DEF Closed, Gone
      <3> QED
        BY <3>2, <3>3 DEF OnceInv
    <2>5. CASE Record(r)
      <3>1. /\ committed' = [committed EXCEPT ![q] = clock] /\ UNCHANGED <<imports, stored>>
            /\ pc[r] = "record" /\ pc'[r] = "leaveOk"
        BY <2>5 DEF Record
      <3>2. Closed(q)'
        BY <2>0, <3>1 DEF Closed, NoTime
      <3>3. \A p \in Previews : p # q => (Closed(p) => Closed(p)')
        BY <2>0, <3>1 DEF Closed, Gone
      <3> QED
        BY <3>1, <3>2, <3>3 DEF OnceInv
    <2>6. CASE Leave(r) \/ Consume(r)
      <3>1. /\ UNCHANGED <<imports, committed>> /\ stored' \subseteq stored
            /\ pc[r] # "record" /\ pc'[r] \in {"idle", "consume"}
        BY <2>6 DEF Leave, Consume, Finish
      <3>2. \A p \in Previews : Closed(p) => Closed(p)'
        BY <2>0, <3>1 DEF Closed, Gone
      <3> QED
        BY <3>1, <3>2 DEF OnceInv
    <2> QED
      BY <1>3, <2>1, <2>2, <2>3, <2>4, <2>5, <2>6 DEF Step
  <1>4. CASE Edit \/ Tick \/ UNCHANGED vars
    BY <1>4 DEF Edit, Tick, vars, OnceInv, Closed, Gone
  <1>5. CASE Crash
    <2>1. \A p \in Previews : imports'[p] <= 1
      <3>1. CASE \E r \in Requests : pc[r] = "commit" /\ Write(r)
        BY <3>1 DEF Write, ProgressInv, OnceInv
      <3>2. CASE UNCHANGED imports
        BY <3>2 DEF OnceInv
      <3> QED
        BY <1>5, <3>1, <3>2 DEF Crash
    <2>2. \A p \in Previews : Closed(p)'
      BY <1>5 DEF Crash, Closed, Gone
    <2> QED
      BY <2>1, <2>2 DEF OnceInv
  <1> QED
    BY <1>1, <1>2, <1>3, <1>4, <1>5 DEF Next

LEMMA UsedNext ==
    ASSUME LostAnswers = FALSE, TypeOK, BornInv, ProgressInv, OnceInv, OnceInv', UsedInv, [Next]_vars
    PROVE  UsedInv'
  <1> USE BulkAssumption DEF TypeOK, UsedInv
  <1>1. CASE \E r \in Requests, p \in Previews : Preview(r, p) \/ Lookup(r, p)
    BY <1>1 DEF Preview, Lookup, Prune, Forget
  <1>2. ASSUME NEW r \in Requests, Step(r) PROVE UsedInv'
    <2>1. \A p \in Previews : imports[p] = 1 => imports'[p] = 1
      <3>1. imports' = imports \/ imports' = [imports EXCEPT ![token[r]] = @ + 1]
        BY <1>2 DEF Step, Put, CheckAge, Admit, Lock, Resolve, Commit, DbFails, Record,
                    Leave, Consume, Write
      <3> QED
        BY <3>1 DEF OnceInv
    <2>2. CASE Consume(r)
      <3>1. imports[token[r]] = 1
        BY <2>2 DEF Consume, ProgressInv
      <3> QED
        BY <2>1, <2>2, <3>1 DEF Consume
    <2>3. CASE ~Consume(r)
      <3>1. \A p \in Previews : used'[p] \in {used[p], NoTime}
        BY <1>2, <2>3 DEF Step, Put, CheckAge, Admit, Lock, Resolve, Commit, DbFails, Record,
                          Leave, Forget
      <3> QED
        BY <2>1, <3>1
    <2> QED
      BY <2>2, <2>3
  <1>3. CASE Edit \/ Tick \/ UNCHANGED vars
    BY <1>3 DEF Edit, Tick, vars
  <1>4. CASE Crash
    BY <1>4 DEF Crash
  <1> QED
    BY <1>1, <1>2, <1>3, <1>4 DEF Next

-----------------------------------------------------------------------------
(* The theorems.  The guard is sound if a request takes at most half the   *)
(* TTL (ShortRequests) and no COMMIT loses its answer.                     *)

LEMMA InvInit == Init => Inv
  <1> SUFFICES ASSUME Init PROVE Inv
    OBVIOUS
  <1>1. /\ \A r \in Requests : pc[r] = "idle" /\ token[r] = NoPreview
        /\ \A p \in Previews : /\ imports[p] = 0 /\ committed[p] = NoTime /\ used[p] = NoTime
        /\ stored = {}
    BY DEF Init
  <1> QED
    BY <1>1, TypeInit, BulkAssumption
       DEF Inv, LockInv, BornInv, PutInv, TimeInv, InflightInv, Inside, ProgressInv,
           CommittedInv, AskedInTime, StillLeaving, OnceInv, UsedInv

LEMMA InvNext ==
    ASSUME LostAnswers = FALSE, Inv, [Next]_vars PROVE Inv'
  <1>1. TypeOK' /\ LockInv' /\ BornInv' /\ PutInv' /\ TimeInv' /\ InflightInv'
    BY TypeNext, LockNext, BornNext, PutNext, TimeNext, InflightNext DEF Inv
  <1>2. ProgressInv' /\ CommittedInv' /\ OnceInv'
    BY ProgressNext, CommittedNext, OnceNext DEF Inv
  <1>3. UsedInv'
    BY <1>2, UsedNext DEF Inv
  <1> QED
    BY <1>1, <1>2, <1>3 DEF Inv

THEOREM BulkInvariant == ASSUME LostAnswers = FALSE PROVE Spec => []Inv
  BY InvInit, InvNext, PTL DEF Spec

\* Every variable keeps its type, whether or not answers are lost.
THEOREM BulkTypeCorrect == Spec => []TypeOK
  BY TypeInit, TypeNext, PTL DEF Spec

\* However often a preview is submitted, it is imported at most once.
THEOREM ImportedAtMostOnce == ASSUME LostAnswers = FALSE PROVE Spec => []ImportedOnce
  <1>1. Inv => ImportedOnce
    BY DEF Inv, OnceInv, ImportedOnce
  <1> QED
    BY <1>1, BulkInvariant, PTL

\* The maps used and committed only remember previews that were imported.
THEOREM RememberedImported == ASSUME LostAnswers = FALSE PROVE Spec => []RememberedWasImported
  <1>1. Inv => RememberedWasImported
    BY DEF Inv, CommittedInv, UsedInv, RememberedWasImported
  <1> QED
    BY <1>1, BulkInvariant, PTL

\* What holds whether or not answers are lost.
Base == TypeOK /\ LockInv /\ BornInv /\ TimeInv

LEMMA BaseInvariant == Spec => []Base
  <1>1. Init => Base
    BY InvInit DEF Inv, Base
  <1>2. Base /\ [Next]_vars => Base'
    BY TypeNext, LockNext, BornNext, TimeNext DEF Base
  <1> QED
    BY <1>1, <1>2, PTL DEF Spec

\* Only a step of a request at its commit imports, and it imports its token.
LEMMA WhoImports ==
    ASSUME TypeOK, [Next]_vars, NEW p \in Previews, imports'[p] > imports[p]
    PROVE  \E r \in Requests : pc[r] = "commit" /\ token[r] = p
  <1>1. PICK r \in Requests : pc[r] = "commit" /\ Write(r)
    <2>1. CASE \E r \in Requests : Step(r)
      BY <2>1 DEF Step, Put, CheckAge, Admit, Lock, Resolve, Commit, DbFails, Record,
                  Leave, Consume, TypeOK
    <2>2. CASE Crash
      BY <2>2 DEF Crash, TypeOK
    <2>3. CASE ~Crash /\ ~\E r \in Requests : Step(r)
      BY <2>3 DEF Next, Preview, Lookup, Edit, Tick, vars, TypeOK
    <2> QED
      BY <2>1, <2>2, <2>3
  <1> QED
    BY <1>1 DEF Write, TypeOK

\* The production cannot change between the importer's check and its commit.
THEOREM ImportsIntoPreviewed == Spec => IntoPreviewedProduction
  <1>1. ASSUME Base, [Next]_vars, NEW p \in Previews, imports'[p] > imports[p]
        PROVE  ~archived /\ name = seen[p]
    BY <1>1, WhoImports DEF Base, LockInv
  <1>2. Base /\ [Next]_vars =>
            [\A p \in Previews : imports'[p] > imports[p] => ~archived /\ name = seen[p]]_vars
    BY <1>1
  <1> QED
    BY <1>2, BaseInvariant, PTL DEF Spec, IntoPreviewedProduction

\* Waiting for locks does not let an expired preview through by more than
\* the time one request may take.
THEOREM ImportsAreFresh == Spec => ImportIsFresh
  <1>1. ASSUME Base, [Next]_vars, NEW p \in Previews, imports'[p] > imports[p]
        PROVE  clock - born[p] <= TTL + Life
    <2>1. PICK r \in Requests : pc[r] = "commit" /\ token[r] = p
      BY <1>1, WhoImports DEF Base
    <2>2. born[p] \in Nat /\ since[r] \in Nat /\ clock \in Nat
      BY <1>1, <2>1 DEF Base, BornInv, TypeOK
    <2>3. clock <= since[r] + Life /\ since[r] <= born[p] + TTL
      BY <1>1, <2>1 DEF Base, TimeInv
    <2> QED
      BY <2>2, <2>3, BulkAssumption
  <1>2. Base /\ [Next]_vars =>
            [\A p \in Previews : imports'[p] > imports[p] => clock - born[p] <= TTL + Life]_vars
    BY <1>1
  <1> QED
    BY <1>2, BaseInvariant, PTL DEF Spec, ImportIsFresh

\* The actors a transaction is about to add are not there.
PlanInv == \A r \in Requests : pc[r] = "commit" =>
              \A n \in newActors[r] : n \in ActorNames /\ actors[n] = 0

LEMMA PlanNext ==
    ASSUME "renameActor" \notin Edits, TypeOK, LockInv, PlanInv, [Next]_vars PROVE PlanInv'
  <1> USE BulkAssumption DEF TypeOK, PlanInv, Goto
  <1>1. CASE \E r \in Requests, p \in Previews : Preview(r, p) \/ Lookup(r, p)
    BY <1>1 DEF Preview, Lookup
  <1>2. ASSUME NEW r \in Requests, Step(r) PROVE PlanInv'
    <2>1. CASE Put(r) \/ CheckAge(r) \/ Admit(r) \/ Consume(r) \/ Leave(r)
      <3>1. /\ UNCHANGED actors /\ pc'[r] # "commit"
            /\ \A s \in Requests \ {r} : pc'[s] = pc[s] /\ newActors'[s] = newActors[s]
        BY <2>1 DEF Put, CheckAge, Admit, Consume, Leave, Finish
      <3> QED
        BY <3>1
    <2>2. CASE Lock(r) \/ Record(r)
      BY <2>2 DEF Lock, Record
    <2>3. CASE Resolve(r)
      <3>1. /\ UNCHANGED actors
            /\ \A s \in Requests \ {r} : pc'[s] = pc[s] /\ newActors'[s] = newActors[s]
            /\ pc'[r] = "commit" => newActors'[r] = wantActors[token[r]] \ LiveActors
        BY <2>3 DEF Resolve, Rollback
      <3>2. wantActors[token[r]] \subseteq ActorNames
        BY <2>3 DEF Resolve
      <3> QED
        BY <3>1, <3>2 DEF LiveActors
    <2>4. CASE Commit(r) \/ DbFails(r)
      <3>1. pc'[r] # "commit" /\ \A s \in Requests \ {r} : pc'[s] = pc[s] /\ newActors'[s] = newActors[s]
        BY <2>4 DEF Commit, DbFails, Rollback
      <3>2. CASE UNCHANGED actors
        BY <3>1, <3>2
      <3>3. CASE pc[r] = "commit"
        BY <3>1, <3>3 DEF LockInv
      <3> QED
        BY <2>4, <3>2, <3>3 DEF Commit, DbFails
    <2> QED
      BY <1>2, <2>1, <2>2, <2>3, <2>4 DEF Step
  <1>3. CASE Edit
    <2>1. UNCHANGED <<pc, newActors, lock>>
      BY <1>3 DEF Edit
    <2>2. CASE \E n \in LiveActors : actors' = [actors EXCEPT ![n] = @ - 1]
      BY <2>1, <2>2 DEF LiveActors
    <2>3. CASE UNCHANGED actors
      BY <2>1, <2>3
    <2>4. CASE Unlocked
      BY <2>1, <2>4 DEF Unlocked, LockInv
    <2> QED
      BY <1>3, <2>2, <2>3, <2>4 DEF Edit, EditActors, EditTypes, EditProduction, Make
  <1>4. CASE Tick \/ Crash \/ UNCHANGED vars
    BY <1>4 DEF Tick, Crash, vars
  <1> QED
    BY <1>1, <1>2, <1>3, <1>4 DEF Next

\* As long as no actor is renamed, an import never adds an actor beside a
\* live one of the same name.
THEOREM ImportsShareActors ==
    ASSUME "renameActor" \notin Edits PROVE Spec => NoSecondActor
  <1> DEFINE J == Base /\ PlanInv
  <1>1. Init => PlanInv
    BY DEF Init, PlanInv
  <1>2. J /\ [Next]_vars => PlanInv'
    BY PlanNext DEF Base
  <1>3. ASSUME J, [Next]_vars, imports' # imports, NEW n \in ActorNames, actors'[n] > actors[n]
        PROVE  actors[n] = 0
    <2>1. PICK r \in Requests : pc[r] = "commit" /\ Write(r)
      <3>1. CASE \E r \in Requests : Step(r)
        BY <1>3, <3>1 DEF Step, Put, CheckAge, Admit, Lock, Resolve, Commit, DbFails, Record,
                          Leave, Consume
      <3>2. CASE Crash
        BY <1>3, <3>2 DEF Crash
      <3>3. CASE ~Crash /\ ~\E r \in Requests : Step(r)
        BY <1>3, <3>3 DEF Next, Preview, Lookup, Edit, Tick, vars
      <3> QED
        BY <3>1, <3>2, <3>3
    <2> QED
      BY <1>3, <2>1 DEF PlanInv, Write, Base, TypeOK
  <1>4. J /\ [Next]_vars =>
          [imports' # imports =>
              \A n \in ActorNames : actors'[n] > actors[n] => actors[n] = 0]_vars
    BY <1>3
  <1> QED
    BY <1>1, <1>2, <1>4, BaseInvariant, PTL DEF Spec, NoSecondActor

-----------------------------------------------------------------------------
(* A retry finds its preview.  Only consume takes a preview out of the     *)
(* store before its time, and only a request that has imported gets there. *)

\* A request that got past its commit has imported its preview.
DoneInv == \A r \in Requests :
              pc[r] \in {"record", "leaveOk", "consume"} => imports[token[r]] > 0

\* Imports are never taken back.
LEMMA ImportsGrow ==
    ASSUME TypeOK, [Next]_vars, NEW p \in Previews
    PROVE  imports'[p] >= imports[p] /\ imports[p] \in Nat /\ imports'[p] \in Nat
  <1>1. imports \in [Previews -> Nat] /\ imports' \in [Previews -> Nat]
    BY TypeNext DEF TypeOK
  <1>2. CASE UNCHANGED imports
    BY <1>1, <1>2
  <1>3. CASE \E r \in Requests : Write(r)
    BY <1>1, <1>3 DEF Write
  <1> QED
    BY <1>1, <1>2, <1>3 DEF Next, Step, Preview, Put, Lookup, CheckAge, Admit, Lock, Resolve,
       Commit, DbFails, Record, Leave, Consume, Edit, Tick, Crash, vars, database

LEMMA DoneNext ==
    ASSUME TypeOK, DoneInv, [Next]_vars PROVE DoneInv'
  <1> SUFFICES ASSUME NEW r \in Requests, pc'[r] \in {"record", "leaveOk", "consume"}
               PROVE  imports'[token'[r]] > 0
    BY DEF DoneInv
  <1>1. pc \in [Requests -> Pcs] /\ token \in [Requests -> Previews \union {NoPreview}]
    BY DEF TypeOK
  <1>2. CASE /\ pc[r] \in {"record", "leaveOk", "consume"} /\ token'[r] = token[r]
    <2>1. token[r] \in Previews
      BY <1>2 DEF TypeOK
    <2>2. imports'[token[r]] >= imports[token[r]] /\ imports[token[r]] \in Nat
          /\ imports'[token[r]] \in Nat
      BY <2>1, ImportsGrow
    <2> QED
      BY <1>2, <2>2 DEF DoneInv
  <1>3. CASE Commit(r)
    <2>1. token[r] \in Previews /\ token' = token /\ imports[token[r]] \in Nat
      BY <1>3 DEF Commit, TypeOK
    <2>2. imports'[token[r]] = imports[token[r]] + 1
      BY <1>3, <2>1 DEF Commit, Write, TypeOK
    <2> QED
      BY <2>1, <2>2
  <1>4. CASE ~Commit(r)
    <2>1. CASE \E s \in Requests : Step(s)
      <3>1. PICK s \in Requests : Step(s)
        BY <2>1
      <3>2. CASE s = r
        BY <1>1, <1>2, <1>4, <3>1, <3>2 DEF Step, Put, CheckAge, Admit, Lock, Resolve, DbFails,
           Rollback, Record, Leave, Consume, Goto, Finish
      <3>3. CASE s # r
        <4>1. pc'[r] = pc[r] /\ token'[r] = token[r]
          BY <1>1, <3>1, <3>3 DEF Step, Put, CheckAge, Admit, Lock, Resolve, Commit, DbFails,
             Rollback, Record, Leave, Consume, Goto, Finish
        <4> QED
          BY <1>2, <4>1
      <3> QED
        BY <3>2, <3>3
    <2>2. CASE \E s \in Requests, p \in Previews : Preview(s, p) \/ Lookup(s, p)
      BY <1>1, <1>2, <2>2 DEF Preview, Lookup, Goto
    <2>3. CASE Edit \/ Tick \/ UNCHANGED vars
      BY <1>2, <2>3 DEF Edit, Tick, vars, requests
    <2>4. CASE Crash
      BY <2>4 DEF Crash
    <2> QED
      BY <2>1, <2>2, <2>3, <2>4 DEF Next
  <1> QED
    BY <1>3, <1>4

\* A preview that has not been imported stays in the store until it expires
\* or the process ends, whatever attempts to commit it fail.
THEOREM PreviewsKeptForRetry == Spec => KeptForRetry
  <1> DEFINE Kept == \A p \in stored : p \notin stored'
                        => imports[p] > 0 \/ clock >= until[p] \/ stops' # stops
  <1>1. ASSUME TypeOK, DoneInv, [Next]_vars, NEW p \in stored, p \notin stored'
        PROVE  imports[p] > 0 \/ clock >= until[p] \/ stops' # stops
    <2>1. clock \in Nat /\ until[p] \in Int /\ stops \in Nat
      BY <1>1 DEF TypeOK, NoTime
    <2>2. CASE \E r \in Requests : Consume(r)
      BY <1>1, <2>2 DEF Consume, DoneInv
    <2>3. CASE Crash
      BY <2>1, <2>3 DEF Crash
    <2>4. CASE (\E r \in Requests : Put(r)) \/ \E r \in Requests, q \in Previews : Lookup(r, q)
      BY <1>1, <2>1, <2>4 DEF Put, Lookup, Prune
    <2> QED
      BY <1>1, <2>2, <2>3, <2>4 DEF Next, Step, Preview, CheckAge, Admit, Lock, Resolve,
         Commit, DbFails, Record, Leave, Edit, Tick, vars, store
  <1>2. TypeOK /\ DoneInv /\ [Next]_vars => [Kept]_vars
    BY <1>1
  <1>3. Init => DoneInv
    BY DEF Init, DoneInv
  <1> QED
    BY <1>2, <1>3, DoneNext, TypeInit, TypeNext, PTL DEF Spec, KeptForRetry
=============================================================================
