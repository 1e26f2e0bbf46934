---------------------------- MODULE ProcessProofs ----------------------------
(***************************************************************************)
(* Proofs about a process of the application: its start on a database that *)
(* others prepare too (Migrations, for any processes, releases and         *)
(* loaders), and its life until it exits (Shutdown, for any requests and   *)
(* workers).                                                               *)
(*                                                                         *)
(* The inductive invariant of the start says what a process knows of the   *)
(* schema while it holds the advisory lock.  The loader does not take that *)
(* lock, and the argument shows why it need not: it only ever creates the  *)
(* history, which a process that has one does not touch.                   *)
(*                                                                         *)
(* That of the end says what the main goroutine has waited for: requests   *)
(* before Run returns without an error, workers before the database is     *)
(* closed.                                                                 *)
(***************************************************************************)
EXTENDS Migrations, Shutdown, TLAPS

\* What Migrate has found out stays true while it works.
Found ==
    /\ ~hasHistory => recorded = {}
    /\ \A p \in Processes :
          /\ pc[p] \in {"read", "apply", "validate"} => hasHistory
          /\ pc[p] = "create" => hasHistory \/ NoTables
          /\ pc[p] \in {"apply", "validate"} => applied[p] = recorded /\ Known(p)
          /\ pc[p] = "validate" => 1..release[p] \subseteq recorded
    /\ \A l \in Loaders : lpc[l] = "init" => ~foreign

IInv == TypeOK /\ Found /\ ServingMigrated

\* A step leaves the schema alone, creates the history, applies a migration
\* on behalf of the lock's holder, or initializes a target for the loader.
Created == /\ ~hasHistory /\ hasHistory' = TRUE
           /\ UNCHANGED <<recorded, tables, foreign>>
Applied(p) == \E v \in 1..release[p] : /\ IsNext(p, v) /\ Runnable(v) /\ Run(v)
                                       /\ UNCHANGED <<hasHistory, foreign>>
Initialized == /\ ~hasHistory /\ tables = {} /\ ~foreign
               /\ hasHistory' = TRUE /\ recorded' = 1..Current /\ tables' = 1..Current
               /\ UNCHANGED foreign
SchemaStep ==
    \/ UNCHANGED schema
    \/ \E p \in Processes : pc[p] = "create" /\ Created
    \/ \E p \in Processes : pc[p] = "apply" /\ Applied(p)
    \/ Initialized

-----------------------------------------------------------------------------

\* What a broken connection leaves behind is one of the steps of SchemaStep.
LEMMA InFlightSteps ==
    ASSUME NEW p \in Processes, InFlight(p), UNCHANGED foreign
    PROVE  SchemaStep
BY DEF InFlight, SchemaStep, Created, Applied, schema

LEMMA SchemaSteps == IInv /\ [Next]_vars => SchemaStep
<1> SUFFICES ASSUME IInv, [Next]_vars PROVE SchemaStep
    OBVIOUS
<1>1. CASE UNCHANGED vars
    BY <1>1 DEF vars, SchemaStep
<1>2. ASSUME NEW p \in Processes, Step(p) PROVE SchemaStep
  <2>1. CASE CreateHistory(p)
      BY <2>1 DEF CreateHistory, SchemaStep, Created, schema
  <2>2. CASE Apply(p)
      BY <2>2 DEF Apply, SchemaStep, Applied, schema
  <2>3. CASE ~CreateHistory(p) /\ ~Apply(p)
      BY <1>2, <2>3 DEF Step, Lock, LockTimeout, Inspect, ReadHistory, ApplyDone,
                        Validate, Unlock, Ready, SchemaStep, schema
  <2> QED
      BY <2>1, <2>2, <2>3
<1>3. ASSUME NEW p \in Processes, Boot(p) \/ Serve(p) PROVE SchemaStep
    BY <1>3 DEF Boot, Serve, SchemaStep
<1>4. ASSUME NEW p \in Processes, DbFails(p) \/ Crash(p) PROVE SchemaStep
  <2>1. CASE InFlight(p)
      BY <1>4, <2>1, InFlightSteps DEF DbFails, Crash
  <2>2. CASE ~InFlight(p)
      BY <1>4, <2>2 DEF DbFails, Crash, SchemaStep, schema
  <2> QED
      BY <2>1, <2>2
<1>5. CASE GhostEnds
    BY <1>5 DEF GhostEnds, SchemaStep
<1>6. ASSUME NEW l \in Loaders, Loader(l) PROVE SchemaStep
    BY <1>6 DEF Loader, LoaderInspect, LoaderInit, LoaderCheck, LoaderLoad,
                SchemaStep, Initialized, schema, IInv, Found
<1> QED
    BY <1>1, <1>2, <1>3, <1>4, <1>5, <1>6 DEF Next

\* Nothing is ever taken out of the schema.
LEMMA Grows ==
    ASSUME IInv, SchemaStep
    PROVE  /\ recorded \subseteq recorded' /\ tables \subseteq tables'
           /\ hasHistory => hasHistory'
           /\ foreign' = foreign
           /\ recorded' \ recorded = tables' \ tables
           /\ recorded' \subseteq Nat \ {0} /\ tables' \subseteq Nat \ {0}
           /\ hasHistory' \in BOOLEAN /\ foreign' \in BOOLEAN
           /\ ~hasHistory' => recorded' = {}
<1>1. CASE UNCHANGED schema
    BY <1>1 DEF schema, IInv, TypeOK, Found
<1>2. CASE \E p \in Processes : pc[p] = "create" /\ Created
    BY <1>2 DEF Created, IInv, TypeOK, Found
<1>3. ASSUME NEW p \in Processes, pc[p] = "apply", Applied(p)
      PROVE  /\ recorded \subseteq recorded' /\ tables \subseteq tables'
             /\ hasHistory' = hasHistory /\ hasHistory
             /\ foreign' = foreign
             /\ recorded' \ recorded = tables' \ tables
             /\ recorded' \subseteq Nat \ {0} /\ tables' \subseteq Nat \ {0}
  <2>1. PICK v \in 1..release[p] : Runnable(v) /\ Run(v) /\ UNCHANGED <<hasHistory, foreign>>
      BY <1>3 DEF Applied
  <2>2. v \in Nat \ {0}
      BY DEF IInv, TypeOK
  <2>3. hasHistory
      BY <1>3 DEF IInv, Found
  <2> QED
      BY <2>1, <2>2, <2>3 DEF Runnable, Run, IInv, TypeOK
<1>4. CASE Initialized
    BY <1>4, MigrationsAssumption DEF Initialized, IInv, TypeOK, Found, MigrationsAssumption
<1> QED
    BY <1>1, <1>2, <1>3, <1>4 DEF SchemaStep, IInv, TypeOK

-----------------------------------------------------------------------------

LEMMA InitIInv == Init => IInv
BY MigrationsAssumption DEF Init, IInv, TypeOK, Found, ServingMigrated, Inside, Pcs,
                            MigrationsAssumption, NoTables, Known

\* The steps of one process keep the types, and the lock where it belongs.
LEMMA StepTypes ==
    ASSUME IInv, NEW p \in Processes, Step(p)
    PROVE  TypeOK'
<1>0. SchemaStep
    BY SchemaSteps DEF Next
<1>1. /\ recorded' \subseteq Nat \ {0} /\ tables' \subseteq Nat \ {0}
      /\ hasHistory' \in BOOLEAN /\ foreign' \in BOOLEAN
    BY <1>0, Grows
<1>2. CASE Lock(p)
    BY <1>1, <1>2, MigrationsAssumption DEF Lock, Goto, IInv, TypeOK, Inside, Pcs,
                                            content, bounds, MigrationsAssumption
<1>3. CASE LockTimeout(p) \/ Ready(p)
    BY <1>1, <1>3 DEF LockTimeout, Ready, Goto, IInv, TypeOK, Inside, Pcs, content, bounds
<1>4. CASE Inspect(p) \/ CreateHistory(p) \/ ApplyDone(p) \/ Validate(p)
    BY <1>1, <1>4 DEF Inspect, CreateHistory, ApplyDone, Validate, Valid, Fail, Goto,
                      IInv, TypeOK, Inside, Pcs, content, bounds
<1>5. CASE ReadHistory(p)
    BY <1>1, <1>5 DEF ReadHistory, Fail, Goto, IInv, TypeOK, Inside, Pcs, content, bounds
<1>6. CASE Apply(p)
  <2>1. applied' \in [Processes -> SUBSET (Nat \ {0})]
    <3>1. \A v \in 1..release[p] : v \in Nat \ {0}
        BY DEF IInv, TypeOK
    <3> QED
        BY <1>6, <3>1 DEF Apply, IInv, TypeOK
  <2>2. \/ UNCHANGED <<pc, ok>>
        \/ Fail(p)
      BY <1>6 DEF Apply
  <2>3. UNCHANGED <<foreign, lock, content, release, lpc, bounds>>
      BY <1>6 DEF Apply
  <2>4. pc[p] = "apply"
      BY <1>6 DEF Apply
  <2> QED
      BY <1>1, <2>1, <2>2, <2>3, <2>4 DEF Fail, Goto, IInv, TypeOK, Inside, Pcs, content, bounds
<1>7. CASE Unlock(p)
    BY <1>1, <1>7 DEF Unlock, Goto, IInv, TypeOK, Inside, Pcs, content, bounds
<1> QED
    BY <1>2, <1>3, <1>4, <1>5, <1>6, <1>7 DEF Step

LEMMA Types == IInv /\ [Next]_vars => TypeOK'
<1> SUFFICES ASSUME IInv, [Next]_vars PROVE TypeOK'
    OBVIOUS
<1>1. /\ recorded' \subseteq Nat \ {0} /\ tables' \subseteq Nat \ {0}
      /\ hasHistory' \in BOOLEAN /\ foreign' \in BOOLEAN
    BY SchemaSteps, Grows
<1>2. CASE UNCHANGED vars
    BY <1>2 DEF IInv, TypeOK, vars, schema, content, process, bounds
<1>3. ASSUME NEW p \in Processes, Boot(p) PROVE TypeOK'
    BY <1>3, MigrationsAssumption DEF Boot, Goto, IInv, TypeOK, Inside, Pcs,
                                      schema, content, bounds, MigrationsAssumption
<1>4. ASSUME NEW p \in Processes, DbFails(p) PROVE TypeOK'
  <2>1. UNCHANGED <<foreign, content, release, applied, lpc, stops>> /\ faults' \in Nat
      BY <1>4 DEF DbFails, IInv, TypeOK
  <2>2. CASE pc[p] \in Inside /\ Fail(p) /\ UNCHANGED lock
      BY <1>1, <2>1, <2>2 DEF Fail, Goto, IInv, TypeOK, Inside, Pcs, content
  <2>3. CASE Goto(p, "down") /\ Abandon(p) /\ UNCHANGED ok
      BY <1>1, <2>1, <2>3 DEF Abandon, Goto, IInv, TypeOK, Inside, Pcs, content
  <2>4. CASE /\ pc[p] = "lock" /\ Goto(p, "down") /\ UNCHANGED ok
             /\ lock' \in IF lock = Free THEN {Free, Ghost} ELSE {lock}
      BY <1>1, <2>1, <2>4, MigrationsAssumption
         DEF Goto, IInv, TypeOK, Inside, Pcs, content, MigrationsAssumption
  <2> QED
      BY <1>4, <2>2, <2>3, <2>4 DEF DbFails
<1>5. ASSUME NEW p \in Processes, Crash(p) PROVE TypeOK'
    BY <1>1, <1>5 DEF Crash, Abandon, Goto, IInv, TypeOK, Inside, Pcs, content
<1>6. ASSUME NEW p \in Processes, Serve(p) PROVE TypeOK'
    BY <1>6 DEF Serve, IInv, TypeOK, schema, process, bounds
<1>7. CASE GhostEnds
    BY <1>7, MigrationsAssumption DEF GhostEnds, IInv, TypeOK, schema, content, process,
                                      bounds, MigrationsAssumption
<1>8. ASSUME NEW l \in Loaders, Loader(l) PROVE TypeOK'
    BY <1>1, <1>8 DEF Loader, LoaderInspect, LoaderInit, LoaderCheck, LoaderLoad, LGoto,
                      IInv, TypeOK, schema, content, process, bounds
<1> QED
    BY <1>2, <1>3, <1>4, <1>5, <1>6, <1>7, <1>8, StepTypes DEF Next

-----------------------------------------------------------------------------

\* Nobody but the holder of the lock, and a loader that creates the history,
\* changes the schema.
LEMMA ForeignSteps ==
    ASSUME IInv, NEW p \in Processes, NEW q \in Processes, q # p,
           Step(p) \/ Boot(p) \/ DbFails(p) \/ Crash(p) \/ Serve(p), pc[q] \in Inside
    PROVE  UNCHANGED schema /\ pc'[q] = pc[q] /\ release'[q] = release[q]
           /\ applied'[q] = applied[q] /\ ok'[q] = ok[q]
<1>1. pc[p] \notin Inside /\ lock # Free
    BY MigrationsAssumption DEF IInv, TypeOK, MigrationsAssumption
<1>2. CASE Step(p)
    BY <1>1, <1>2 DEF Step, Lock, LockTimeout, Inspect, CreateHistory, ReadHistory, Apply,
                      ApplyDone, Validate, Unlock, Ready, Goto, Inside, IInv, TypeOK
<1>3. CASE Boot(p) \/ Serve(p)
    BY <1>3 DEF Boot, Serve, Goto, process, IInv, TypeOK
<1>4. CASE DbFails(p) \/ Crash(p)
    BY <1>1, <1>4 DEF DbFails, Crash, InFlight, Goto, Inside, schema, IInv, TypeOK
<1> QED
    BY <1>2, <1>3, <1>4

\* What a process has found, when it is the one to move.
FoundBy(p) ==
    /\ pc[p] \in {"read", "apply", "validate"} => hasHistory
    /\ pc[p] = "create" => hasHistory \/ NoTables
    /\ pc[p] \in {"apply", "validate"} => applied[p] = recorded /\ Known(p)
    /\ pc[p] = "validate" => 1..release[p] \subseteq recorded

LEMMA FoundByStep ==
    ASSUME IInv, NEW p \in Processes, Step(p)
    PROVE  FoundBy(p)'
<1> USE DEF IInv, TypeOK, Found, FoundBy, NoTables, Known
<1>1. CASE Lock(p) \/ LockTimeout(p) \/ Unlock(p) \/ Ready(p)
    BY <1>1 DEF Lock, LockTimeout, Unlock, Ready, Goto
<1>2. CASE Inspect(p)
    BY <1>2 DEF Inspect, Fail, Goto, schema
<1>3. CASE CreateHistory(p)
    BY <1>3 DEF CreateHistory, Fail, Goto
<1>4. CASE ReadHistory(p)
    BY <1>4 DEF ReadHistory, Fail, Goto, schema
<1>5. CASE Apply(p)
  <2>1. PICK v \in 1..release[p] :
           \/ Runnable(v) /\ Run(v) /\ applied' = [applied EXCEPT ![p] = @ \union {v}]
              /\ UNCHANGED <<pc, ok>>
           \/ Fail(p) /\ UNCHANGED <<tables, recorded, applied>>
      BY <1>5 DEF Apply
  <2>2. pc[p] = "apply" /\ UNCHANGED <<hasHistory, release>>
      BY <1>5 DEF Apply
  <2> QED
      BY <2>1, <2>2 DEF Fail, Goto, Run
<1>6. CASE ApplyDone(p)
    BY <1>6 DEF ApplyDone, Goto, schema
<1>7. CASE Validate(p)
    BY <1>7 DEF Validate, Goto
<1> QED
    BY <1>1, <1>2, <1>3, <1>4, <1>5, <1>6, <1>7 DEF Step

LEMMA FoundKept == IInv /\ [Next]_vars => Found'
<1> SUFFICES ASSUME IInv, [Next]_vars PROVE Found'
    OBVIOUS
<1>0. SchemaStep /\ foreign' = foreign /\ (~hasHistory' => recorded' = {})
    BY SchemaSteps, Grows
<1>1. ASSUME NEW p \in Processes,
             Step(p) \/ Boot(p) \/ DbFails(p) \/ Crash(p) \/ Serve(p)
      PROVE  Found'
  <2>1. UNCHANGED lpc
      BY <1>1 DEF Step, Lock, LockTimeout, Inspect, CreateHistory, ReadHistory, Apply,
                  ApplyDone, Validate, Unlock, Ready, Boot, DbFails, Crash, Serve
  <2>2. FoundBy(p)'
    <3>1. CASE Boot(p) \/ Crash(p)
        BY <3>1 DEF Boot, Crash, Goto, FoundBy, IInv, TypeOK
    <3>2. CASE DbFails(p)
        BY <3>2 DEF DbFails, Fail, Goto, FoundBy, IInv, TypeOK
    <3>3. CASE Serve(p)
        BY <3>3 DEF Serve, process, FoundBy
    <3> QED
        BY <1>1, <3>1, <3>2, <3>3, FoundByStep
  <2>3. ASSUME NEW q \in Processes, q # p PROVE FoundBy(q)'
    <3>1. CASE pc[q] \in Inside
      <4>1. UNCHANGED schema /\ pc'[q] = pc[q] /\ release'[q] = release[q]
            /\ applied'[q] = applied[q]
          BY <1>1, <2>3, <3>1, ForeignSteps
      <4> QED
          BY <4>1 DEF FoundBy, IInv, Found, NoTables, Known, schema
    <3>2. CASE pc[q] \notin Inside
      <4>1. pc'[q] = pc[q]
          BY <1>1, <2>3 DEF Step, Lock, LockTimeout, Inspect, CreateHistory, ReadHistory,
             Apply, ApplyDone, Validate, Unlock, Ready, Boot, DbFails, Crash, Serve,
             Fail, Goto, process, IInv, TypeOK
      <4> QED
          BY <3>2, <4>1 DEF FoundBy, Inside
    <3> QED
        BY <3>1, <3>2
  <2> QED
      BY <1>0, <2>1, <2>2, <2>3 DEF Found, FoundBy, IInv
<1>2. CASE GhostEnds \/ UNCHANGED vars
    BY <1>2 DEF GhostEnds, vars, schema, process, IInv, Found, NoTables, Known
<1>3. ASSUME NEW l \in Loaders, Loader(l) PROVE Found'
  <2>1. UNCHANGED process
      BY <1>3 DEF Loader, LoaderInspect, LoaderInit, LoaderCheck, LoaderLoad
  <2>2. \A k \in Loaders : lpc'[k] = "init" => ~foreign'
      BY <1>0, <1>3 DEF Loader, LoaderInspect, LoaderInit, LoaderCheck, LoaderLoad, LGoto,
                        NoTables, IInv, TypeOK, Found
  <2>3. CASE UNCHANGED schema
      BY <2>1, <2>2, <2>3 DEF process, schema, IInv, Found, NoTables, Known
  <2>4. CASE ~UNCHANGED schema
    <3>1. ~hasHistory /\ hasHistory' = TRUE
        BY <1>3, <2>4 DEF Loader, LoaderInspect, LoaderInit, LoaderCheck, LoaderLoad, schema
    <3> QED
        BY <2>1, <2>2, <3>1 DEF process, IInv, Found
  <2> QED
      BY <2>3, <2>4
<1> QED
    BY <1>1, <1>2, <1>3 DEF Next

LEMMA ServingKept == IInv /\ [Next]_vars => ServingMigrated'
<1> SUFFICES ASSUME IInv, [Next]_vars, NEW p \in Processes, pc'[p] = "serving"
             PROVE  1..release'[p] \subseteq recorded' \intersect tables'
    BY DEF ServingMigrated
<1>1. recorded \subseteq recorded' /\ tables \subseteq tables'
    BY SchemaSteps, Grows
<1>2. CASE pc[p] = "serving" /\ release'[p] = release[p]
    BY <1>1, <1>2 DEF IInv, ServingMigrated
<1>3. CASE Ready(p) /\ Valid(p)
    BY <1>3 DEF Ready, Valid, schema
<1>4. (pc[p] = "serving" /\ release'[p] = release[p]) \/ (Ready(p) /\ Valid(p))
  <2>1. ASSUME NEW q \in Processes, Step(q) \/ DbFails(q) \/ Crash(q)
        PROVE  (pc[p] = "serving" /\ release'[p] = release[p]) \/ (Ready(p) /\ Valid(p))
      BY <2>1 DEF Step, Lock, LockTimeout, Inspect, CreateHistory, ReadHistory, Apply,
                  ApplyDone, Validate, Unlock, Ready, DbFails, Crash, Fail, Goto, IInv, TypeOK
  <2>2. ASSUME NEW q \in Processes, Boot(q) \/ Serve(q)
        PROVE  pc[p] = "serving" /\ release'[p] = release[p]
      BY <2>2 DEF Boot, Serve, Goto, process, IInv, TypeOK
  <2>3. ASSUME GhostEnds \/ UNCHANGED vars \/ \E l \in Loaders : Loader(l)
        PROVE  pc[p] = "serving" /\ release'[p] = release[p]
      BY <2>3 DEF GhostEnds, vars, process, Loader, LoaderInspect, LoaderInit, LoaderCheck,
                  LoaderLoad
  <2> QED
      BY <2>1, <2>2, <2>3 DEF Next
<1> QED
    BY <1>2, <1>3, <1>4

\* The invariant holds of every behaviour.
THEOREM MigrationsInvariant == Spec => []IInv
<1>1. Init => IInv
    BY InitIInv
<1>2. IInv /\ [Next]_vars => IInv'
    BY Types, FoundKept, ServingKept DEF IInv
<1> QED
    BY <1>1, <1>2, PTL DEF Spec

\* Variables keep their types; Migrate has the lock from first to last.
THEOREM MigrationsTypeCorrect == Spec => []TypeOK
<1>1. IInv => TypeOK
    BY DEF IInv
<1> QED
    BY <1>1, MigrationsInvariant, PTL

\* A process that serves has its migrations and their tables.
THEOREM ServesMigrated == Spec => []ServingMigrated
<1>1. IInv => ServingMigrated
    BY DEF IInv
<1> QED
    BY <1>1, MigrationsInvariant, PTL

\* Migrations and their records appear together.
THEOREM HistoryIsTrue == Spec => RecordedWithTables
<1>1. IInv /\ [Next]_vars => [recorded' \ recorded = tables' \ tables]_vars
    BY SchemaSteps, Grows
<1> QED
    BY <1>1, MigrationsInvariant, PTL DEF Spec, RecordedWithTables

\* A schema without a history is left alone, if there is anything in it.
THEOREM UnknownLeftAlone == Spec => UnknownUntouched
<1>1. IInv /\ [Next]_vars => [~hasHistory /\ ~NoTables => UNCHANGED schema]_vars
  <2> SUFFICES ASSUME IInv, [Next]_vars, ~hasHistory, ~NoTables PROVE UNCHANGED schema
      OBVIOUS
  <2>1. SchemaStep
      BY SchemaSteps
  <2>2. ~Initialized
      BY DEF Initialized, NoTables
  <2> QED
      BY <2>1, <2>2 DEF SchemaStep, IInv, Found
<1> QED
    BY <1>1, MigrationsInvariant, PTL DEF Spec, UnknownUntouched

\* A source is loaded only into an empty database.
THEOREM LoadsIntoEmpty == Spec => LoadedAlone
<1>1. IInv /\ [Next]_vars
      => [\A l \in Loaders : l \in rows' \ rows => rows = {} /\ marker = Free]_vars
  <2> SUFFICES ASSUME IInv, Next, NEW l \in Loaders, l \in rows' \ rows
               PROVE  rows = {} /\ marker = Free
      OBVIOUS
  <2>1. l # App
      BY MigrationsAssumption DEF MigrationsAssumption
  <2>2. ASSUME NEW p \in Processes,
               Boot(p) \/ Step(p) \/ DbFails(p) \/ Crash(p) \/ Serve(p)
        PROVE  FALSE
      BY <2>1, <2>2 DEF Boot, Step, Lock, LockTimeout, Inspect, CreateHistory, ReadHistory,
                        Apply, ApplyDone, Validate, Unlock, Ready, DbFails, Crash, Serve, content
  <2>3. ~GhostEnds
      BY DEF GhostEnds, content
  <2>4. ASSUME NEW k \in Loaders, Loader(k) PROVE rows = {} /\ marker = Free
      BY <2>4 DEF Loader, LoaderInspect, LoaderInit, LoaderCheck, LoaderLoad, Loadable, content
  <2> QED
      BY <2>2, <2>3, <2>4 DEF Next
<1> QED
    BY <1>1, MigrationsInvariant, PTL DEF Spec, LoadedAlone

\* Processes that start at once do not make each other fail.
THEOREM StartsDoNotCollide == Spec => StartsTogether
<1>1. IInv /\ [Next]_vars
      => [\A p \in Processes :
             pc[p] \in Inside \ {"unlock"} /\ pc'[p] = "unlock" /\ ~ok'[p]
             => faults' # faults \/ Unfit(p)]_vars
  <2> SUFFICES ASSUME IInv, Next, NEW p \in Processes, pc[p] \in Inside \ {"unlock"},
                      pc'[p] = "unlock", ~ok'[p], ~Unfit(p), UNCHANGED faults
               PROVE  FALSE
      OBVIOUS
  <2>1. /\ hasHistory \/ ~foreign
        /\ pc[p] = "create" => ~hasHistory
        /\ recorded = tables /\ Known(p)
      BY DEF Unfit
  <2>2. ASSUME Step(p) PROVE FALSE
    <3>1. CASE Inspect(p)
        BY <2>1, <3>1 DEF Inspect, Goto, Fail, NoTables, IInv, TypeOK, Found
    <3>2. CASE CreateHistory(p)
        BY <2>1, <3>2 DEF CreateHistory, Goto, IInv, TypeOK
    <3>3. CASE ReadHistory(p)
        BY <2>1, <3>3 DEF ReadHistory, Goto, IInv, TypeOK
    <3>4. CASE Apply(p)
      <4>1. PICK v \in 1..release[p] : IsNext(p, v) /\ ~Runnable(v)
          BY <3>4 DEF Apply, IInv, TypeOK
      <4>2. applied[p] = recorded
          BY <3>4 DEF Apply, IInv, Found
      <4>3. \A u \in 1..(v - 1) : u \in 1..release[p] /\ ~(v <= u)
          BY DEF IInv, TypeOK
      <4>4. 1..(v - 1) \subseteq tables
          BY <2>1, <4>1, <4>2, <4>3 DEF IsNext
      <4> QED
          BY <2>1, <4>1, <4>2, <4>4 DEF IsNext, Runnable
    <3>5. CASE Validate(p)
        BY <2>1, <3>5 DEF Validate, Valid, Known, IInv, TypeOK, Found
    <3> QED
        BY <2>2, <3>1, <3>2, <3>3, <3>4, <3>5
           DEF Step, Lock, LockTimeout, ApplyDone, Unlock, Ready, Goto, Inside, IInv, TypeOK
  <2>3. ASSUME Boot(p) \/ DbFails(p) \/ Crash(p) \/ Serve(p) PROVE FALSE
      BY <2>3 DEF Boot, DbFails, Crash, Serve, Goto, process, IInv, TypeOK
  <2>4. ASSUME NEW q \in Processes, q # p,
               Step(q) \/ Boot(q) \/ DbFails(q) \/ Crash(q) \/ Serve(q)
        PROVE  FALSE
      BY <2>4, ForeignSteps
  <2>5. ASSUME GhostEnds \/ \E l \in Loaders : Loader(l) PROVE FALSE
      BY <2>5 DEF GhostEnds, process, Loader, LoaderInspect, LoaderInit, LoaderCheck,
                  LoaderLoad
  <2> QED
      BY <2>2, <2>3, <2>4, <2>5 DEF Next
<1> QED
    BY <1>1, MigrationsInvariant, PTL DEF Spec, StartsTogether

-----------------------------------------------------------------------------
(***************************************************************************)
(* From the start of run to the exit.                                      *)
(***************************************************************************)
\* Serve is closed only because Shutdown was called, and its result is its own.
ServeInv ==
    /\ closing => main \in {"shutdown", "collect"} \cup Returned
    /\ main \in {"shutdown", "collect"} => closing
    /\ serve = "closed" => closing
    /\ serveResult \in {"none", serve}
    /\ main \in Startup \cup {"listen"} => serve = "none"

\* Shutdown returns when it has drained the server, and a clean return is one
\* of a drained server that was closed.
DrainInv ==
    /\ main = "collect" => Drained
    /\ main \in Returned /\ ~failed => Drained /\ serve = "closed"
    /\ main \notin Returned => ~failed
    /\ \A r \in Requests : conn[r] = "cut" => main \in Returned /\ failed
    /\ \A r \in Requests : handler[r] = "running" => conn[r] \in {"active", "timedOut", "gone",
      "cut"}

\* The workers have stopped, or never began, before the database is closed.
WorkerInv ==
    /\ main \in Startup \ {"web"} => photos = "none"
    /\ photos = "none" => \A w \in Workers : worker[w] = "none"
    /\ main = "closeDatabase" \/ database = "closed" =>
           \A w \in Workers : worker[w] \in {"none", "stopped"}
    /\ database = "closed" => main = "exited"

Inv == LifeTypeOK /\ ServeInv /\ DrainInv /\ WorkerInv

LEMMA InitInv == LifeInit => Inv
  BY DEF LifeInit, Inv, LifeTypeOK, ServeInv, DrainInv, WorkerInv, Drained, IsOpen,
         Startup, InRun,
         Unwinding, Returned

\* Most steps of main only move it, and may set failed.
LEMMA MainMoves ==
    ASSUME LifeTypeOK,
           main' \in Startup \cup InRun \cup Unwinding \cup {"exited"},
           failed' \in BOOLEAN,
           UNCHANGED <<ctxDone, server, clients, photos, worker, database>>
    PROVE  LifeTypeOK'
  BY DEF LifeTypeOK, server, clients

LEMMA StartupKeepsInv ==
    ASSUME Inv, Open \/ Prepare \/ StartPhotos \/ NewHandler \/ Listen
    PROVE  Inv'
<1> USE DEF Inv, FailTo, Startup, InRun, Unwinding, Returned, server,
            clients
<1>1. LifeTypeOK'
  <2>1. CASE Open
    <3>1. main' \in {"migrate", "exited"} /\ UNCHANGED <<ctxDone, server, clients,
      photos, worker>>
      BY <2>1 DEF Open
    <3>2. failed' \in BOOLEAN /\ database' \in {"none", "open", "closed"}
      BY <2>1 DEF LifeTypeOK, Open
    <3> QED BY <3>1, <3>2 DEF LifeTypeOK
  <2>2. CASE Prepare
    <3>1. main' \in {"ready", "photos", "closeDatabase"}
      BY <2>2 DEF Prepare
    <3>2. failed' \in BOOLEAN
      BY <2>2 DEF LifeTypeOK, Prepare
    <3>3. UNCHANGED <<ctxDone, server, clients, photos, worker, database>>
      BY <2>2 DEF Prepare
    <3> QED BY <3>1, <3>2, <3>3, MainMoves
  <2>3. CASE StartPhotos
    <3>1. /\ main' \in {"web", "closeDatabase"} /\ failed' \in BOOLEAN
          /\ photos' \in {"none", "started", "cancelled"}
          /\ worker' \in [Workers -> {"none", "idle", "busy", "stopped"}]
      <4>1. CASE photos' = "started" /\ worker' = [w \in Workers |-> "idle"] /\ main' = "web"
        BY <2>3, <4>1 DEF LifeTypeOK, StartPhotos
      <4>2. CASE UNCHANGED <<photos, worker>> /\ main' = "closeDatabase" /\ failed' = TRUE
        BY <2>3, <4>2 DEF LifeTypeOK
      <4> QED BY <2>3, <4>1, <4>2 DEF StartPhotos
    <3> QED BY <2>3, <3>1 DEF LifeTypeOK, StartPhotos
  <2>4. CASE NewHandler
    <3>1. main' \in {"listen", "closePhotos"}
      BY <2>4 DEF NewHandler
    <3>2. failed' \in BOOLEAN
      BY <2>4 DEF LifeTypeOK, NewHandler
    <3>3. UNCHANGED <<ctxDone, server, clients, photos, worker, database>>
      BY <2>4 DEF NewHandler
    <3> QED BY <3>1, <3>2, <3>3, MainMoves
  <2>5. CASE Listen
    <3>1. main' \in {"select", "stop"}
      BY <2>5 DEF Listen
    <3>2. failed' \in BOOLEAN /\ serve' \in {"none", "starting", "accepting", "closed", "error"}
      BY <2>5 DEF LifeTypeOK, Listen
    <3>3. UNCHANGED <<ctxDone, serveResult, closing, clients, photos, worker, database>>
      BY <2>5 DEF Listen
    <3> QED BY <3>1, <3>2, <3>3 DEF LifeTypeOK
  <2> QED BY <2>1, <2>2, <2>3, <2>4, <2>5
<1>2. ServeInv'
  BY DEF LifeTypeOK, ServeInv, Open, Prepare, StartPhotos, NewHandler,
         Listen
<1>3. DrainInv'
  BY DEF LifeTypeOK, DrainInv, Drained, IsOpen, Open, Prepare,
         StartPhotos, NewHandler, Listen
<1>4. WorkerInv'
  <2>1. CASE Open
    BY <2>1 DEF LifeTypeOK, WorkerInv, Open
  <2>2. CASE Prepare
    BY <2>2 DEF LifeTypeOK, WorkerInv, Prepare
  <2>3. CASE StartPhotos
    BY <2>3 DEF LifeTypeOK, WorkerInv, StartPhotos
  <2>4. CASE NewHandler \/ Listen
    BY <2>4 DEF LifeTypeOK, WorkerInv, NewHandler, Listen
  <2> QED BY <2>1, <2>2, <2>3, <2>4
<1> QED BY <1>1, <1>2, <1>3, <1>4

LEMMA RunKeepsInv ==
    ASSUME Inv,
      ServeEndedFirst \/ BeginShutdown \/ ShutdownReturns \/ ShutdownTimesOut \/ Collect
    PROVE  Inv'
<1> USE DEF Inv, FailTo, Startup, InRun, Unwinding, Returned, server,
            clients
<1>1. LifeTypeOK'
  <2>1. CASE ServeEndedFirst
    BY <2>1 DEF LifeTypeOK, ServeEndedFirst
  <2>2. CASE BeginShutdown
    BY <2>2 DEF LifeTypeOK, BeginShutdown
  <2>3. CASE ShutdownReturns
    BY <2>3 DEF LifeTypeOK, ShutdownReturns
  <2>4. CASE ShutdownTimesOut
    BY <2>4 DEF LifeTypeOK, ShutdownTimesOut
  <2>5. CASE Collect
    BY <2>5 DEF LifeTypeOK, Collect
  <2> QED BY <2>1, <2>2, <2>3, <2>4, <2>5
<1>2. ServeInv'
  BY DEF LifeTypeOK, ServeInv, ServeEndedFirst, BeginShutdown, ShutdownReturns,
         ShutdownTimesOut, Collect
<1>3. DrainInv'
  <2>1. CASE ServeEndedFirst
    BY <2>1 DEF LifeTypeOK, ServeInv, DrainInv, Drained, IsOpen, ServeEndedFirst
  <2>2. CASE BeginShutdown \/ ShutdownReturns
    BY <2>2 DEF LifeTypeOK, DrainInv, Drained, IsOpen, BeginShutdown,
                ShutdownReturns
  <2>3. CASE ShutdownTimesOut
    BY <2>3 DEF LifeTypeOK, DrainInv, Drained, IsOpen, ShutdownTimesOut
  <2>4. CASE Collect
    BY <2>4 DEF LifeTypeOK, ServeInv, DrainInv, Drained, IsOpen, Collect
  <2> QED BY <2>1, <2>2, <2>3, <2>4
<1>4. WorkerInv'
  BY DEF LifeTypeOK, WorkerInv, ServeEndedFirst, BeginShutdown, ShutdownReturns,
         ShutdownTimesOut, Collect
<1> QED BY <1>1, <1>2, <1>3, <1>4

LEMMA DefersKeepInv ==
    ASSUME Inv, Stop \/ ClosePhotos \/ WaitWorkers \/ CloseDatabase
    PROVE  Inv'
<1> USE DEF Inv, Startup, InRun, Unwinding, Returned, server, clients
<1>1. LifeTypeOK'
  <2>1. CASE Stop
    BY <2>1 DEF LifeTypeOK, Stop
  <2>2. CASE ClosePhotos
    BY <2>2 DEF LifeTypeOK, ClosePhotos
  <2>3. CASE WaitWorkers
    BY <2>3 DEF LifeTypeOK, WaitWorkers
  <2>4. CASE CloseDatabase
    BY <2>4 DEF LifeTypeOK, CloseDatabase
  <2> QED BY <2>1, <2>2, <2>3, <2>4
<1>2. ServeInv'
  BY DEF LifeTypeOK, ServeInv, Stop, ClosePhotos, WaitWorkers, CloseDatabase
<1>3. DrainInv'
  BY DEF LifeTypeOK, DrainInv, Drained, IsOpen, Stop, ClosePhotos,
         WaitWorkers, CloseDatabase
<1>4. WorkerInv'
  BY DEF LifeTypeOK, WorkerInv, Stop, ClosePhotos, WaitWorkers, CloseDatabase
<1> QED BY <1>1, <1>2, <1>3, <1>4

LEMMA HTTPKeepsInv ==
    ASSUME Inv, HTTP
    PROVE  Inv'
<1> USE DEF Inv, HTTP, Startup, InRun, Unwinding, Returned
<1>1. CASE Serving \/ ServeFails
  BY <1>1 DEF LifeTypeOK, ServeInv, DrainInv, WorkerInv, Drained, IsOpen, clients,
              Serving, ServeBegins, ServeReturns, SendResult, ServeFails
<1>2. ASSUME NEW r \in Requests,
             Accept(r) \/ ReadRequest(r) \/ Reply(r) \/ GiveUp(r) \/ EndLate(r)
      PROVE  Inv'
  <2>1. LifeTypeOK' /\ ServeInv' /\ WorkerInv'
    BY <1>2 DEF LifeTypeOK, ServeInv, WorkerInv, Accept, ReadRequest, Reply,
                GiveUp, EndLate
  <2>2. DrainInv'
    <3>1. CASE Accept(r)
      BY <3>1 DEF LifeTypeOK, ServeInv, DrainInv, Drained, IsOpen, Accept
    <3>2. CASE ReadRequest(r)
      BY <3>2 DEF LifeTypeOK, DrainInv, Drained, IsOpen, ReadRequest
    <3>3. CASE Reply(r)
      BY <3>3 DEF LifeTypeOK, DrainInv, Drained, IsOpen, Reply
    <3>4. CASE GiveUp(r) \/ EndLate(r)
      BY <3>4 DEF LifeTypeOK, DrainInv, Drained, IsOpen, GiveUp, EndLate
    <3> QED BY <1>2, <3>1, <3>2, <3>3, <3>4
  <2> QED BY <2>1, <2>2
<1> QED BY <1>1, <1>2 DEF Clients

LEMMA OthersKeepInv ==
    ASSUME Inv, WorkerStep \/ Signal \/ UNCHANGED lifevars
    PROVE  Inv'
<1> USE DEF Inv, Startup, InRun, Unwinding, Returned, server, clients
<1>1. CASE WorkerStep
  BY <1>1 DEF LifeTypeOK, ServeInv, DrainInv, WorkerInv, Drained, IsOpen,
              WorkerStep, Take, GoOn
<1>2. CASE Signal
  <2>1. UNCHANGED <<server, clients, photos, worker, database>> /\ main # "exited"
    BY <1>2 DEF Signal
  <2>2. CASE ctxDone' = TRUE /\ UNCHANGED <<main, failed>>
    BY <2>1, <2>2 DEF LifeTypeOK, ServeInv, DrainInv, WorkerInv, Drained, IsOpen
  <2>3. CASE main \notin InRun /\ main' = "exited" /\ failed' = TRUE /\ UNCHANGED ctxDone
    <3>1. LifeTypeOK'
      BY <2>1, <2>3, MainMoves
    <3>2. ServeInv'
      BY <2>1, <2>3 DEF ServeInv
    <3>3. DrainInv'
      BY <2>1, <2>3 DEF DrainInv
    <3>4. WorkerInv'
      BY <2>1, <2>3 DEF WorkerInv
    <3> QED BY <3>1, <3>2, <3>3, <3>4
  <2> QED BY <1>2, <2>2, <2>3 DEF Signal, FailTo
<1>3. CASE UNCHANGED lifevars
  BY <1>3 DEF LifeTypeOK, ServeInv, DrainInv, WorkerInv, Drained, IsOpen, lifevars
<1> QED BY <1>1, <1>2, <1>3

LEMMA NextInv == Inv /\ [LifeNext]_lifevars => Inv'
  BY StartupKeepsInv, RunKeepsInv, DefersKeepInv, HTTPKeepsInv, OthersKeepInv DEF LifeNext, MainStep

LEMMA InvIsInvariant == LifeSpec => []Inv
  BY InitInv, NextInv, PTL DEF LifeSpec

\* Every goroutine, connection and resource is where the code can have it.
THEOREM LifeTypeCorrect == LifeSpec => []LifeTypeOK
<1>1. Inv => LifeTypeOK
  BY DEF Inv
<1> QED BY <1>1, InvIsInvariant, PTL

\* However many requests are open when the signal comes, a return without an
\* error has left none of them without an answer.
THEOREM CleanReturnDrains == LifeSpec => []NothingCutByCleanReturn
<1>1. Inv => NothingCutByCleanReturn
  BY DEF Inv, DrainInv, Drained, NothingCutByCleanReturn
<1> QED BY <1>1, InvIsInvariant, PTL

\* In whatever order the failure of the server and the signal are seen.
THEOREM ServeFailureIsReported == LifeSpec => []ServeFailureReported
<1>1. Inv => ServeFailureReported
  BY DEF Inv, DrainInv, ServeFailureReported
<1> QED BY <1>1, InvIsInvariant, PTL

\* Whichever step of the start or of Run has failed.
THEOREM DatabaseIsClosedLast == LifeSpec => []DatabaseClosedLast
<1>1. Inv => DatabaseClosedLast
  BY DEF Inv, DrainInv, WorkerInv, Drained, IsOpen, Returned, DatabaseClosedLast
<1> QED BY <1>1, InvIsInvariant, PTL
=============================================================================
