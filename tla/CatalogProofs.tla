---------------------------- MODULE CatalogProofs ----------------------------
(***************************************************************************)
(* Theorems about Catalog, for any number of requests, names and types.    *)
(***************************************************************************)
EXTENDS Catalog, SequenceTheorems, TLAPS

AllNamesUnique == \A i, j \in Ids : types[i].name = types[j].name => i = j

\* What only depends on the types.
TypesInv == /\ types \in Seq(Type) /\ ever \subseteq Names
            /\ LiveNamesUnique
            /\ \A i \in Ids : types[i].name \in ever

\* Without a production nothing has happened.
ExistInv == ~exists => types = <<>> /\ \A r \in Requests : pc[r] = "idle"

\* What has been seen or created is there, or was.
SeedInv == /\ \A r \in Requests : pc[r] = "seed" => seen[r] \subseteq ever
           /\ SeededWhenAnswered

\* What a request that is alone has found out still holds.
Informed(r) ==
    /\ pc[r] = "seed" => \A i \in Ids : types[i].name \in seen[r]
    /\ pc[r] = "insert" => ~Duplicate(name[r], 0)
    /\ pc[r] = "rename" => ~Duplicate(name[r], target[r])

AloneInv == alone => /\ \A r, s \in Requests : pc[r] = "idle" \/ pc[s] = "idle" \/ r = s
                     /\ AllNamesUnique
                     /\ \A r \in Requests : Informed(r)

IInv == TypeOK /\ TypesInv /\ ExistInv /\ SeedInv /\ AloneInv

-----------------------------------------------------------------------------
(* What the statements do to the types.                                    *)

LEMMA InsertKeeps ==
    ASSUME TypesInv, NEW n \in Names, Insert(n)
    PROVE  /\ TypesInv' /\ ever \subseteq ever' /\ n \in ever'
           /\ Ids \subseteq Ids'
           /\ \A i \in Ids' : (i \in Ids /\ types'[i] = types[i]) \/ types'[i].name = n
           /\ Len(types) <= Len(types')
           /\ AllNamesUnique /\ ~Duplicate(n, 0) => AllNamesUnique'
<1> DEFINE t == [name |-> n, archived |-> FALSE]
<1>1. t \in Type /\ t.name = n
  BY DEF Type
<1>2. /\ types' \in Seq(Type) /\ Ids' = Ids \union {Len(types) + 1}
      /\ Len(types) \in Nat /\ Len(types') = Len(types) + 1
      /\ \A i \in Ids : types'[i] = types[i]
      /\ types'[Len(types) + 1] = t
  <2> HIDE DEF t
  <2>1. types' = Append(types, t)
    BY DEF Insert, t
  <2> QED BY <1>1, <2>1 DEF TypesInv, Ids
<1>3. ever' = ever \union {n}
  BY DEF Insert
<1>4. LiveNamesUnique'
  <2>1. \A i \in Ids : types[i].archived \/ types[i].name # n
    BY DEF Insert, Free, Ids
  <2> SUFFICES ASSUME NEW i \in Ids', NEW j \in Ids', types'[i].name = types'[j].name,
                      ~types'[i].archived, ~types'[j].archived
               PROVE  i = j
    BY DEF LiveNamesUnique
  <2> HIDE DEF t
  <2>2. \A k \in Ids : k # Len(types) + 1
    BY <1>2 DEF TypesInv, Ids
  <2>3. CASE i \in Ids /\ j \in Ids
    BY <1>2, <2>3 DEF TypesInv, LiveNamesUnique
  <2>4. CASE i \notin Ids \/ j \notin Ids
    BY <1>1, <1>2, <2>1, <2>2, <2>4
  <2> QED BY <2>3, <2>4
<1>5. TypesInv'
  BY <1>1, <1>2, <1>3, <1>4 DEF TypesInv
<1>6. ASSUME AllNamesUnique, ~Duplicate(n, 0) PROVE AllNamesUnique'
  <2>1. \A i \in Ids : types[i].name # n
    BY <1>6 DEF Duplicate, Ids
  <2> QED BY <1>1, <1>2, <1>6, <2>1 DEF AllNamesUnique
<1> QED BY <1>1, <1>2, <1>3, <1>5, <1>6

\* One type is replaced.
LEMMA ReplaceKeeps ==
    ASSUME TypesInv, NEW k \in Ids, NEW t \in Type, types' = [types EXCEPT ![k] = t]
    PROVE  /\ types' \in Seq(Type) /\ Ids' = Ids /\ Len(types') = Len(types)
           /\ types'[k] = t /\ \A i \in Ids \ {k} : types'[i] = types[i]
  BY ExceptSeq DEF TypesInv, Ids

LEMMA RenameKeeps ==
    ASSUME TypesInv, NEW n \in Names, NEW k \in Ids, Rename(k, n)
    PROVE  /\ TypesInv' /\ ever \subseteq ever' /\ Ids' = Ids /\ Len(types') = Len(types)
           /\ AllNamesUnique /\ ~Duplicate(n, k) => AllNamesUnique'
<1>1. /\ types' \in Seq(Type) /\ Ids' = Ids /\ Len(types') = Len(types)
      /\ \A i \in Ids \ {k} : types'[i] = types[i]
      /\ types'[k].name = n /\ types'[k].archived = types[k].archived
  <2> DEFINE t == [types[k] EXCEPT !.name = n]
  <2>1. types[k] \in Type
    BY DEF TypesInv, Ids
  <2>2. t \in Type /\ t.name = n /\ t.archived = types[k].archived
    BY <2>1 DEF Type
  <2>3. types' = [types EXCEPT ![k] = t]
    BY DEF Rename
  <2> QED BY <2>2, <2>3, ReplaceKeeps
<1>2. ever' = ever \union {n}
  BY DEF Rename
<1>3. LiveNamesUnique'
  <2>1. types[k].archived \/ \A i \in Ids \ {k} : types[i].archived \/ types[i].name # n
    BY DEF Rename, RenameFits, Free
  <2> QED BY <1>1, <2>1 DEF TypesInv, LiveNamesUnique
<1>4. TypesInv'
  BY <1>1, <1>2, <1>3 DEF TypesInv
<1>5. AllNamesUnique /\ ~Duplicate(n, k) => AllNamesUnique'
  BY <1>1 DEF AllNamesUnique, Duplicate
<1> QED BY <1>1, <1>2, <1>4, <1>5

\* Archiving and restoring.
LEMMA MarkKeeps ==
    ASSUME TypesInv, NEW k \in Ids, NEW b \in BOOLEAN,
           types' = [types EXCEPT ![k].archived = b], ever' = ever,
           b \/ Free(types[k].name, k)
    PROVE  /\ TypesInv' /\ Ids' = Ids /\ Len(types') = Len(types)
           /\ \A i \in Ids : types'[i].name = types[i].name
<1>1. /\ types' \in Seq(Type) /\ Ids' = Ids /\ Len(types') = Len(types)
      /\ \A i \in Ids \ {k} : types'[i] = types[i]
      /\ types'[k].name = types[k].name /\ types'[k].archived = b
  <2> DEFINE t == [types[k] EXCEPT !.archived = b]
  <2>1. types[k] \in Type
    BY DEF TypesInv, Ids
  <2>2. t \in Type /\ t.name = types[k].name /\ t.archived = b
    BY <2>1 DEF Type
  <2>3. types' = [types EXCEPT ![k] = t]
    OBVIOUS
  <2> QED BY <2>2, <2>3, ReplaceKeeps
<1>2. LiveNamesUnique'
  BY <1>1 DEF TypesInv, LiveNamesUnique, Free
<1> QED BY <1>1, <1>2 DEF TypesInv

LEMMA RestoreKeeps ==
    ASSUME TypesInv, NEW k \in Ids, Restore(k)
    PROVE  /\ TypesInv' /\ ever' = ever /\ Len(types') = Len(types)
           /\ AllNamesUnique => AllNamesUnique'
<1>1. /\ TypesInv' /\ Ids' = Ids /\ Len(types') = Len(types)
      /\ \A i \in Ids : types'[i].name = types[i].name
  BY MarkKeeps DEF Restore
<1> QED BY <1>1 DEF Restore, AllNamesUnique

LEMMA SameKeeps ==
    ASSUME TypesInv, UNCHANGED <<types, ever>>
    PROVE  /\ TypesInv' /\ ever' = ever /\ Len(types') = Len(types)
           /\ AllNamesUnique => AllNamesUnique'
  BY DEF TypesInv, LiveNamesUnique, Ids, AllNamesUnique

\* The answer to a request, after one of its statements or none.
LEMMA FinishKeeps ==
    ASSUME IInv, NEW r \in Requests, pc[r] # "idle", Finish(r),
           TypesInv', ever \subseteq ever', Len(types) <= Len(types'),
           AllNamesUnique /\ Informed(r) => AllNamesUnique',
           exists' = exists, alone' = alone, edits' = edits,
           faults' = faults \/ faults' = faults + 1,
           seeded' = seeded \/ (seeded' = TRUE /\ Defaults \subseteq ever')
    PROVE  IInv'
<1>1. exists
  BY DEF IInv, ExistInv, Finish, Goto
<1>2. TypeOK'
  <2>1. Ids \subseteq Ids'
    BY DEF IInv, TypesInv, Ids
  <2>2. exists' \in BOOLEAN /\ seeded' \in BOOLEAN /\ alone' \in BOOLEAN
    BY Zenon DEF IInv, TypeOK
  <2>5. edits' \in Nat /\ faults' \in Nat
    <3>1. edits \in Nat /\ faults \in Nat
      BY Zenon DEF IInv, TypeOK
    <3> QED BY <3>1
  <2>3. /\ pc' \in [Requests -> Pcs] /\ target' \in [Requests -> Nat]
        /\ name' \in [Requests -> Names \union {NoName}]
        /\ seen' \in [Requests -> SUBSET Names]
    BY DEF IInv, TypeOK, Pcs, Finish, Goto
  <2>4. \A s \in Requests : /\ pc'[s] \in {"insert", "rename"} => name'[s] # NoName
                            /\ pc'[s] \in {"rename", "restore"} => target'[s] \in Ids'
    BY <2>1 DEF IInv, TypeOK, Finish, Goto
  <2>6. types' \in Seq(Type) /\ ever' \subseteq Names
    BY DEF TypesInv
  <2> QED BY <2>2, <2>3, <2>4, <2>5, <2>6 DEF TypeOK
<1>3. SeedInv'
  BY DEF IInv, Finish, Goto, SeedInv, SeededWhenAnswered, TypeOK, Pcs
<1>4. AloneInv'
  BY DEF IInv, Finish, Goto, AloneInv, Informed, TypeOK, Pcs
<1> QED BY <1>1, <1>2, <1>3, <1>4 DEF IInv, ExistInv

-----------------------------------------------------------------------------

LEMMA InitIInv == Init => IInv
<1> SUFFICES ASSUME Init PROVE IInv
  OBVIOUS
<1>1. TypeOK
  <2>1. types \in Seq(Type)
    BY DEF Init
  <2> QED BY <2>1 DEF Init, TypeOK, Pcs
<1>2. Ids = {}
  BY DEF Init, Ids
<1> QED BY <1>1, <1>2 DEF Init, IInv, TypesInv, ExistInv, SeedInv, AloneInv, Informed,
           AllNamesUnique, LiveNamesUnique, SeededWhenAnswered, TypeOK

\* The answer to a request whose statement, if any, takes effect or not.
LEMMA AnswerKeeps ==
    ASSUME IInv, NEW r \in Requests, pc[r] # "idle", InFlight(r), Finish(r),
           UNCHANGED <<exists, seeded, alone, edits>>,
           faults' = faults \/ faults' = faults + 1
    PROVE  IInv'
<1> DEFINE Kept == /\ TypesInv' /\ ever \subseteq ever' /\ Len(types) <= Len(types')
                   /\ AllNamesUnique /\ Informed(r) => AllNamesUnique'
<1>0. TypesInv /\ Len(types) \in Nat
  BY DEF IInv, TypesInv
<1>t. /\ name \in [Requests -> Names \union {NoName}]
      /\ pc[r] \in {"insert", "rename"} => name[r] # NoName
      /\ pc[r] \in {"rename", "restore"} => target[r] \in Ids
  BY DEF IInv, TypeOK
<1>1. ASSUME NEW n \in Defaults, pc[r] = "seed", IsNext(r, n), Insert(n) PROVE Kept
  <2>1. n \in Names
    BY CatalogAssumption
  <2>2. Informed(r) => ~Duplicate(n, 0)
    BY <1>1 DEF Informed, Duplicate, IsNext
  <2> QED BY <1>0, <1>1, <2>1, <2>2, InsertKeeps
<1>2. ASSUME pc[r] = "insert", Insert(name[r]) PROVE Kept
  <2>1. name[r] \in Names
    BY <1>2, <1>t
  <2>2. Informed(r) => ~Duplicate(name[r], 0)
    BY <1>2 DEF Informed
  <2> QED BY <1>0, <1>2, <2>1, <2>2, InsertKeeps
<1>3. ASSUME pc[r] = "rename", Rename(target[r], name[r]) PROVE Kept
  <2>1. name[r] \in Names /\ target[r] \in Ids
    BY <1>3, <1>t
  <2>2. Informed(r) => ~Duplicate(name[r], target[r])
    BY <1>3 DEF Informed
  <2> QED BY <1>0, <1>3, <2>1, <2>2, RenameKeeps
<1>4. ASSUME pc[r] = "restore", Restore(target[r]) PROVE Kept
  <2>1. target[r] \in Ids
    BY <1>4, <1>t
  <2> QED BY <1>0, <1>4, <2>1, RestoreKeeps
<1>5. ASSUME UNCHANGED <<types, ever>> PROVE Kept
  BY <1>0, <1>5, SameKeeps
<1>6. Kept
  BY <1>1, <1>2, <1>3, <1>4, <1>5 DEF InFlight
<1>7. exists' = exists /\ alone' = alone /\ edits' = edits /\ seeded' = seeded
  OBVIOUS
<1>8. /\ TypesInv' /\ ever \subseteq ever' /\ Len(types) <= Len(types')
      /\ AllNamesUnique /\ Informed(r) => AllNamesUnique'
  BY <1>6
<1> HIDE DEF Kept
<1> QED BY <1>7, <1>8, FinishKeeps, Zenon

LEMMA SeedKeeps == ASSUME IInv, NEW r \in Requests, Seed(r) PROVE IInv'
<1> USE DEF IInv
<1>1. CASE CreateProduction(r)
  <2>1. types = <<>> /\ Ids = {} /\ \A s \in Requests : pc[s] = "idle"
    BY <1>1 DEF CreateProduction, ExistInv, Ids
  <2>2. TypeOK' /\ TypesInv' /\ ExistInv' /\ SeedInv'
    BY <1>1, <2>1 DEF CreateProduction, Goto, TypeOK, Pcs, history, TypesInv, LiveNamesUnique,
       Ids, ExistInv, SeedInv, SeededWhenAnswered
  <2>3. AloneInv'
    BY <1>1, <2>1 DEF CreateProduction, Goto, TypeOK, Pcs, history, AloneInv, Informed,
       AllNamesUnique, Ids
  <2> QED BY <2>2, <2>3
<1>2. CASE SeedList(r)
  <2>1. /\ exists /\ UNCHANGED <<exists, types, target, name, seeded, ever, alone, edits, faults>>
        /\ pc' = [pc EXCEPT ![r] = "seed"]
        /\ seen' = [seen EXCEPT ![r] = {types[i].name : i \in Ids}]
    BY <1>2 DEF SeedList, Goto, history, ExistInv
  <2>2. {types[i].name : i \in Ids} \subseteq ever /\ ever \subseteq Names
    BY DEF TypesInv
  <2>3. TypeOK'
    BY <2>1, <2>2 DEF TypeOK, Pcs, Ids
  <2>4. TypesInv' /\ ExistInv' /\ SeedInv'
    BY <2>1, <2>2 DEF TypeOK, Pcs, TypesInv, LiveNamesUnique, Ids, ExistInv, SeedInv,
       SeededWhenAnswered
  <2>5. AloneInv'
    BY <1>2, <2>1 DEF SeedList, TypeOK, Pcs, AloneInv, Informed, Duplicate, AllNamesUnique, Ids
  <2> QED BY <2>3, <2>4, <2>5
<1>3. CASE SeedNext(r)
  <2>1. PICK n \in Defaults :
           /\ n \notin seen[r]
           /\ \/ /\ Insert(n) /\ seen' = [seen EXCEPT ![r] = @ \union {n}]
                 /\ UNCHANGED <<pc, target, name>>
              \/ Finish(r) /\ UNCHANGED <<types, ever>>
    BY <1>3 DEF SeedNext, IsNext
  <2>2. /\ exists /\ pc[r] = "seed" /\ n \in Names
        /\ UNCHANGED <<exists, seeded, alone, edits, faults>>
    BY <1>3, CatalogAssumption DEF SeedNext, ExistInv
  <2>3. CASE Finish(r) /\ UNCHANGED <<types, ever>>
    BY <2>2, <2>3, AnswerKeeps DEF InFlight
  <2>4. CASE /\ Insert(n) /\ seen' = [seen EXCEPT ![r] = @ \union {n}]
             /\ UNCHANGED <<pc, target, name>>
    <3>1. /\ TypesInv' /\ ever \subseteq ever' /\ n \in ever'
          /\ Ids \subseteq Ids'
          /\ \A i \in Ids' : (i \in Ids /\ types'[i] = types[i]) \/ types'[i].name = n
          /\ AllNamesUnique /\ ~Duplicate(n, 0) => AllNamesUnique'
      BY <2>2, <2>4, InsertKeeps
    <3>2. TypeOK'
      BY <2>2, <2>4, <3>1 DEF TypeOK, TypesInv
    <3>3. ExistInv' /\ SeedInv'
      BY <2>2, <2>4, <3>1 DEF ExistInv, SeedInv, SeededWhenAnswered, TypeOK
    <3>4. AloneInv'
      <4> SUFFICES ASSUME alone PROVE AloneInv'
        BY <2>2 DEF AloneInv
      <4>1. ~Duplicate(n, 0)
        BY <2>1, <2>2 DEF AloneInv, Informed, Duplicate
      <4>2. \A s \in Requests \ {r} : pc[s] = "idle"
        BY <2>2 DEF AloneInv
      <4>3. \A i \in Ids' : types'[i].name \in seen'[r]
        BY <2>2, <2>4, <3>1 DEF AloneInv, Informed, TypeOK
      <4> QED BY <2>2, <2>4, <3>1, <4>1, <4>2, <4>3 DEF AloneInv, Informed
    <3> QED BY <3>1, <3>2, <3>3, <3>4
  <2> QED BY <2>1, <2>3, <2>4
<1>4. CASE SeedDone(r)
  <2>1. pc[r] = "seed" /\ Defaults \subseteq ever
    BY <1>4 DEF SeedDone, SeedInv
  <2>2. /\ TypesInv' /\ ever' = ever /\ Len(types') = Len(types) /\ Len(types) \in Nat
        /\ AllNamesUnique => AllNamesUnique'
    BY <1>4, SameKeeps DEF SeedDone, TypesInv
  <2>3. /\ Finish(r) /\ seeded' = TRUE /\ Defaults \subseteq ever'
        /\ exists' = exists /\ alone' = alone /\ edits' = edits /\ faults' = faults
    BY <1>4, <2>1, <2>2 DEF SeedDone
  <2>4. pc[r] # "idle" /\ ever \subseteq ever' /\ Len(types) <= Len(types')
    BY <2>1, <2>2
  <2> QED BY <2>2, <2>3, <2>4, FinishKeeps, Zenon
<1> QED BY <1>1, <1>2, <1>3, <1>4 DEF Seed

\* A request that meets no other is alone.
LEMMA MeetAlone ==
    ASSUME IInv, NEW r \in Requests, Meet(r)
    PROVE  /\ alone' \in BOOLEAN
           /\ alone' => alone /\ \A s \in Requests \ {r} : pc[s] = "idle"
  BY Zenon DEF IInv, TypeOK, Meet, Busy

\* A form that was found free, or could not be checked.
LEMMA CheckKeeps ==
    ASSUME IInv, NEW r \in Requests, Edit(r), NEW n \in Names, NEW k \in Nat,
           NEW to \in {"insert", "rename"}, Check(r, n, k, to),
           to = "insert" => k = 0, to = "rename" => k \in Ids
    PROVE  IInv'
<1> USE DEF IInv
<1>1. /\ exists /\ pc[r] = "idle" /\ edits' = edits + 1
      /\ UNCHANGED <<exists, types, seen, seeded, ever>>
      /\ pc' = [pc EXCEPT ![r] = to]
      /\ name' = [name EXCEPT ![r] = n] /\ target' = [target EXCEPT ![r] = k]
  BY DEF Edit, Check, Goto
<1>2. /\ faults' \in Nat /\ alone' \in BOOLEAN
      /\ alone' => alone /\ ~Duplicate(n, k) /\ \A s \in Requests \ {r} : pc[s] = "idle"
  <2>1. CASE ~Duplicate(n, k) /\ UNCHANGED faults /\ Meet(r)
    BY <2>1, MeetAlone DEF TypeOK
  <2>2. CASE faults' = faults + 1 /\ alone' = FALSE
    <3>1. alone' \in BOOLEAN /\ ~alone'
      BY <2>2
    <3>2. faults' \in Nat
      BY <2>2 DEF TypeOK
    <3> QED BY <3>1, <3>2
  <2> QED BY <2>1, <2>2 DEF Check
<1>3. TypeOK'
  <2>1. n # NoName
    BY CatalogAssumption
  <2> QED BY <1>1, <1>2, <2>1 DEF TypeOK, Pcs, Ids
<1>4. TypesInv' /\ ExistInv' /\ SeedInv'
  BY <1>1 DEF TypesInv, LiveNamesUnique, Ids, ExistInv, SeedInv, SeededWhenAnswered, TypeOK, Pcs
<1>5. AloneInv'
  BY <1>1, <1>2 DEF AloneInv, AllNamesUnique, Informed, Duplicate, Ids, TypeOK, Pcs
<1> QED BY <1>3, <1>4, <1>5

LEMMA PageKeeps == ASSUME IInv, NEW r \in Requests, Page(r) PROVE IInv'
<1>1. CASE SubmitCreate(r)
  BY <1>1, CheckKeeps DEF SubmitCreate
<1>2. CASE CreateItemType(r)
  <2>1. InFlight(r)
    BY <1>2 DEF CreateItemType, InFlight
  <2> QED BY <1>2, <2>1, AnswerKeeps DEF CreateItemType
<1>3. CASE SubmitRename(r)
  BY <1>3, CheckKeeps DEF SubmitRename, Ids
<1>4. CASE RenameItemType(r)
  <2>1. InFlight(r)
    BY <1>4 DEF RenameItemType, InFlight
  <2> QED BY <1>4, <2>1, AnswerKeeps DEF RenameItemType
<1>5. CASE ArchiveItemType(r)
  <2>1. PICK k \in Ids : types' = [types EXCEPT ![k].archived = TRUE]
    BY <1>5 DEF ArchiveItemType
  <2>2. /\ exists /\ pc[r] = "idle" /\ edits' = edits + 1
        /\ UNCHANGED <<exists, pc, target, name, seen, seeded, ever, faults>>
    BY <1>5 DEF ArchiveItemType, Edit, request
  <2>a. alone' \in BOOLEAN /\ (alone' => alone /\ \A s \in Requests \ {r} : pc[s] = "idle")
    BY <1>5, MeetAlone DEF ArchiveItemType
  <2>3. /\ TypesInv' /\ Ids' = Ids
        /\ \A i \in Ids : types'[i].name = types[i].name
    BY <2>1, <2>2, MarkKeeps DEF IInv
  <2> USE DEF IInv
  <2>4. TypeOK' /\ ExistInv' /\ SeedInv'
    BY <2>2, <2>a, <2>3 DEF TypeOK, TypesInv, ExistInv, SeedInv, SeededWhenAnswered
  <2>5. AloneInv'
    BY <2>2, <2>a, <2>3 DEF AloneInv, Informed, AllNamesUnique
  <2> QED BY <2>3, <2>4, <2>5
<1>6. CASE SubmitRestore(r)
  <2>1. PICK k \in Ids : target' = [target EXCEPT ![r] = k]
    BY <1>6 DEF SubmitRestore
  <2>2. /\ exists /\ pc[r] = "idle" /\ edits' = edits + 1
        /\ UNCHANGED <<exists, types, name, seen, seeded, ever, faults>>
        /\ pc' = [pc EXCEPT ![r] = "restore"]
    BY <1>6 DEF SubmitRestore, Edit, Goto
  <2>a. alone' \in BOOLEAN /\ (alone' => alone /\ \A s \in Requests \ {r} : pc[s] = "idle")
    BY <1>6, MeetAlone DEF SubmitRestore
  <2> USE DEF IInv
  <2>3. TypeOK'
    BY <2>1, <2>2, <2>a DEF TypeOK, Pcs, Ids
  <2>4. TypesInv' /\ ExistInv' /\ SeedInv'
    BY <2>2 DEF TypesInv, LiveNamesUnique, Ids, ExistInv, SeedInv, SeededWhenAnswered, TypeOK, Pcs
  <2>5. AloneInv'
    BY <2>2, <2>a DEF AloneInv, Informed, AllNamesUnique, Ids, TypeOK, Pcs
  <2> QED BY <2>3, <2>4, <2>5
<1>7. CASE RestoreItemType(r)
  <2>1. InFlight(r)
    BY <1>7 DEF RestoreItemType, InFlight
  <2> QED BY <1>7, <2>1, AnswerKeeps DEF RestoreItemType
<1> QED BY <1>1, <1>2, <1>3, <1>4, <1>5, <1>6, <1>7 DEF Page

LEMMA ImportKeeps == ASSUME IInv, NEW r \in Requests, ImportType(r) PROVE IInv'
<1> USE DEF IInv
<1>1. PICK n \in Names : Insert(n)
  BY DEF ImportType
<1>2. /\ TypesInv' /\ ever \subseteq ever' /\ Ids \subseteq Ids'
  BY <1>1, InsertKeeps
<1>3. exists /\ ~alone' /\ alone' = FALSE /\ edits' = edits + 1
      /\ UNCHANGED <<exists, pc, target, name, seen, seeded, faults>>
  BY DEF ImportType, Edit, request
<1>4. TypeOK'
  <2>1. alone' \in BOOLEAN
    BY <1>3
  <2>2. edits' \in Nat
    BY <1>3 DEF TypeOK
  <2> QED BY <1>2, <1>3, <2>1, <2>2 DEF TypeOK, TypesInv
<1> QED BY <1>2, <1>3, <1>4 DEF ExistInv, SeedInv, SeededWhenAnswered, AloneInv

LEMMA FailKeeps == ASSUME IInv, NEW r \in Requests, DbFails(r) PROVE IInv'
  BY AnswerKeeps DEF DbFails

\* IInv is an invariant.
THEOREM CatalogInvariant == Spec => []IInv
<1>1. ASSUME IInv, [Next]_vars PROVE IInv'
  <2>1. CASE Next
    BY <1>1, <2>1, SeedKeeps, PageKeeps, ImportKeeps, FailKeeps DEF Next
  <2>2. CASE UNCHANGED vars
    <3> USE <1>1, <2>2 DEF IInv, vars, request, history
    <3>1. TypeOK' /\ TypesInv' /\ ExistInv' /\ SeedInv'
      BY DEF TypeOK, TypesInv, LiveNamesUnique, Ids, ExistInv, SeedInv, SeededWhenAnswered
    <3>2. AloneInv'
      BY DEF AloneInv, AllNamesUnique, Informed, Duplicate, Ids
    <3> QED BY <3>1, <3>2
  <2> QED BY <1>1, <2>1, <2>2
<1> QED BY <1>1, InitIInv, PTL DEF Spec

\* Each variable has its type, and requests change types that there are.
THEOREM CatalogTypeCorrect == Spec => []TypeOK
<1>1. IInv => TypeOK
  BY DEF IInv
<1> QED BY <1>1, CatalogInvariant, PTL

\* No two live types of a production have the same name.
THEOREM LiveTypesAreUnique == Spec => []LiveNamesUnique
<1>1. IInv => LiveNamesUnique
  BY DEF IInv, TypesInv
<1> QED BY <1>1, CatalogInvariant, PTL

\* The page's check keeps names unique beside archived types, too, as long as
\* requests do not meet.
THEOREM AloneTypesAreUnique == Spec => []NamesUniqueWhenAlone
<1>1. IInv => NamesUniqueWhenAlone
  BY DEF IInv, AloneInv, AllNamesUnique, NamesUniqueWhenAlone
<1> QED BY <1>1, CatalogInvariant, PTL

\* A creation that is answered without an error has seeded every default.
THEOREM AnsweredIsSeeded == Spec => []SeededWhenAnswered
<1>1. IInv => SeededWhenAnswered
  BY DEF IInv, SeedInv
<1> QED BY <1>1, CatalogInvariant, PTL
=============================================================================
