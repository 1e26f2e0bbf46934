------------------------------- MODULE Catalog -------------------------------
(***************************************************************************)
(* The item types of one production: how CreateProduction seeds them       *)
(* (internal/web/actors.go), and how the item types page                   *)
(* (internal/web/item_types.go) and a bulk import change them.             *)
(*                                                                         *)
(* Handlers look for a duplicate in a list that includes archived types,   *)
(* and write later; the database has a unique index over the types that    *)
(* are not archived.  A name stands for all its spellings: both compare    *)
(* without case.                                                           *)
(***************************************************************************)
EXTENDS Integers, Sequences

CONSTANTS
    Requests,     \* request goroutines
    Names,        \* names of item types, in the order of the default list
    Defaults,     \* DefaultItemTypeNames
    MaxTypes,     \* bound: types that are ever created
    MaxEdits,     \* bound: requests to the page, and imports
    MaxFaults     \* bound: failing statements

NoName == 0

ASSUME CatalogAssumption ==
    /\ Names \subseteq Nat \ {NoName} /\ Defaults \subseteq Names
    /\ MaxTypes \in Nat /\ MaxEdits \in Nat /\ MaxFaults \in Nat

VARIABLES
    exists,       \* whether the production has been created
    types,        \* its item types, by id
    \* the requests
    pc,
    target,       \* id of the type that is changed
    name,         \* the name that was entered
    seen,         \* names that seeding need not create
    \* history
    seeded,       \* whether CreateProduction answered without an error
    ever,         \* names that types have had
    alone,        \* whether no request has ever met another, and no list failed
    \* bounds
    edits, faults

request == <<pc, target, name, seen>>
history == <<seeded, ever, alone>>
vars == <<exists, types, request, history, edits, faults>>

Type == [name : Names, archived : BOOLEAN]
Pcs  == {"idle", "list", "seed", "insert", "rename", "restore"}
Ids  == 1..Len(types)

\* No production yet.
Init ==
    /\ exists = FALSE /\ types = <<>>
    /\ pc = [r \in Requests |-> "idle"]
    /\ target = [r \in Requests |-> 0]
    /\ name = [r \in Requests |-> NoName]
    /\ seen = [r \in Requests |-> {}]
    /\ seeded = FALSE
    /\ ever = {}
    /\ alone = TRUE
    /\ edits = 0 /\ faults = 0

Goto(r, to) == pc' = [pc EXCEPT ![r] = to]

\* The request is answered.
Finish(r) == /\ Goto(r, "idle")
             /\ target' = [target EXCEPT ![r] = 0]
             /\ name' = [name EXCEPT ![r] = NoName]
             /\ seen' = [seen EXCEPT ![r] = {}]

\* Another request is in progress.
Busy(r) == \E s \in Requests \ {r} : pc[s] # "idle"

Meet(r) == alone' = (alone /\ ~Busy(r))

\* idx_item_types_active_name.
Free(n, id) == \A i \in Ids \ {id} : types[i].archived \/ types[i].name # n

\* The transaction of itemTypeRepository.Create; the index refuses it if not.
Insert(n) == /\ Free(n, 0) /\ Len(types) < MaxTypes
             /\ types' = Append(types, [name |-> n, archived |-> FALSE])
             /\ ever' = ever \union {n}

\* itemTypeRepository.Update.  The index does not hold archived types.
RenameFits(i, n) == types[i].archived \/ Free(n, i)

Rename(i, n) == /\ RenameFits(i, n)
                /\ types' = [types EXCEPT ![i].name = n]
                /\ ever' = ever \union {n}

\* itemTypeRepository.Restore.
Restore(i) == /\ Free(types[i].name, i)
              /\ types' = [types EXCEPT ![i].archived = FALSE]
              /\ UNCHANGED ever

-----------------------------------------------------------------------------
(* A new production.                                                       *)

\* CreateProduction: everybody sees the production as soon as it is inserted.
\* A second one of the same name is refused.
CreateProduction(r) ==
    /\ pc[r] = "idle" /\ ~exists
    /\ exists' = TRUE
    /\ Goto(r, "list")
    /\ UNCHANGED <<types, target, name, seen, history, edits, faults>>

\* seedDefaultItemTypes lists what there is.
SeedList(r) ==
    /\ pc[r] = "list"
    /\ seen' = [seen EXCEPT ![r] = {types[i].name : i \in Ids}]
    /\ Goto(r, "seed")
    /\ UNCHANGED <<exists, types, target, name, history, edits, faults>>

\* The next name of the default list.
IsNext(r, n) == n \in Defaults \ seen[r] /\ \A d \in Defaults \ seen[r] : n <= d

\* Seeded bug: an error of Create is dropped.
SeedNextAnyway(r) ==
    /\ pc[r] = "seed" /\ Len(types) < MaxTypes
    /\ \E n \in Defaults : IsNext(r, n) /\
          /\ seen' = [seen EXCEPT ![r] = @ \union {n}]
          /\ \/ Insert(n) /\ UNCHANGED faults
             \/ faults < MaxFaults /\ faults' = faults + 1 /\ UNCHANGED <<types, ever>>
    /\ UNCHANGED <<exists, pc, target, name, seeded, alone, edits>>

\* One transaction for each name; the first error ends the request.
SeedNext(r) ==
    /\ pc[r] = "seed" /\ Len(types) < MaxTypes
    /\ \E n \in Defaults : IsNext(r, n) /\
          \/ /\ Insert(n)
             /\ seen' = [seen EXCEPT ![r] = @ \union {n}]
             /\ UNCHANGED <<pc, target, name>>
          \/ ~Free(n, 0) /\ Finish(r) /\ UNCHANGED <<types, ever>>
    /\ UNCHANGED <<exists, seeded, alone, edits, faults>>

SeedDone(r) ==
    /\ pc[r] = "seed" /\ Defaults \subseteq seen[r]
    /\ seeded' = TRUE
    /\ Finish(r)
    /\ UNCHANGED <<exists, types, ever, alone, edits, faults>>

-----------------------------------------------------------------------------
(* The item types page.                                                    *)

Edit(r) == pc[r] = "idle" /\ exists /\ edits < MaxEdits /\ edits' = edits + 1

\* Seeded bug: the list has only active types.
DuplicateActive(n, id) == \E i \in Ids \ {id} : types[i].name = n /\ ~types[i].archived

\* hasDuplicate: archived types count, too.
Duplicate(n, id) == \E i \in Ids \ {id} : types[i].name = n

\* The check of a form for n, which replaces the name of id (0: a new type).
\* hasDuplicate takes a list that fails for an empty one.
Check(r, n, id, to) ==
    /\ \/ ~Duplicate(n, id) /\ UNCHANGED faults /\ Meet(r)
       \/ faults < MaxFaults /\ faults' = faults + 1 /\ alone' = FALSE
    /\ name' = [name EXCEPT ![r] = n]
    /\ target' = [target EXCEPT ![r] = id]
    /\ Goto(r, to)
    /\ UNCHANGED <<exists, types, seen, seeded, ever>>

\* CreateItemType up to Create, and Create.
SubmitCreate(r) == Edit(r) /\ \E n \in Names : Check(r, n, 0, "insert")

CreateItemType(r) ==
    /\ pc[r] = "insert" /\ Len(types) < MaxTypes
    /\ \/ Insert(name[r])
       \/ ~Free(name[r], 0) /\ UNCHANGED <<types, ever>>
    /\ Finish(r)
    /\ UNCHANGED <<exists, seeded, alone, edits, faults>>

\* RenameItemType up to Update, and Update.
SubmitRename(r) == Edit(r) /\ \E n \in Names, i \in Ids : Check(r, n, i, "rename")

RenameItemType(r) ==
    /\ pc[r] = "rename"
    /\ \/ Rename(target[r], name[r])
       \/ ~RenameFits(target[r], name[r]) /\ UNCHANGED <<types, ever>>
    /\ Finish(r)
    /\ UNCHANGED <<exists, seeded, alone, edits, faults>>

\* ArchiveItemType: what it reads first does not matter.
ArchiveItemType(r) ==
    /\ Edit(r) /\ Meet(r)
    /\ \E i \in Ids : types' = [types EXCEPT ![i].archived = TRUE]
    /\ UNCHANGED <<exists, request, seeded, ever, faults>>

\* RestoreItemType up to Restore, and Restore: no look at other names.
SubmitRestore(r) ==
    /\ Edit(r) /\ Meet(r)
    /\ \E i \in Ids : types[i].archived /\ target' = [target EXCEPT ![r] = i]
    /\ Goto(r, "restore")
    /\ UNCHANGED <<exists, types, name, seen, seeded, ever, faults>>

RestoreItemType(r) ==
    /\ pc[r] = "restore"
    /\ \/ Restore(target[r])
       \/ ~Free(types[target[r]].name, target[r]) /\ UNCHANGED <<types, ever>>
    /\ Finish(r)
    /\ UNCHANGED <<exists, seeded, alone, edits, faults>>

\* A bulk import creates a type that it does not find among the active ones.
ImportType(r) ==
    /\ Edit(r) /\ alone' = FALSE
    /\ \E n \in Names : Insert(n)
    /\ UNCHANGED <<exists, request, seeded, faults>>

-----------------------------------------------------------------------------

\* What r has sent as its connection breaks may still take effect.
InFlight(r) ==
    \/ pc[r] = "seed" /\ \E n \in Defaults : IsNext(r, n) /\ Insert(n)
    \/ pc[r] = "insert" /\ Insert(name[r])
    \/ pc[r] = "rename" /\ Rename(target[r], name[r])
    \/ pc[r] = "restore" /\ Restore(target[r])
    \/ UNCHANGED <<types, ever>>

\* A statement fails, the request times out or the process dies.
DbFails(r) ==
    /\ pc[r] # "idle"
    /\ faults < MaxFaults /\ faults' = faults + 1
    /\ InFlight(r)
    /\ Finish(r)
    /\ UNCHANGED <<exists, seeded, alone, edits>>

Seed(r) == CreateProduction(r) \/ SeedList(r) \/ SeedNext(r) \/ SeedDone(r)
Page(r) == \/ SubmitCreate(r) \/ CreateItemType(r) \/ SubmitRename(r) \/ RenameItemType(r)
           \/ ArchiveItemType(r) \/ SubmitRestore(r) \/ RestoreItemType(r)

Next == \E r \in Requests : Seed(r) \/ Page(r) \/ ImportType(r) \/ DbFails(r)

Spec == Init /\ [][Next]_vars
-----------------------------------------------------------------------------
(* Properties.                                                             *)

\* Each variable has its type, and a request changes a type that there is.
TypeOK ==
    /\ exists \in BOOLEAN /\ seeded \in BOOLEAN /\ alone \in BOOLEAN
    /\ types \in Seq(Type) /\ ever \subseteq Names
    /\ pc \in [Requests -> Pcs]
    /\ target \in [Requests -> Nat] /\ name \in [Requests -> Names \union {NoName}]
    /\ seen \in [Requests -> SUBSET Names]
    /\ edits \in Nat /\ faults \in Nat
    /\ \A r \in Requests : /\ pc[r] \in {"insert", "rename"} => name[r] # NoName
                           /\ pc[r] \in {"rename", "restore"} => target[r] \in Ids

\* Two types that are not archived have different names, although handlers
\* look for duplicates long before they write: bulk import and the reports
\* find a type by its name.
LiveNamesUnique ==
    \A i, j \in Ids : /\ types[i].name = types[j].name
                      /\ ~types[i].archived /\ ~types[j].archived
                      => i = j

\* "CreateItemType creates one trimmed, case-insensitively unique type", also
\* beside archived ones: the page's check sees to that as long as requests do
\* not meet, lists do not fail and nothing is imported.
NamesUniqueWhenAlone ==
    alone => \A i, j \in Ids : types[i].name = types[j].name => i = j

\* A production whose creation was answered without an error has had all of
\* the default types, whatever others did to them meanwhile.
SeededWhenAnswered == seeded => Defaults \subseteq ever
=============================================================================
