------------------------------ MODULE ItemCodes ------------------------------
(***************************************************************************)
(* How the items of one production get their codes: the item form          *)
(* (CreateCostumeItem), pasting (PasteCostumeItems) and bulk import, all   *)
(* through allocateCodeTx, in PostgreSQL transactions that run at the      *)
(* same time (READ COMMITTED).                                             *)
(*                                                                         *)
(* The row locks decide: an import takes the production's row FOR UPDATE;  *)
(* whoever writes the sequence row holds it to its end; the first one      *)
(* inserts it, and its foreign key then locks the production FOR KEY       *)
(* SHARE.  A blocked statement is an action that is not enabled.           *)
(***************************************************************************)
EXTENDS Integers, FiniteSets

CONSTANTS
    Requests,     \* request goroutines
    Nobody,       \* no request
    MaxOld,       \* bound: items at first
    MaxAsked,     \* bound: items that are ever asked for
    MaxFaults     \* bound: transactions that break off

ASSUME CodesAssumption ==
    /\ Nobody \notin Requests
    /\ MaxOld \in Nat /\ MaxAsked \in Nat /\ MaxFaults \in Nat

VARIABLES
    \* the database, as committed
    seq,          \* next_value of the sequence row; 0 if there is none
    items,        \* the items: code and id
    ids,          \* the identity sequence, which no rollback takes back
    \* row locks
    owner,        \* who has an uncommitted version of the sequence row
    exclusive,    \* who holds the production FOR UPDATE
    shared,       \* who holds it FOR KEY SHARE
    copied,       \* items in the browser's cookie
    \* the requests
    pc, kind,
    left,         \* items that are still to be created
    mine,         \* the value in r's version of the sequence row; 0 if none
    rows,         \* what r has inserted and not committed
    \* bounds
    asked, faults

database == <<seq, items>>
locks    == <<owner, exclusive, shared>>
request  == <<pc, kind, left, mine, rows>>
vars == <<database, ids, locks, copied, request, asked, faults>>

Kinds == {"create", "paste", "import"}
Pcs   == {"idle", "lock", "number", "reference", "insert", "commit"}

Item == [code : Nat \ {0}, id : Nat \ {0}]

\* A new production, or one that has items.
Init ==
    /\ seq \in 0..MaxOld
    /\ items = {[code |-> n, id |-> n] : n \in 1..seq}
    /\ ids = seq
    /\ owner = Nobody /\ exclusive = Nobody /\ shared = {}
    /\ copied = 0
    /\ pc = [r \in Requests |-> "idle"]
    /\ kind = [r \in Requests |-> "create"]
    /\ left = [r \in Requests |-> 0]
    /\ mine = [r \in Requests |-> 0]
    /\ rows = [r \in Requests |-> {}]
    /\ asked = 0 /\ faults = 0

Goto(r, to) == pc' = [pc EXCEPT ![r] = to]

\* The browser remembers the type and description of n items.
Copy(r) ==
    /\ pc[r] = "idle" /\ items # {}
    /\ copied' \in 1..Cardinality(items)
    /\ UNCHANGED <<database, ids, locks, request, asked, faults>>

Start(r, k, n) ==
    /\ pc[r] = "idle" /\ asked + n <= MaxAsked
    /\ kind' = [kind EXCEPT ![r] = k]
    /\ left' = [left EXCEPT ![r] = n]
    /\ asked' = asked + n
    /\ Goto(r, IF k = "import" THEN "lock" ELSE "number")
    /\ UNCHANGED <<database, ids, locks, copied, mine, rows, faults>>

\* The form of one item.
Create(r) == Start(r, "create", 1)

\* What the browser remembers, item by item.
Paste(r) == copied > 0 /\ Start(r, "paste", copied)

\* The rows of a preview.
Import(r) == \E n \in 1..MaxAsked : Start(r, "import", n)

\* SELECT ... FOR UPDATE of the production.
Lock(r) ==
    /\ pc[r] = "lock" /\ exclusive = Nobody /\ shared = {}
    /\ exclusive' = r
    /\ Goto(r, "number")
    /\ UNCHANGED <<database, ids, owner, shared, copied, kind, left, mine, rows, asked, faults>>

\* Seeded bug: the code is allocated in a transaction of its own.
NumberCommitted(r) ==
    /\ pc[r] = "number" /\ owner = Nobody
    /\ mine' = [mine EXCEPT ![r] = seq + 1] /\ seq' = seq + 1
    /\ Goto(r, "insert")
    /\ UNCHANGED <<items, ids, locks, copied, kind, left, rows, asked, faults>>

\* Seeded bug: the sequence row is deleted and inserted anew.
NumberReplaced(r) ==
    /\ pc[r] = "number" /\ owner \in {Nobody, r}
    /\ mine' = [mine EXCEPT ![r] = (IF owner = r THEN mine[r] ELSE seq) + 1]
    /\ owner' = r
    /\ Goto(r, "reference")
    /\ UNCHANGED <<database, ids, exclusive, shared, copied, kind, left, rows, asked, faults>>

\* INSERT ... ON CONFLICT DO UPDATE ... RETURNING next_value, which waits for
\* another's uncommitted version.  A row that was inserted has its foreign key
\* checked.
Number(r) ==
    /\ pc[r] = "number" /\ owner \in {Nobody, r}
    /\ mine' = [mine EXCEPT ![r] = (IF owner = r THEN mine[r] ELSE seq) + 1]
    /\ owner' = r
    /\ Goto(r, IF owner = Nobody /\ seq = 0 THEN "reference" ELSE "insert")
    /\ UNCHANGED <<database, ids, exclusive, shared, copied, kind, left, rows, asked, faults>>

\* SELECT ... FOR KEY SHARE of the production, by the foreign key.
Reference(r) ==
    /\ pc[r] = "reference" /\ exclusive \in {Nobody, r}
    /\ shared' = shared \union {r}
    /\ Goto(r, "insert")
    /\ UNCHANGED <<database, ids, owner, exclusive, copied, kind, left, mine, rows, asked, faults>>

\* An import goes on in its transaction, the others commit each item.
InsertItem(r) ==
    /\ pc[r] = "insert"
    /\ ids' = ids + 1
    /\ rows' = [rows EXCEPT ![r] = @ \union {[code |-> mine[r], id |-> ids + 1]}]
    /\ left' = [left EXCEPT ![r] = @ - 1]
    /\ Goto(r, IF kind[r] = "import" /\ left[r] > 1 THEN "number" ELSE "commit")
    /\ UNCHANGED <<database, locks, copied, kind, mine, asked, faults>>

\* The end of r's transaction, either way.
Release(r) ==
    /\ owner' = IF owner = r THEN Nobody ELSE owner
    /\ exclusive' = IF exclusive = r THEN Nobody ELSE exclusive
    /\ shared' = shared \ {r}
    /\ mine' = [mine EXCEPT ![r] = 0]
    /\ rows' = [rows EXCEPT ![r] = {}]

\* Seeded bug: the value is written back by hand, and one too low.
WriteLow(r) == seq' = mine[r] - 1 /\ items' = items \union rows[r]

\* What r wrote becomes visible.
Write(r) == seq' = mine[r] /\ items' = items \union rows[r]

Commit(r) ==
    /\ pc[r] = "commit"
    /\ Write(r) /\ Release(r)
    /\ Goto(r, IF left[r] > 0 THEN "number" ELSE "idle")
    /\ UNCHANGED <<ids, copied, kind, left, asked, faults>>

\* Seeded bug: no deferred Rollback.
AbortHolds(r) ==
    /\ Goto(r, "idle")
    /\ left' = [left EXCEPT ![r] = 0]
    /\ UNCHANGED <<ids, locks, mine, rows, copied, kind, asked>>

\* The transaction is rolled back and the request answers an error.
Abort(r) ==
    /\ Release(r)
    /\ Goto(r, "idle")
    /\ left' = [left EXCEPT ![r] = 0]
    /\ UNCHANGED <<ids, copied, kind, asked>>

\* An actor or type was archived, a statement failed, the context ended or the
\* process died; the answer to a COMMIT may be lost.
Fails(r) ==
    /\ pc[r] # "idle"
    /\ faults < MaxFaults /\ faults' = faults + 1
    /\ Abort(r)
    /\ \/ pc[r] = "commit" /\ Write(r)
       \/ UNCHANGED database

\* r waits for a row that s has locked.
Waits(r, s) ==
    /\ r # s
    /\ \/ pc[r] = "lock" /\ (exclusive = s \/ s \in shared)
       \/ pc[r] = "number" /\ owner = s
       \/ pc[r] = "reference" /\ exclusive = s

Deadlocked(r, s) == Waits(r, s) /\ Waits(s, r)

\* The server finds a deadlock and fails the statement of one of the two.
Victim(r) ==
    /\ \E s \in Requests : Deadlocked(r, s)
    /\ Abort(r)
    /\ UNCHANGED <<database, faults>>

Step(r) == Lock(r) \/ Number(r) \/ Reference(r) \/ InsertItem(r) \/ Commit(r) \/ Victim(r)

Next == \E r \in Requests :
            \/ Copy(r) \/ Create(r) \/ Paste(r) \/ Import(r)
            \/ Step(r) \/ Fails(r)

\* A request goes on, and the server looks for deadlocks.
Fairness == \A r \in Requests : WF_vars(Step(r))

Spec == Init /\ [][Next]_vars
FairSpec == Spec /\ Fairness
-----------------------------------------------------------------------------
(* Properties.                                                             *)

\* Each variable has its type, and whoever wrote the sequence row has it.
TypeOK ==
    /\ seq \in Nat /\ items \subseteq Item /\ ids \in Nat
    /\ owner \in Requests \union {Nobody}
    /\ exclusive \in Requests \union {Nobody}
    /\ shared \subseteq Requests /\ copied \in Nat
    /\ pc \in [Requests -> Pcs] /\ kind \in [Requests -> Kinds]
    /\ left \in [Requests -> Nat] /\ mine \in [Requests -> Nat]
    /\ rows \in [Requests -> SUBSET Item]
    /\ asked \in Nat /\ faults \in Nat
    /\ \A r \in Requests : mine[r] # 0 <=> owner = r

Written == items \union UNION {rows[r] : r \in Requests}

\* No INSERT is ever refused for its code: neither committed items nor those
\* of transactions in progress share one.
CodesUnique == \A i, j \in Written : i.code = j.code => i = j

\* Lists are ordered by id: within a status they show the codes in order,
\* although the ids come from a sequence of their own.
ListedInCodeOrder == \A i, j \in items : i.code < j.code <=> i.id < j.id

Codes == {i.code : i \in items}

\* The codes are a CodeBook, whatever is rolled back.
Book == INSTANCE CodeBook WITH last <- seq, codes <- Codes
ImplementsCodeBook == Book!Spec

\* Two transactions wait for each other only over the first code of a
\* production, and one of them is an import.
DeadlockOnlyOnFirst ==
    \A r, s \in Requests :
        Deadlocked(r, s) => seq = 0 /\ "import" \in {kind[r], kind[s]}

\* Every request ends: a deadlock is always between two, and one gives way.
RequestsEnd == \A r \in Requests : pc[r] # "idle" ~> pc[r] = "idle"
=============================================================================
