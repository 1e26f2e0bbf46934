--------------------------- MODULE ItemCodesProofs ---------------------------
(***************************************************************************)
(* Theorems about ItemCodes, for any number of requests, items and         *)
(* failures.  Everything follows from one fact: only the owner of the      *)
(* sequence row has uncommitted items, and they are the next ones.         *)
(***************************************************************************)
EXTENDS ItemCodes, TLAPS

\* Who holds what, by where a request is.
HoldInv ==
    \A r \in Requests :
        /\ pc[r] \in {"reference", "insert", "commit"} => owner = r
        /\ pc[r] \in {"idle", "lock"} => owner # r /\ exclusive # r /\ r \notin shared
        /\ exclusive = r => kind[r] = "import"
        /\ pc[r] = "lock" => kind[r] = "import"
        /\ pc[r] = "reference" => seq = 0
        /\ pc[r] \notin {"idle", "commit"} => left[r] > 0

\* A request has a number of which the item is still to come.
Numbered(r) == pc[r] \in {"reference", "insert"}

\* The uncommitted items are the owner's and continue the committed codes.
RowInv ==
    \A r \in Requests :
        /\ owner = r => mine[r] > seq
        /\ owner # r => rows[r] = {}
        /\ \A i \in rows[r] : /\ seq < i.code /\ i.code <= mine[r]
                              /\ Numbered(r) => i.code < mine[r]
        /\ \A n \in (seq + 1)..mine[r] :
              (Numbered(r) /\ n = mine[r]) \/ \E i \in rows[r] : i.code = n

\* The committed codes are 1..seq.
CodeInv == /\ \A i \in items : i.code <= seq
           /\ \A n \in 1..seq : \E i \in items : i.code = n

\* Ids and codes grow together, rolled back or not.
OrderInv == /\ \A i \in Written : i.id <= ids
            /\ \A i, j \in Written : i.code < j.code <=> i.id < j.id

IInv == TypeOK /\ HoldInv /\ RowInv /\ CodeInv /\ OrderInv

-----------------------------------------------------------------------------

LEMMA InitIInv == Init => IInv
<1> SUFFICES ASSUME Init PROVE IInv
  OBVIOUS
<1>1. seq \in Nat
  BY CodesAssumption DEF Init
<1>2. TypeOK
  BY <1>1, CodesAssumption DEF Init, TypeOK, Item, Pcs, Kinds
<1>3. HoldInv /\ RowInv
  BY <1>1, CodesAssumption DEF Init, HoldInv, RowInv, Numbered
<1>4. CodeInv
  <2>1. \A i \in items : i.code <= seq
    BY <1>1 DEF Init
  <2>2. ASSUME NEW n \in 1..seq PROVE \E i \in items : i.code = n
    <3>1. [code |-> n, id |-> n] \in items
      BY DEF Init
    <3> QED BY <3>1
  <2> QED BY <2>1, <2>2 DEF CodeInv
<1>5. OrderInv
  <2>1. Written = items
    BY DEF Init, Written
  <2> QED BY <1>1, <2>1 DEF Init, OrderInv
<1> QED BY <1>2, <1>3, <1>4, <1>5 DEF IInv

\* A step that changes neither items nor uncommitted rows nor ids.
LEMMA SameWritten ==
    ASSUME OrderInv, UNCHANGED <<items, rows, ids>>
    PROVE  OrderInv'
  BY DEF OrderInv, Written

\* A step that leaves the sequence row and the uncommitted rows alone.
LEMMA SameRows ==
    ASSUME RowInv, CodeInv, UNCHANGED <<seq, items, owner, mine, rows>>,
           \A r \in Requests : Numbered(r)' <=> Numbered(r)
    PROVE  RowInv' /\ CodeInv'
  BY DEF RowInv, CodeInv

\* The end of a transaction without a commit loses rows.
LEMMA AbortKeeps ==
    ASSUME IInv, NEW r \in Requests, Abort(r), UNCHANGED database
    PROVE  HoldInv' /\ RowInv' /\ CodeInv' /\ OrderInv'
<1> USE DEF IInv, TypeOK, Abort, Release, Goto, database
<1>1. HoldInv'
  BY CodesAssumption DEF HoldInv, Pcs
<1>2. RowInv'
  BY CodesAssumption DEF RowInv, HoldInv, Numbered, Pcs
<1>3. CodeInv'
  BY DEF CodeInv
<1>4. OrderInv'
  <2>1. Written' \subseteq Written
    BY DEF Written
  <2> QED BY <2>1 DEF OrderInv
<1> QED BY <1>1, <1>2, <1>3, <1>4

\* A commit moves the owner's rows to the items.
LEMMA CommitKeeps ==
    ASSUME IInv, NEW r \in Requests, pc[r] = "commit", Write(r), Release(r), ids' = ids,
           kind' = kind,
           \A s \in Requests \ {r} : left'[s] = left[s],
           \/ Goto(r, "number") /\ left'[r] > 0
           \/ Goto(r, "idle")
    PROVE  HoldInv' /\ RowInv' /\ CodeInv' /\ OrderInv'
<1> USE DEF IInv, TypeOK, Release, Goto, Write
<1>0. /\ owner = r
      /\ seq' = mine[r] /\ seq' > seq
      /\ \/ pc' = [pc EXCEPT ![r] = "number"] /\ left'[r] > 0
         \/ pc' = [pc EXCEPT ![r] = "idle"]
  BY DEF HoldInv, RowInv
<1>1. HoldInv'
  BY <1>0, CodesAssumption DEF HoldInv, Pcs
<1>2. RowInv'
  <2>1. \A s \in Requests : mine'[s] = 0 /\ rows'[s] = {} /\ owner' = Nobody
    BY <1>0, CodesAssumption DEF RowInv
  <2> QED BY <1>0, <2>1, CodesAssumption DEF RowInv, Numbered
<1>3. CodeInv'
  <2>1. ASSUME NEW i \in items' PROVE i.code <= seq'
    <3>1. i \in items \/ i \in rows[r]
      OBVIOUS
    <3>2. i \in Item
      BY <3>1
    <3>3. i.code \in Nat
      BY <3>2 DEF Item
    <3> QED BY <1>0, <3>1, <3>3 DEF CodeInv, RowInv
  <2>2. ASSUME NEW n \in 1..seq' PROVE \E i \in items' : i.code = n
    <3>1. CASE n <= seq
      BY <3>1 DEF CodeInv
    <3>2. CASE n > seq
      <4>1. n \in (seq + 1)..mine[r]
        BY <1>0, <3>2
      <4>2. ~Numbered(r)
        BY DEF Numbered
      <4> QED BY <4>1, <4>2 DEF RowInv
    <3> QED BY <1>0, <3>1, <3>2
  <2> QED BY <2>1, <2>2 DEF CodeInv
<1>4. OrderInv'
  <2>1. Written' \subseteq Written
    BY DEF Written
  <2> QED BY <2>1 DEF OrderInv
<1> QED BY <1>1, <1>2, <1>3, <1>4

\* Types, which every action keeps by itself.
LEMMA StepTypeOK == IInv /\ [Next]_vars => TypeOK'
<1> SUFFICES ASSUME IInv, [Next]_vars PROVE TypeOK'
  OBVIOUS
<1> USE CodesAssumption DEF IInv, TypeOK, Goto, Kinds, Pcs, vars, database, locks, request
<1>1. ASSUME NEW r \in Requests, NEW k \in Kinds, NEW n \in Nat \ {0}, Start(r, k, n)
      PROVE  TypeOK'
  BY <1>1 DEF Start
<1>10. ASSUME NEW r \in Requests, Copy(r) PROVE TypeOK'
  BY <1>10 DEF Copy
<1>2. ASSUME NEW r \in Requests, Lock(r) PROVE TypeOK'
  BY <1>2 DEF Lock
<1>3. ASSUME NEW r \in Requests, Number(r) PROVE TypeOK'
  BY <1>3 DEF Number
<1>4. ASSUME NEW r \in Requests, Reference(r) PROVE TypeOK'
  BY <1>4 DEF Reference
<1>5. ASSUME NEW r \in Requests, InsertItem(r) PROVE TypeOK'
  <2>1. [code |-> mine[r], id |-> ids + 1] \in Item
    BY <1>5 DEF InsertItem, HoldInv, Item
  <2>2. rows' \in [Requests -> SUBSET Item]
    BY <1>5, <2>1 DEF InsertItem
  <2>3. left' \in [Requests -> Nat]
    <3>1. left[r] > 0
      BY <1>5 DEF InsertItem, HoldInv
    <3> QED BY <1>5, <3>1 DEF InsertItem
  <2> QED BY <1>5, <2>2, <2>3 DEF InsertItem
<1>6. ASSUME NEW r \in Requests, Commit(r) PROVE TypeOK'
  BY <1>6 DEF Commit, Write, Release
<1>7. ASSUME NEW r \in Requests, Fails(r) PROVE TypeOK'
  BY <1>7 DEF Fails, Abort, Write, Release
<1>8. ASSUME NEW r \in Requests, Victim(r) PROVE TypeOK'
  BY <1>8 DEF Victim, Abort, Release
<1>9. CASE UNCHANGED vars
  BY <1>9
<1>11. ASSUME NEW r \in Requests, Create(r) \/ Paste(r) \/ Import(r) PROVE TypeOK'
  BY <1>1, <1>11 DEF Create, Paste, Import
<1> QED BY <1>2, <1>3, <1>4, <1>5, <1>6, <1>7, <1>8, <1>9, <1>10, <1>11 DEF Next, Step

LEMMA StepIInv == IInv /\ [Next]_vars => IInv'
<1> SUFFICES ASSUME IInv, [Next]_vars PROVE IInv'
  OBVIOUS
<1>0. TypeOK'
  BY StepTypeOK
<1> USE CodesAssumption DEF IInv, TypeOK, Goto, Kinds, Pcs
<1>1. ASSUME NEW r \in Requests, NEW k \in Kinds, NEW n \in Nat \ {0}, Start(r, k, n),
             TypeOK'
      PROVE  IInv'
  <2>4. /\ kind' = [kind EXCEPT ![r] = k] /\ left' = [left EXCEPT ![r] = n]
        /\ pc' = [pc EXCEPT ![r] = IF k = "import" THEN "lock" ELSE "number"]
    BY <1>1 DEF Start
  <2>0. pc[r] = "idle" /\ UNCHANGED <<seq, items, ids, owner, exclusive, shared, mine, rows>>
    BY <1>1 DEF Start, database, locks
  <2>1. HoldInv'
    <3>1. owner # r /\ exclusive # r /\ r \notin shared
      BY <2>0 DEF HoldInv
    <3>2. n > 0
      OBVIOUS
    <3> QED BY <2>0, <2>4, <3>1, <3>2 DEF HoldInv
  <2>3. RowInv' /\ CodeInv'
    <3>1. \A s \in Requests : Numbered(s)' <=> Numbered(s)
      BY <2>0, <2>4 DEF Numbered
    <3> QED BY <2>0, <3>1, SameRows
  <2>2. OrderInv'
    BY <1>1, SameWritten DEF Start, database
  <2> QED BY <1>1, <2>1, <2>2, <2>3
<1>2. ASSUME NEW r \in Requests, Lock(r) PROVE IInv'
  <2>1. HoldInv'
    <3>1. /\ pc[r] = "lock" /\ pc' = [pc EXCEPT ![r] = "number"]
          /\ exclusive' = r /\ exclusive = Nobody
          /\ UNCHANGED <<seq, owner, shared, kind, left>>
      BY <1>2 DEF Lock, database
    <3>2. kind[r] = "import"
      BY <3>1 DEF HoldInv
    <3> QED BY <3>1, <3>2 DEF HoldInv
  <2>3. RowInv' /\ CodeInv'
    <3>1. \A s \in Requests : Numbered(s)' <=> Numbered(s)
      BY <1>2 DEF Lock, Numbered
    <3> QED BY <1>2, <3>1, SameRows DEF Lock, database
  <2>2. OrderInv'
    BY <1>2, SameWritten DEF Lock, database
  <2> QED BY <1>0, <2>1, <2>2, <2>3
<1>3. ASSUME NEW r \in Requests, Number(r) PROVE IInv'
  <2>1. HoldInv' /\ CodeInv'
    BY <1>3 DEF Number, HoldInv, CodeInv, database
  <2>2. RowInv'
    <3>1. /\ mine'[r] > seq /\ owner' = r /\ seq' = seq /\ rows' = rows
          /\ Numbered(r)' /\ mine'[r] \in Nat
      BY <1>3 DEF Number, RowInv, Numbered, database
    <3>2. ASSUME NEW s \in Requests, s # r
          PROVE  owner # s /\ mine'[s] = mine[s] /\ rows[s] = {} /\ mine[s] = 0
      BY <1>3, <3>2 DEF Number, RowInv
    <3>3. \A i \in rows[r] : seq < i.code /\ i.code < mine'[r]
      BY <1>3 DEF Number, RowInv, Item
    <3>4. ASSUME NEW n \in (seq + 1)..mine'[r], n # mine'[r]
          PROVE  \E i \in rows[r] : i.code = n
      <4>1. owner = r /\ n \in (seq + 1)..mine[r]
        BY <1>3, <3>4 DEF Number
      <4>2. ~Numbered(r)
        BY <1>3 DEF Number, Numbered
      <4> QED BY <4>1, <4>2 DEF RowInv
    <3>5. \A i \in rows[r] : i.code <= mine'[r]
      BY <3>1, <3>3 DEF Item
    <3> QED BY <3>1, <3>2, <3>3, <3>4, <3>5 DEF RowInv
  <2>3. OrderInv'
    BY <1>3, SameWritten DEF Number, database
  <2> QED BY <1>0, <2>1, <2>2, <2>3
<1>4. ASSUME NEW r \in Requests, Reference(r) PROVE IInv'
  <2>1. HoldInv'
    BY <1>4 DEF Reference, HoldInv, database
  <2>3. RowInv' /\ CodeInv'
    <3>1. \A s \in Requests : Numbered(s)' <=> Numbered(s)
      BY <1>4 DEF Reference, Numbered
    <3> QED BY <1>4, <3>1, SameRows DEF Reference, database
  <2>2. OrderInv'
    BY <1>4, SameWritten DEF Reference, database
  <2> QED BY <1>0, <2>1, <2>2, <2>3
<1>5. ASSUME NEW r \in Requests, InsertItem(r) PROVE IInv'
  <2> DEFINE new == [code |-> mine[r], id |-> ids + 1]
  <2>1. owner = r /\ mine[r] > seq /\ Numbered(r)
    BY <1>5 DEF InsertItem, HoldInv, RowInv, Numbered
  <2>2. HoldInv' /\ CodeInv'
    BY <1>5, <2>1 DEF InsertItem, HoldInv, CodeInv, database, locks
  <2>3. RowInv'
    <3>1. /\ rows' = [rows EXCEPT ![r] = @ \union {new}] /\ new.code = mine[r]
          /\ seq' = seq /\ owner' = owner /\ mine' = mine /\ ~Numbered(r)'
      BY <1>5 DEF InsertItem, Numbered, database, locks
    <3> HIDE DEF new
    <3>2. \A i \in rows'[r] : i \in rows[r] \/ i = new
      BY <3>1
    <3>3. \A i \in rows'[r] : seq < i.code /\ i.code <= mine[r]
      BY <2>1, <3>1, <3>2 DEF RowInv
    <3>4. ASSUME NEW n \in (seq + 1)..mine[r] PROVE \E i \in rows'[r] : i.code = n
      BY <3>1, <3>4 DEF RowInv
    <3>5. \A s \in Requests : s # r => rows'[s] = {} /\ rows[s] = {} /\ mine[s] = 0
      BY <2>1, <3>1 DEF RowInv
    <3> QED BY <2>1, <3>1, <3>3, <3>4, <3>5 DEF RowInv
  <2>4. OrderInv'
    <3>1. Written' = Written \union {new}
      BY <1>5 DEF InsertItem, Written, database
    <3>2. \A i \in Written : i \in Item /\ i.code < mine[r]
      BY <2>1 DEF Written, RowInv, CodeInv, Item
    <3>3. ids' = ids + 1
      BY <1>5 DEF InsertItem
    <3> HIDE DEF TypeOK, new
    <3>4. new.code = mine[r] /\ new.id = ids + 1 /\ ids \in Nat /\ mine[r] \in Nat
      BY DEF new, TypeOK
    <3> QED BY <3>1, <3>2, <3>3, <3>4 DEF OrderInv, Item
  <2> QED BY <1>0, <2>2, <2>3, <2>4
<1>6. ASSUME NEW r \in Requests, Commit(r) PROVE IInv'
  BY <1>0, <1>6, CommitKeeps DEF Commit
<1>7. ASSUME NEW r \in Requests, Fails(r) PROVE IInv'
  <2>1. CASE UNCHANGED database
    BY <1>0, <1>7, <2>1, AbortKeeps DEF Fails
  <2>2. CASE pc[r] = "commit" /\ Write(r)
    BY <1>0, <1>7, <2>2, CommitKeeps DEF Fails, Abort
  <2> QED BY <1>7, <2>1, <2>2 DEF Fails
<1>8. ASSUME NEW r \in Requests, Victim(r) PROVE IInv'
  BY <1>0, <1>8, AbortKeeps DEF Victim
<1>10. ASSUME UNCHANGED <<database, ids, locks, request>> PROVE IInv'
  <2> USE <1>10 DEF database, locks, request
  <2>1. HoldInv' /\ RowInv' /\ CodeInv'
    BY DEF HoldInv, RowInv, CodeInv, Numbered
  <2>2. OrderInv'
    BY SameWritten
  <2> QED BY <1>0, <2>1, <2>2
<1>11. ASSUME NEW r \in Requests, Create(r) \/ Paste(r) \/ Import(r) PROVE IInv'
  BY <1>0, <1>1, <1>11 DEF Create, Paste, Import
<1> QED BY <1>2, <1>3, <1>4, <1>5, <1>6, <1>7, <1>8, <1>10, <1>11
        DEF Next, Step, Copy, vars

\* The strengthened invariant: only the owner of the sequence row has
\* uncommitted items, which continue the committed codes.
THEOREM CodesInvariant == Spec => []IInv
<1>1. Init => IInv
  BY InitIInv
<1>2. IInv /\ [Next]_vars => IInv'
  BY StepIInv
<1> QED BY <1>1, <1>2, PTL DEF Spec

-----------------------------------------------------------------------------

\* Types of allocateCodeTx and its callers, and that the version of the
\* sequence row is its owner's.
THEOREM CodesTypeCorrect == Spec => []TypeOK
<1>1. IInv => TypeOK
  BY DEF IInv
<1> QED BY <1>1, CodesInvariant, PTL

\* No two items of a production share a code, committed or not: the UNIQUE
\* (production_id, code) of costume_items never refuses an INSERT.
THEOREM CodesAreUnique == Spec => []CodesUnique
<1>1. ASSUME IInv PROVE CodesUnique
  <2>1. Written \subseteq Item
    BY <1>1 DEF IInv, TypeOK, Written
  <2>2. \A i, j \in Written : i.code < j.code <=> i.id < j.id
    BY <1>1 DEF IInv, OrderInv
  <2>3. ASSUME NEW i \in Written, NEW j \in Written, i.code = j.code PROVE i = j
    <3>1. i.id = j.id
      BY <2>1, <2>2, <2>3 DEF Item
    <3> QED BY <2>1, <2>3, <3>1 DEF Item
  <2> QED BY <2>3 DEF CodesUnique
<1> QED BY <1>1, CodesInvariant, PTL

\* What List orders by id it orders by code.
THEOREM ListsAreInCodeOrder == Spec => []ListedInCodeOrder
<1>1. IInv => ListedInCodeOrder
  BY DEF IInv, OrderInv, Written, ListedInCodeOrder
<1> QED BY <1>1, CodesInvariant, PTL

\* PostgreSQL has a deadlock to break only over the first code of a
\* production, between an import and another request.
THEOREM DeadlocksAreOnFirstCode == Spec => []DeadlockOnlyOnFirst
<1>1. IInv => DeadlockOnlyOnFirst
  <2> SUFFICES ASSUME IInv, NEW r \in Requests, NEW s \in Requests,
                      Waits(r, s), Waits(s, r)
               PROVE  seq = 0 /\ "import" \in {kind[r], kind[s]}
    BY DEF DeadlockOnlyOnFirst, Deadlocked
  <2>1. pc[r] # "lock" /\ pc[s] # "lock"
    BY DEF IInv, HoldInv, Waits
  <2>2. CASE pc[r] = "number"
    BY <2>1, <2>2 DEF IInv, HoldInv, Waits
  <2>3. CASE pc[r] = "reference"
    BY <2>1, <2>3 DEF IInv, HoldInv, Waits
  <2> QED BY <2>1, <2>2, <2>3 DEF Waits
<1> QED BY <1>1, CodesInvariant, PTL

\* The codes of a production are numbered without gaps: every step of
\* ItemCodes is a step of CodeBook or leaves it alone.
THEOREM CodesImplementBook == Spec => ImplementsCodeBook
<1> DEFINE Full == seq \in Nat /\ Codes = 1..seq
<1>1. IInv => Full
  <2> SUFFICES ASSUME IInv PROVE Full
    OBVIOUS
  <2>1. seq \in Nat /\ \A i \in items : i.code \in Nat \ {0}
    BY DEF IInv, TypeOK, Item
  <2> QED BY <2>1 DEF IInv, CodeInv, Codes
<1>2. Init => Book!Init
  BY <1>1, InitIInv DEF Book!Init
<1>3. IInv /\ IInv' /\ [Next]_vars => [Book!Append]_<<seq, Codes>>
  <2> SUFFICES ASSUME IInv, IInv', [Next]_vars
               PROVE  [Book!Append]_<<seq, Codes>>
    OBVIOUS
  <2>1. Full /\ Full'
    <3>1. IInv' => Full'
      BY <1>1, PTL
    <3> QED BY <1>1, <3>1
  <2>2. seq' >= seq
    BY DEF Next, Step, Copy, Create, Paste, Import, Start, Lock, Number, Reference, InsertItem, Commit, Fails, Victim,
           Write, database, vars, IInv, TypeOK, RowInv, HoldInv
  <2> QED BY <2>1, <2>2 DEF Book!Append
<1> QED BY <1>2, <1>3, CodesInvariant, PTL DEF Spec, ImplementsCodeBook, Book!Spec
=============================================================================
