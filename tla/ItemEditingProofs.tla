-------------------------- MODULE ItemEditingProofs --------------------------
(***************************************************************************)
(* updated_at is a version although it is only the time at which a         *)
(* transaction began: the stamps of the transactions under way differ from *)
(* the row's, from each other's and from those of all pages.               *)
(***************************************************************************)
EXTENDS ItemEditing, TLAPS

Writing(w) == pc[w] = "write"

\* No stamp is later than the clock.
Bounded == /\ row.at <= clock
           /\ \A w \in Windows : page[w].at <= clock
           /\ \A w \in Windows : Writing(w) => input[w].at <= clock

\* A transaction under way has a stamp that nothing else carries.
Distinct == \A w \in Windows : Writing(w) =>
                /\ input[w].at # row.at
                /\ \A v \in Windows : page[v].at # input[w].at
                /\ \A v \in Windows \ {w} : Writing(v) => input[v].at # input[w].at

\* The row and every accepted form satisfy the CHECK.
Checked == /\ ProgressCheck(row)
           /\ \A w \in Windows : pc[w] # "idle" => ProgressCheck(input[w])

\* What a request under way was shown is the row, or it has missed a write.
Followed == \A w \in Windows : pc[w] # "idle" => page[w].at = row.at \/ missed[w]

IInv == /\ TypeOK /\ Bounded /\ Distinct /\ StampIdentifies
        /\ Checked /\ Followed

\* The percentages of the workspace are percentages, and 100 for Complete.
LEMMA WorkspaceProgress ==
    /\ workspaceProgress \in [DOMAIN workspaceProgress -> 0..100]
    /\ Complete \in DOMAIN workspaceProgress
    /\ workspaceProgress[Complete] = 100
  BY DEF workspaceProgress, Complete

\* Columns and rows have the types of their parts.
LEMMA FormedRows ==
    /\ \A t \in Types, s \in DOMAIN workspaceProgress, p \in 0..100, x, n \in Texts :
          /\ Columns(t, s, p, x, n) \in Fields
          /\ (s = Complete => p = 100) => ProgressCheck(Columns(t, s, p, x, n))
    /\ \A f \in Fields \union Rows, a \in BOOLEAN, at \in Nat :
          /\ Row(f, a, at) \in Rows
          /\ Row(f, a, at).at = at /\ Row(f, a, at).archived = a
          /\ ProgressCheck(f) => ProgressCheck(Row(f, a, at))
  <1>1. \A t \in Types, s \in DOMAIN workspaceProgress, p \in 0..100, x, n \in Texts :
          /\ Columns(t, s, p, x, n) \in Fields
          /\ (s = Complete => p = 100) => ProgressCheck(Columns(t, s, p, x, n))
    BY DEF Columns, Fields, ProgressCheck
  <1>2. ASSUME NEW f \in Fields \union Rows, NEW a \in BOOLEAN, NEW at \in Nat
        PROVE  /\ Row(f, a, at) \in Rows
               /\ Row(f, a, at).at = at /\ Row(f, a, at).archived = a
               /\ ProgressCheck(f) => ProgressCheck(Row(f, a, at))
    BY DEF Fields, Rows, Row, ProgressCheck
  <1> QED
    BY <1>1, <1>2

\* A new item, with no page and no request.
LEMMA ItemInit == Init => IInv
  <1> SUFFICES ASSUME Init PROVE IInv
    OBVIOUS
  <1>0. /\ clock = 0 /\ closed = FALSE /\ archivedTypes = {}
        /\ page = [w \in Windows |-> NoPage] /\ pc = [w \in Windows |-> "idle"]
        /\ input = [w \in Windows |-> NoInput] /\ missed = [w \in Windows |-> FALSE]
    BY DEF Init
  <1>1. PICK t \in Types, x \in Texts : row = Row(Columns(t, "Find", 0, x, x), FALSE, 0)
    BY DEF Init
  <1>2. "Find" \in DOMAIN workspaceProgress
    BY DEF workspaceProgress
  <1>3. Columns(t, "Find", 0, x, x) \in Fields /\ ProgressCheck(Columns(t, "Find", 0, x, x))
    BY <1>2, FormedRows DEF Complete
  <1>4. row \in Rows /\ row.at = 0 /\ ProgressCheck(row)
    <2> DEFINE f == Columns(t, "Find", 0, x, x)
    <2>1. FALSE \in BOOLEAN /\ 0 \in Nat /\ f \in Fields \union Rows /\ ProgressCheck(f)
      BY <1>3
    <2> HIDE DEF f
    <2>2. /\ Row(f, FALSE, 0) \in Rows /\ Row(f, FALSE, 0).at = 0
          /\ ProgressCheck(Row(f, FALSE, 0))
      BY <2>1, FormedRows
    <2> QED
      BY <1>1, <2>2 DEF f
  <1>5. TypeOK
    BY <1>0, <1>4 DEF TypeOK
  <1>6. Bounded /\ Distinct /\ StampIdentifies
    <2>1. \A w \in Windows : page[w] = NoPage /\ page[w].at = -1 /\ ~Writing(w)
      BY <1>0 DEF Writing, NoPage
    <2>2. Bounded
      BY <1>0, <1>4, <2>1 DEF Bounded
    <2>3. Distinct /\ StampIdentifies
      BY <1>4, <2>1 DEF Distinct, StampIdentifies
    <2> QED
      BY <2>2, <2>3
  <1>7. Checked /\ Followed
    BY <1>0, <1>4 DEF Checked, Followed
  <1> QED
    BY <1>5, <1>6, <1>7 DEF IInv

-----------------------------------------------------------------------------
(* Putting a row whose stamp no page and no transaction under way carries. *)

\* A fresh stamp keeps pages and row apart from the transactions.
LEMMA PutNext ==
    ASSUME IInv, NEW r \in Rows, Put(r), ProgressCheck(r),
           \A v \in Windows : page'[v] \in {page[v], NoPage},
           \A v \in Windows : page[v].at # r.at,
           \A v \in Windows : pc'[v] # "idle" => pc'[v] = pc[v] /\ input'[v] = input[v],
           \A v \in Windows : pc'[v] = "write" => input[v].at # r.at,
           clock' \in Nat, clock <= clock', r.at <= clock',
           pc' \in [Windows -> {"idle", "begin", "write"}],
           page' \in [Windows -> Rows \union {NoPage}]
    PROVE  /\ row' \in Rows /\ missed' \in [Windows -> BOOLEAN]
           /\ Bounded' /\ Distinct' /\ StampIdentifies' /\ Checked' /\ Followed'
  <1>1. row' = r /\ missed' = [v \in Windows |-> pc'[v] # "idle"]
    BY DEF Put
  <1>2. r.at \in Nat /\ clock \in Nat
    BY DEF Rows, IInv, TypeOK
  <1>3. \A v \in Windows : Writing(v)' => Writing(v) /\ input'[v] = input[v] /\ input[v].at \in Nat
    BY DEF Writing, IInv, TypeOK, Rows
  <1>4. \A v \in Windows : page[v].at \in Nat \union {-1}
    BY DEF IInv, TypeOK, Rows, NoPage
  <1>5. Bounded'
    BY <1>1, <1>2, <1>3, <1>4 DEF Bounded, IInv, NoPage
  <1>6. Distinct'
    BY <1>1, <1>2, <1>3, <1>4 DEF Distinct, IInv, NoPage, Writing
  <1>7. StampIdentifies'
    BY <1>1, <1>2 DEF StampIdentifies, NoPage
  <1>8. Checked' /\ Followed'
    BY <1>1 DEF Checked, Followed, IInv
  <1> QED
    BY <1>1, <1>5, <1>6, <1>7, <1>8

\* Submitting columns that satisfy the CHECK.
LEMMA SubmitNext ==
    ASSUME IInv, NEW w \in Windows, NEW f \in Fields, ProgressCheck(f), Submit(w, f)
    PROVE  IInv'
  <1> USE DEF Submit, IInv
  <1>1. TypeOK'
    BY DEF TypeOK
  <1>2. page[w].at = row.at
    BY DEF Current
  <1>3. Bounded' /\ Distinct'
    BY DEF Bounded, Distinct, Writing, TypeOK
  <1>4. StampIdentifies'
    BY DEF StampIdentifies
  <1>5. Checked' /\ Followed'
    BY <1>2 DEF Checked, Followed, TypeOK
  <1> QED
    BY <1>1, <1>3, <1>4, <1>5

\* Each of the three forms sends columns that satisfy the CHECK.
LEMMA FormsNext ==
    ASSUME IInv, NEW w \in Windows, Edit(w) \/ UpdateStatus(w) \/ Workspace(w)
    PROVE  IInv'
  <1> USE ItemAssumption
  <1>0. /\ row.type \in Types /\ row.status \in DOMAIN workspaceProgress
        /\ row.progress \in 0..100 /\ row.text \in Texts /\ row.notes \in Texts
        /\ ProgressCheck(row)
    BY DEF IInv, TypeOK, Rows, Checked
  <1>1. CASE Edit(w)
    <2>1. PICK t \in Types, s \in Statuses, p \in Progresses, x, n \in Texts :
             /\ s = Complete => p = 100
             /\ Submit(w, Columns(t, s, p, x, n))
      BY <1>1 DEF Edit, ValidForm
    <2>2. Columns(t, s, p, x, n) \in Fields /\ ProgressCheck(Columns(t, s, p, x, n))
      BY <1>0, <2>1, FormedRows
    <2> QED
      BY <2>1, <2>2, SubmitNext
  <1>2. CASE UpdateStatus(w)
    <2>1. PICK s \in Statuses :
             Submit(w, Columns(row.type, s, IF s = Complete THEN 100 ELSE row.progress,
                               row.text, row.notes))
      BY <1>2 DEF UpdateStatus
    <2> DEFINE p == IF s = Complete THEN 100 ELSE row.progress
    <2>2. p \in 0..100 /\ (s = Complete => p = 100)
      BY <1>0
    <2>3. /\ Columns(row.type, s, p, row.text, row.notes) \in Fields
          /\ ProgressCheck(Columns(row.type, s, p, row.text, row.notes))
      <3> HIDE DEF p
      <3> QED
        BY <1>0, <2>2, FormedRows
    <2> QED
      BY <2>1, <2>3, SubmitNext
  <1>3. CASE Workspace(w)
    <2>1. PICK s \in Statuses \union {row.status}, p0 \in Progresses \union {row.progress},
               x \in Texts :
             LET progress == IF s # row.status THEN workspaceProgress[s] ELSE p0
             IN  /\ s = Complete => progress = 100
                 /\ Submit(w, Columns(row.type, s, progress, x, row.notes))
      BY <1>3 DEF Workspace
    <2> DEFINE p == IF s # row.status THEN workspaceProgress[s] ELSE p0
    <2>2. p \in 0..100 /\ s \in DOMAIN workspaceProgress
      BY <1>0, WorkspaceProgress
    <2>3. /\ Columns(row.type, s, p, x, row.notes) \in Fields
          /\ ProgressCheck(Columns(row.type, s, p, x, row.notes))
      <3>1. s = Complete => p = 100
        BY <2>1
      <3> HIDE DEF p
      <3> QED
        BY <1>0, <2>2, <3>1, FormedRows
    <2> QED
      BY <2>1, <2>3, SubmitNext
  <1> QED
    BY <1>1, <1>2, <1>3

-----------------------------------------------------------------------------
(* The steps of the repository and of the other handlers.                  *)

\* A transaction begins with a stamp later than all others, or is refused.
LEMMA BeginNext ==
    ASSUME IInv, NEW w \in Windows, Begin(w)
    PROVE  IInv'
  <1> USE DEF IInv
  <1>1. clock' = clock + 1 /\ clock \in Nat
    BY DEF Begin, Begins, TypeOK
  <1>2. CASE closed \/ input[w].type \in archivedTypes
    <2>1. /\ UNCHANGED <<row, closed, archivedTypes>> /\ page' = page
          /\ pc' = [pc EXCEPT ![w] = "idle"] /\ input' = [input EXCEPT ![w] = NoInput]
          /\ missed' = [missed EXCEPT ![w] = FALSE]
      BY <1>2 DEF Begin, Answer, TypeOK
    <2>2. TypeOK'
      BY <1>1, <2>1 DEF TypeOK
    <2>3. row.at \in Nat /\ \A v \in Windows : page[v].at \in Nat \union {-1}
      BY DEF TypeOK, Rows, NoPage
    <2>4. \A v \in Windows : Writing(v)' => v # w /\ Writing(v) /\ input'[v] = input[v]
                                            /\ input[v].at \in Nat
      BY <2>1 DEF Writing, TypeOK, Rows
    <2>5. Bounded'
      BY <1>1, <2>1, <2>3, <2>4 DEF Bounded
    <2>6. Distinct'
      BY <2>1, <2>4 DEF Distinct
    <2>7. StampIdentifies' /\ Checked' /\ Followed'
      BY <2>1 DEF StampIdentifies, Checked, Followed, TypeOK
    <2> QED
      BY <2>2, <2>5, <2>6, <2>7
  <1>3. CASE ~(closed \/ input[w].type \in archivedTypes)
    <2> DEFINE r == Row(input[w], FALSE, clock + 1)
    <2>1. /\ UNCHANGED <<row, closed, archivedTypes, page, missed>>
          /\ pc' = [pc EXCEPT ![w] = "write"] /\ input' = [input EXCEPT ![w] = r]
      BY <1>1, <1>3 DEF Begin
    <2>2. input[w] \in Fields \union Rows /\ ProgressCheck(input[w]) /\ pc[w] = "begin"
      BY DEF Begin, TypeOK, Checked
    <2>3. r \in Rows /\ r.at = clock + 1 /\ ProgressCheck(r)
      <3>1. FALSE \in BOOLEAN /\ clock + 1 \in Nat
        BY <1>1
      <3> QED
        BY <2>2, <3>1, FormedRows
    <2> HIDE DEF r
    <2>4. TypeOK'
      BY <1>1, <2>1, <2>3 DEF TypeOK
    <2>5. row.at \in Nat /\ \A v \in Windows : page[v].at \in Nat \union {-1}
      BY DEF TypeOK, Rows, NoPage
    <2>6. /\ input'[w] = r
          /\ \A v \in Windows \ {w} : (Writing(v)' <=> Writing(v)) /\ input'[v] = input[v]
          /\ \A v \in Windows : Writing(v) => input[v].at \in Nat
      BY <2>1 DEF Writing, TypeOK, Rows
    <2>7. Bounded'
      BY <1>1, <2>1, <2>3, <2>5, <2>6 DEF Bounded
    <2>8. Distinct'
      BY <1>1, <2>1, <2>3, <2>5, <2>6 DEF Distinct, Bounded
    <2>9. StampIdentifies' /\ Checked' /\ Followed'
      BY <2>1, <2>2, <2>3 DEF StampIdentifies, Checked, Followed, TypeOK
    <2> QED
      BY <2>4, <2>7, <2>8, <2>9
  <1> QED
    BY <1>2, <1>3

\* The UPDATE, its answer lost or not.
LEMMA WriteNext ==
    ASSUME IInv, NEW w \in Windows, pc[w] = "write", NEW shown \in {page[w], NoPage},
           Answer(w, shown), Put(Written(w)), UNCHANGED <<clock, closed, archivedTypes>>
    PROVE  IInv'
  <1> DEFINE r == Written(w)
  <1>1. /\ page' = [page EXCEPT ![w] = shown] /\ pc' = [pc EXCEPT ![w] = "idle"]
        /\ input' = [input EXCEPT ![w] = NoInput]
    BY DEF Answer
  <1>2. r \in Rows /\ r.at = input[w].at /\ ProgressCheck(r)
    <2>1. /\ input[w] \in Fields \union Rows /\ row.archived \in BOOLEAN
          /\ input[w].at \in Nat /\ ProgressCheck(input[w])
      BY DEF IInv, TypeOK, Rows, Checked
    <2> QED
      BY <2>1, FormedRows DEF Written
  <1>3. /\ page' \in [Windows -> Rows \union {NoPage}]
        /\ pc' \in [Windows -> {"idle", "begin", "write"}]
        /\ input' \in [Windows -> Rows \union Fields \union {NoInput}]
    BY <1>1 DEF IInv, TypeOK
  <1>4. \A v \in Windows : page[v].at # r.at
    BY <1>2 DEF IInv, Distinct, Writing
  <1>5. /\ \A v \in Windows : page'[v] \in {page[v], NoPage}
        /\ \A v \in Windows : pc'[v] # "idle" => v # w /\ pc'[v] = pc[v] /\ input'[v] = input[v]
    BY <1>1 DEF IInv, TypeOK
  <1>6. \A v \in Windows : pc'[v] = "write" => input[v].at # r.at
    BY <1>2, <1>5 DEF IInv, Distinct, Writing
  <1>7. clock' \in Nat /\ clock <= clock' /\ r.at <= clock'
    BY <1>2 DEF IInv, TypeOK, Bounded, Writing
  <1> HIDE DEF r
  <1>8. Put(r)
    BY DEF r
  <1>9. /\ row' \in Rows /\ missed' \in [Windows -> BOOLEAN]
        /\ Bounded' /\ Distinct' /\ StampIdentifies' /\ Checked' /\ Followed'
    BY <1>2, <1>3, <1>4, <1>5, <1>6, <1>7, <1>8, PutNext
  <1>10. TypeOK'
    BY <1>3, <1>5, <1>9 DEF TypeOK, IInv
  <1> QED
    BY <1>9, <1>10 DEF IInv

\* A failed transaction leaves the row alone.
LEMMA FailNext ==
    ASSUME IInv, NEW w \in Windows, Answer(w, page[w]),
           missed' = [missed EXCEPT ![w] = FALSE],
           UNCHANGED <<clock, row, closed, archivedTypes>>
    PROVE  IInv'
  <1> USE DEF IInv
  <1>1. /\ page' = page /\ pc' = [pc EXCEPT ![w] = "idle"]
        /\ input' = [input EXCEPT ![w] = NoInput]
    BY DEF Answer, TypeOK
  <1>2. TypeOK'
    BY <1>1 DEF TypeOK
  <1>3. \A v \in Windows : Writing(v)' => v # w /\ Writing(v) /\ input'[v] = input[v]
    BY <1>1 DEF Writing, TypeOK
  <1>4. Bounded' /\ Distinct'
    BY <1>1, <1>3 DEF Bounded, Distinct
  <1>5. StampIdentifies' /\ Checked' /\ Followed'
    BY <1>1 DEF StampIdentifies, Checked, Followed, TypeOK
  <1> QED
    BY <1>2, <1>4, <1>5

\* A removal stamps the row like an UPDATE.
LEMMA ArchiveNext ==
    ASSUME IInv, Archive
    PROVE  IInv'
  <1> DEFINE r == [row EXCEPT !.archived = TRUE, !.at = clock']
  <1>1. clock' = clock + 1 /\ clock \in Nat
    BY DEF Archive, Begins, IInv, TypeOK
  <1>2. r \in Rows /\ r.at = clock + 1 /\ ProgressCheck(r)
    <2>1. row \in Rows /\ ProgressCheck(row) /\ clock' \in Nat /\ TRUE \in BOOLEAN
      BY <1>1 DEF IInv, TypeOK, Checked
    <2>2. r \in Rows /\ r.at = clock'
      BY <2>1 DEF Rows
    <2>3. r.status = row.status /\ r.progress = row.progress
      BY <2>1 DEF Rows
    <2> QED
      BY <1>1, <2>1, <2>2, <2>3 DEF ProgressCheck
  <1>3. UNCHANGED <<closed, archivedTypes, page, pc, input>>
    BY DEF Archive
  <1>4. \A v \in Windows : page[v].at # r.at
    BY <1>1, <1>2 DEF IInv, TypeOK, Bounded, Rows, NoPage
  <1>5. \A v \in Windows : pc'[v] = "write" => input[v].at # r.at
    BY <1>1, <1>2, <1>3 DEF IInv, TypeOK, Bounded, Rows, Writing
  <1>6. Put(r)
    BY DEF Archive
  <1>7. /\ clock' \in Nat /\ clock <= clock' /\ r.at <= clock'
        /\ pc' \in [Windows -> {"idle", "begin", "write"}]
        /\ page' \in [Windows -> Rows \union {NoPage}]
        /\ \A v \in Windows : page'[v] \in {page[v], NoPage}
        /\ \A v \in Windows : pc'[v] # "idle" => pc'[v] = pc[v] /\ input'[v] = input[v]
    BY <1>1, <1>2, <1>3 DEF IInv, TypeOK
  <1> HIDE DEF r
  <1>8. /\ row' \in Rows /\ missed' \in [Windows -> BOOLEAN]
        /\ Bounded' /\ Distinct' /\ StampIdentifies' /\ Checked' /\ Followed'
    BY <1>2, <1>4, <1>5, <1>6, <1>7, PutNext
  <1>9. TypeOK'
    BY <1>3, <1>7, <1>8 DEF TypeOK, IInv
  <1> QED
    BY <1>8, <1>9 DEF IInv

\* A page is loaded, the scope is closed, a type is archived or restored.
LEMMA AroundNext ==
    ASSUME IInv, \/ \E w \in Windows : Open(w)
                 \/ Close
                 \/ \E t \in Types : ArchiveType(t)
                 \/ UNCHANGED vars
    PROVE  IInv'
  <1>1. CASE \E w \in Windows : Open(w)
    <2>1. PICK w \in Windows : Open(w)
      BY <1>1
    <2>2. /\ page' = [page EXCEPT ![w] = row]
          /\ UNCHANGED <<clock, row, closed, archivedTypes, pc, input, missed>>
      BY <2>1 DEF Open, requests
    <2>3. TypeOK'
      BY <2>2 DEF IInv, TypeOK
    <2>4. Bounded' /\ Distinct'
      BY <2>2 DEF IInv, TypeOK, Bounded, Distinct, Writing
    <2>5. StampIdentifies' /\ Checked' /\ Followed'
      BY <2>1, <2>2 DEF IInv, TypeOK, StampIdentifies, Checked, Followed, Open
    <2> QED
      BY <2>3, <2>4, <2>5 DEF IInv
  <1>2. CASE Close \/ (\E t \in Types : ArchiveType(t)) \/ UNCHANGED vars
    <2>1. UNCHANGED <<clock, row, page, pc, input, missed>>
      BY <1>2 DEF Close, ArchiveType, vars, requests
    <2>2. closed' \in BOOLEAN /\ archivedTypes' \subseteq Types
      BY <1>2 DEF Close, ArchiveType, vars, IInv, TypeOK
    <2>3. TypeOK'
      BY <2>1, <2>2 DEF IInv, TypeOK
    <2>4. Bounded' /\ Distinct' /\ StampIdentifies' /\ Checked' /\ Followed'
      BY <2>1 DEF IInv, Bounded, Distinct, Writing, StampIdentifies, Checked, Followed
    <2> QED
      BY <2>3, <2>4 DEF IInv
  <1> QED
    BY <1>1, <1>2

LEMMA ItemNext == IInv /\ [Next]_vars => IInv'
  <1> SUFFICES ASSUME IInv, [Next]_vars PROVE IInv'
    OBVIOUS
  <1>1. CASE \E w \in Windows : Edit(w) \/ UpdateStatus(w) \/ Workspace(w)
    BY <1>1, FormsNext
  <1>2. CASE \E w \in Windows : Begin(w)
    BY <1>2, BeginNext
  <1>3. CASE \E w \in Windows : Write(w)
    BY <1>3, WriteNext DEF Write
  <1>4. CASE \E w \in Windows : DbFails(w)
    <2>1. PICK w \in Windows : DbFails(w)
      BY <1>4
    <2>2. CASE pc[w] = "write" /\ Put(Written(w))
      BY <2>1, <2>2, WriteNext DEF DbFails
    <2>3. CASE UNCHANGED row /\ missed' = [missed EXCEPT ![w] = FALSE]
      BY <2>1, <2>3, FailNext DEF DbFails
    <2> QED
      BY <2>1, <2>2, <2>3 DEF DbFails
  <1>5. CASE Archive
    BY <1>5, ArchiveNext
  <1>6. CASE (\E w \in Windows : Open(w)) \/ Close \/ (\E t \in Types : ArchiveType(t))
             \/ UNCHANGED vars
    BY <1>6, AroundNext
  <1> QED
    BY <1>1, <1>2, <1>3, <1>4, <1>5, <1>6 DEF Next

-----------------------------------------------------------------------------
(* The theorems.                                                           *)

\* The strengthening from which the others follow.
THEOREM ItemInvariant == Spec => []IInv
  BY ItemInit, ItemNext, PTL DEF Spec

\* Every variable has its type, and what is written is a whole row.
THEOREM ItemTypeCorrect == Spec => []TypeOK
  <1>1. IInv => TypeOK
    BY DEF IInv
  <1> QED
    BY <1>1, ItemInvariant, PTL

\* Whoever compares updated_at compares the row: equal stamps mean that the
\* page shows what the table holds.
THEOREM UpdatedAtIsVersion == Spec => []StampIdentifies
  <1>1. IInv => StampIdentifies
    BY DEF IInv
  <1> QED
    BY <1>1, ItemInvariant, PTL

\* The CHECK on status and progress never is what refuses a form.
THEOREM FormsFitCheck == Spec => []FitsCheck
  <1>1. IInv => FitsCheck
    BY DEF IInv, FitsCheck, Checked
  <1> QED
    BY <1>1, ItemInvariant, PTL

\* A stale form overwrites only what is written while its request runs.
THEOREM StaleFormsRefused == Spec => StaleFormRefused
  <1>1. IInv /\ [Next]_vars =>
            [\A w \in Windows : Write(w) => page[w].at = row.at \/ missed[w]]_vars
    BY DEF IInv, Followed, Write
  <1> QED
    BY <1>1, ItemInvariant, PTL DEF Spec, StaleFormRefused

-----------------------------------------------------------------------------
(* Requests that do not overlap.                                           *)

\* At most one request is in progress.
Alone == \A v, w \in Windows : pc[v] # "idle" /\ pc[w] # "idle" => v = w

\* A request in progress was shown the row, unless the item has been removed.
ShownInv == \A w \in Windows : pc[w] # "idle" => page[w].at = row.at \/ row.archived

LEMMA ShownNext == TypeOK /\ Alone /\ ShownInv /\ [Next]_vars => ShownInv'
  <1> SUFFICES ASSUME TypeOK, Alone, ShownInv, [Next]_vars PROVE ShownInv'
    OBVIOUS
  <1>1. ASSUME NEW w \in Windows, NEW f, Submit(w, f) PROVE ShownInv'
    <2>1. page[w].at = row.at /\ pc' = [pc EXCEPT ![w] = "begin"] /\ UNCHANGED <<row, page>>
      BY <1>1 DEF Submit, Current
    <2> QED
      BY <2>1 DEF ShownInv, TypeOK
  <1>2. CASE \E w \in Windows : Edit(w) \/ UpdateStatus(w) \/ Workspace(w)
    <2>1. PICK w \in Windows : \E f : Submit(w, f)
      BY <1>2 DEF Edit, UpdateStatus, Workspace
    <2> QED
      BY <1>1, <2>1
  <1>3. ASSUME NEW w \in Windows, pc[w] # "idle", pc' = [pc EXCEPT ![w] = "idle"] PROVE ShownInv'
    <2>1. \A v \in Windows : pc'[v] = "idle"
      BY <1>3 DEF Alone, TypeOK
    <2> QED
      BY <2>1 DEF ShownInv
  <1>4. ASSUME NEW w \in Windows, Begin(w) PROVE ShownInv'
    <2>1. CASE closed \/ input[w].type \in archivedTypes
      BY <1>3, <1>4, <2>1 DEF Begin, Answer
    <2>2. CASE ~(closed \/ input[w].type \in archivedTypes)
      BY <1>4, <2>2 DEF Begin, ShownInv, TypeOK
    <2> QED
      BY <2>1, <2>2
  <1>5. ASSUME NEW w \in Windows, Write(w) \/ DbFails(w) PROVE ShownInv'
    <2>1. pc[w] # "idle" /\ pc' = [pc EXCEPT ![w] = "idle"]
      BY <1>5 DEF Write, DbFails, Answer
    <2> QED
      BY <1>3, <2>1
  <1>6. CASE Archive
    <2>1. row' = [row EXCEPT !.archived = TRUE, !.at = clock'] /\ row \in Rows
      BY <1>6 DEF Archive, Put, TypeOK
    <2>2. row'.archived
      BY <2>1 DEF Rows
    <2> QED
      BY <2>2 DEF ShownInv
  <1>7. CASE \E w \in Windows : Open(w)
    BY <1>7 DEF Open, ShownInv, TypeOK, requests
  <1>8. CASE Close \/ (\E t \in Types : ArchiveType(t)) \/ UNCHANGED vars
    BY <1>8 DEF Close, ArchiveType, ShownInv, vars, requests
  <1> QED
    BY <1>2, <1>4, <1>5, <1>6, <1>7, <1>8 DEF Next

\* "stale writes return 409" (dashboard.go), which overlapping requests
\* break, holds when requests do not overlap: nothing else loses an update.
THEOREM AloneLosesNothing == Spec /\ []Alone => NoLostUpdate
  <1>1. Init => ShownInv
    BY DEF Init, ShownInv
  <1>2. ShownInv /\ [Next]_vars
            => [\A w \in Windows : Write(w) /\ ~row.archived => page[w].at = row.at]_vars
    BY DEF ShownInv, Write
  <1> QED
    BY <1>1, <1>2, ShownNext, ItemTypeCorrect, PTL DEF Spec, NoLostUpdate
=============================================================================
