------------------------------ MODULE ItemEditing ------------------------------
(***************************************************************************)
(* Concurrent edits of one costume item: the item editor and the status    *)
(* control of its actor's inventory (internal/web/costume_items.go), the   *)
(* actor workspace (internal/web/dashboard.go), removal, and the update    *)
(* transaction of the item repository (internal/storage/repositories.go).  *)
(*                                                                         *)
(* Every form carries the updated_at of the row it was rendered from; the  *)
(* handler reads the row again and refuses the form when that differs.     *)
(* The transaction that follows checks that production, actor and type are *)
(* not archived and then overwrites every column by id.  An UPDATE waits   *)
(* for the row's lock and is invisible until COMMIT, so both are one step. *)
(* A refused form changes nothing and is no step at all.                   *)
(***************************************************************************)
EXTENDS Integers

CONSTANTS
    Windows,      \* browser windows, each with one page and one request
    Types,        \* item types
    Texts,        \* what description and next action, blocker and notes can be
    Statuses,     \* statuses the users choose
    Progresses,   \* percentages the users enter
    MaxClock      \* bound: transactions begun

NoPage  == [at |-> -1]
NoInput == [at |-> -1]
Complete == "Complete"

\* workspaceProgress
workspaceProgress ==
    [s \in {"Find", "Make", "Fit", "Alterations", Complete} |->
        CASE s = "Find" -> 0 [] s = "Make" -> 25 [] s = "Fit" -> 50
          [] s = "Alterations" -> 75 [] s = Complete -> 100]

ASSUME ItemAssumption ==
    /\ Statuses \subseteq DOMAIN workspaceProgress
    /\ Progresses \subseteq 0..100
    /\ MaxClock \in Nat

VARIABLES
    clock,          \* CURRENT_TIMESTAMP of the last transaction that began
    row,            \* the costume_items row, at = updated_at
    closed,         \* whether its production or its actor is archived
    archivedTypes,  \* item types that are archived
    page,           \* the row each window shows
    pc, input,      \* each window's request and what it is about to write
    missed          \* history: the row was written since the request read it

requests == <<pc, input, missed>>
vars == <<clock, row, closed, archivedTypes, page, requests>>

Fields == [type : Types, status : DOMAIN workspaceProgress, progress : 0..100,
           text : Texts, notes : Texts]

\* CHECK (status <> 'Complete' OR progress = 100)
ProgressCheck(r) == r.status = Complete => r.progress = 100

Row(f, archived, at) == [type |-> f.type, status |-> f.status, progress |-> f.progress,
                         text |-> f.text, notes |-> f.notes,
                         archived |-> archived, at |-> at]

\* The columns an Update writes, for these values.
Columns(type, status, progress, text, notes) ==
    [type |-> type, status |-> status, progress |-> progress, text |-> text, notes |-> notes]

\* A new item, as Create leaves it.
Init ==
    /\ clock = 0
    /\ \E t \in Types, x \in Texts :
          row = Row(Columns(t, "Find", 0, x, x), FALSE, 0)
    /\ closed = FALSE /\ archivedTypes = {}
    /\ page = [w \in Windows |-> NoPage]
    /\ pc = [w \in Windows |-> "idle"]
    /\ input = [w \in Windows |-> NoInput]
    /\ missed = [w \in Windows |-> FALSE]

\* A transaction begins.
Begins == clock < MaxClock /\ clock' = clock + 1

\* The row is written; the requests in progress have missed it.
Put(r) == /\ row' = r
          /\ missed' = [v \in Windows |-> pc'[v] # "idle"]

\* scope: the production and the actor are not archived.
InScope == ~closed

\* The editor, the inventory or the workspace is shown; all leave out or
\* refuse an archived item.
Open(w) ==
    /\ pc[w] = "idle" /\ InScope /\ ~row.archived
    /\ page' = [page EXCEPT ![w] = row]
    /\ UNCHANGED <<clock, row, closed, archivedTypes, requests>>

-----------------------------------------------------------------------------
(* The three handlers.                                                     *)

\* Seeded bug: updated_at is not compared.
CurrentAlways(w) == InScope /\ ~row.archived

\* The scope is live, the item is not archived, and it is the one shown.
Current(w) == InScope /\ ~row.archived /\ page[w].at = row.at

Submit(w, columns) ==
    /\ pc[w] = "idle" /\ page[w] # NoPage /\ Current(w)
    /\ pc' = [pc EXCEPT ![w] = "begin"]
    /\ input' = [input EXCEPT ![w] = columns]
    /\ UNCHANGED <<clock, row, closed, archivedTypes, page, missed>>

\* validateForm: the type is active, and a complete item is at 100 %.
ValidForm(t, s, p) == t \notin archivedTypes /\ (s = Complete => p = 100)

\* EditCostumeItem
Edit(w) ==
    \E t \in Types, s \in Statuses, p \in Progresses, x, n \in Texts :
        /\ ValidForm(t, s, p)
        /\ Submit(w, Columns(t, s, p, x, n))

\* Seeded bug: progress is left alone.
UpdateStatusOnly(w) ==
    \E s \in Statuses : Submit(w, Columns(row.type, s, row.progress, row.text, row.notes))

\* UpdateCostumeItemStatus; every other column is written back as read.
UpdateStatus(w) ==
    \E s \in Statuses :
        Submit(w, Columns(row.type, s, IF s = Complete THEN 100 ELSE row.progress,
                          row.text, row.notes))

\* Workspace: a new status sets the progress, whatever was entered.
Workspace(w) ==
    \E s \in Statuses \union {row.status}, p \in Progresses \union {row.progress}, x \in Texts :
        LET progress == IF s # row.status THEN workspaceProgress[s] ELSE p
        IN  /\ s = Complete => progress = 100
            /\ Submit(w, Columns(row.type, s, progress, x, row.notes))

\* The page is answered with a redirect or shows an error.
Answer(w, shown) == /\ page' = [page EXCEPT ![w] = shown]
                    /\ pc' = [pc EXCEPT ![w] = "idle"]
                    /\ input' = [input EXCEPT ![w] = NoInput]

-----------------------------------------------------------------------------
(* costumeItemRepository.Update and Archive.                               *)

\* BEGIN, ensureProduction, ensureActor and ensureItemType, which lock nothing.
Begin(w) ==
    /\ pc[w] = "begin" /\ Begins
    /\ IF closed \/ input[w].type \in archivedTypes
       THEN Answer(w, page[w]) /\ missed' = [missed EXCEPT ![w] = FALSE]
       ELSE /\ pc' = [pc EXCEPT ![w] = "write"]
            /\ input' = [input EXCEPT ![w] = Row(input[w], FALSE, clock')]
            /\ UNCHANGED <<page, missed>>
    /\ UNCHANGED <<row, closed, archivedTypes>>

\* Seeded bug: UPDATE does not touch updated_at.
WrittenUnstamped(w) == Row(input[w], row.archived, row.at)

\* UPDATE ... WHERE production_id AND id: ExpectedUpdatedAt is not looked at.
Written(w) == Row(input[w], row.archived, input[w].at)

Write(w) ==
    /\ pc[w] = "write" /\ ProgressCheck(input[w])
    /\ Answer(w, NoPage)
    /\ Put(Written(w))
    /\ UNCHANGED <<clock, closed, archivedTypes>>

\* The constraint refuses the row, a statement fails, the request times out,
\* or COMMIT takes effect and its answer is lost.
DbFails(w) ==
    /\ pc[w] \in {"begin", "write"}
    /\ Answer(w, page[w])
    /\ \/ pc[w] = "write" /\ ProgressCheck(input[w]) /\ Put(Written(w))
       \/ UNCHANGED row /\ missed' = [missed EXCEPT ![w] = FALSE]
    /\ UNCHANGED <<clock, closed, archivedTypes>>

\* removeCostumeItem and Archive, from any page and without a version.
Archive ==
    /\ InScope /\ Begins
    /\ UNCHANGED <<closed, archivedTypes, page, pc, input>>
    /\ Put([row EXCEPT !.archived = TRUE, !.at = clock'])

\* The production or the actor is archived, for good.
Close == /\ ~closed /\ closed' = TRUE
         /\ UNCHANGED <<clock, row, archivedTypes, page, requests>>

\* A type is archived or restored.
ArchiveType(t) ==
    /\ archivedTypes' = IF t \in archivedTypes THEN archivedTypes \ {t}
                                               ELSE archivedTypes \union {t}
    /\ UNCHANGED <<clock, row, closed, page, requests>>

Next == \/ \E w \in Windows : \/ Open(w) \/ Edit(w) \/ UpdateStatus(w) \/ Workspace(w)
                              \/ Begin(w) \/ Write(w) \/ DbFails(w)
        \/ Archive \/ Close
        \/ \E t \in Types : ArchiveType(t)

Spec == Init /\ [][Next]_vars
-----------------------------------------------------------------------------
(* Properties.                                                             *)

Rows == [type : Types, status : DOMAIN workspaceProgress, progress : 0..100,
         text : Texts, notes : Texts, archived : BOOLEAN, at : Nat]

\* Each variable has its type; what is about to be written is a whole row.
TypeOK ==
    /\ clock \in Nat
    /\ row \in Rows
    /\ closed \in BOOLEAN /\ archivedTypes \subseteq Types
    /\ page \in [Windows -> Rows \union {NoPage}]
    /\ pc \in [Windows -> {"idle", "begin", "write"}]
    /\ input \in [Windows -> Rows \union Fields \union {NoInput}]
    /\ \A w \in Windows : /\ pc[w] = "begin" => input[w] \in Fields
                          /\ pc[w] = "write" => input[w] \in Rows
    /\ missed \in [Windows -> BOOLEAN]

\* updated_at works as a version: a page with the row's updated_at shows the
\* row as it is, although updated_at is the time a transaction began and may
\* go back when it commits late.
StampIdentifies == \A w \in Windows : page[w].at = row.at => page[w] = row

\* No handler sends the database a row that its CHECK would refuse.
FitsCheck == \A w \in Windows : pc[w] = "write" => ProgressCheck(input[w])

\* A form overwrites nothing that it did not show, not even the removal of
\* the item, except what is written while its own request runs.
StaleFormRefused ==
    [][\A w \in Windows : Write(w) => page[w].at = row.at \/ missed[w]]_vars

\* "stale writes return 409": a form that is accepted was rendered from the
\* row that it overwrites.  (Of an item in use; a removed one is not shown.)
NoLostUpdate ==
    [][\A w \in Windows : Write(w) /\ ~row.archived => page[w].at = row.at]_vars
=============================================================================
