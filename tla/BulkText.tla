------------------------------ MODULE BulkText ------------------------------
(***************************************************************************)
(* A pasted bulk import, from its text to the items it creates: Parse      *)
(* (internal/bulk/import.go) makes blocks of lines, Preview and Commit     *)
(* (internal/storage/bulk_import.go) make rows of blocks and items of      *)
(* rows.  Nobody else writes meanwhile: what happens when others do is     *)
(* the subject of BulkImport.                                              *)
(*                                                                         *)
(* A text is the sequence of its lines, split at line ends of any kind and *)
(* trimmed: a line is blank, or not valid UTF-8, or a name.  A name stands *)
(* for all its spellings.                                                  *)
(***************************************************************************)
EXTENDS Integers, Sequences, FiniteSets, Functions

CONSTANTS
    Names,         \* names of actors and of item types
    Blank,         \* a line without any text
    Invalid,       \* a line that is not valid UTF-8
    MaxLines       \* bound: lines of a text

ASSUME BulkTextAssumption ==
    /\ Blank \notin Names /\ Invalid \notin Names /\ Blank # Invalid
    /\ MaxLines \in Nat \ {0}

VARIABLES
    text, allowNew,        \* the form: its text and the box for new types
    actors, types,         \* names of the production's actors and types
    pc,
    \* Parse
    line,                  \* the next line
    current,               \* the block that is being read, or NoBlock
    blocks,
    fault,                 \* the line an error names, 0 for an empty text
    \* Preview
    block, item,           \* the next item: index of its block, and in its block
    rows, valid,
    \* Commit
    row,                   \* the next row
    hired, added,          \* actors and types it has created, in order
    items                  \* items it has created

form   == <<text, allowNew, actors, types>>
parser == <<line, current, blocks, fault>>
preview == <<block, item, rows, valid>>
commit == <<row, hired, added, items>>
vars == <<form, pc, parser, preview, commit>>

NoBlock == [actor |-> Blank, start |-> 0, end |-> 0, items |-> <<>>]
Block == [actor : Names \cup {Blank}, start : Nat, end : Nat,
          items : Seq([type : Names, line : Nat])]

Init ==
    /\ text \in UNION {[1..n -> Names \cup {Blank, Invalid}] : n \in 1..MaxLines}
    /\ allowNew \in BOOLEAN
    /\ actors \in SUBSET Names /\ types \in SUBSET Names
    /\ pc = "parse"
    /\ line = 1 /\ current = NoBlock /\ blocks = <<>> /\ fault = 0
    /\ block = 1 /\ item = 1 /\ rows = <<>> /\ valid = TRUE
    /\ row = 1 /\ hired = <<>> /\ added = <<>> /\ items = <<>>

-----------------------------------------------------------------------------
(***************************************************************************)
(* Parse                                                                   *)
(***************************************************************************)
\* At a blank line, and at the end of the text, the block is complete.
BlockEnds == line <= Len(text) => text[line] = Blank

\* Seeded bug: a block without an item type is not looked for.
BareNever == FALSE

\* An actor without an item type.
Bare == current # NoBlock /\ current.items = <<>>

\* flush
Flushed == IF current = NoBlock THEN blocks ELSE Append(blocks, current)

Reject(n) ==
    /\ pc' = "rejected" /\ fault' = n
    /\ UNCHANGED <<line, current, blocks>>

RejectBlock == BlockEnds /\ Bare /\ Reject(current.start)

\* Seeded bug: the block is kept open.
BlankLineKeeps ==
    /\ line <= Len(text) /\ text[line] = Blank /\ ~Bare
    /\ line' = line + 1
    /\ UNCHANGED <<pc, current, blocks, fault>>

BlankLine ==
    /\ line <= Len(text) /\ text[line] = Blank /\ ~Bare
    /\ blocks' = Flushed /\ current' = NoBlock
    /\ line' = line + 1
    /\ UNCHANGED <<pc, fault>>

InvalidLine == line <= Len(text) /\ text[line] = Invalid /\ Reject(line)

ActorLine ==
    /\ line <= Len(text) /\ text[line] \in Names /\ current = NoBlock
    /\ current' = [actor |-> text[line], start |-> line, end |-> line, items |-> <<>>]
    /\ line' = line + 1
    /\ UNCHANGED <<pc, blocks, fault>>

ItemLine ==
    /\ line <= Len(text) /\ text[line] \in Names /\ current # NoBlock
    /\ current' = [current EXCEPT !.items = Append(@, [type |-> text[line], line |-> line]),
                                  !.end = line]
    /\ line' = line + 1
    /\ UNCHANGED <<pc, blocks, fault>>

EndOfText ==
    /\ line > Len(text) /\ ~Bare
    /\ IF Flushed = <<>> THEN Reject(0)
       ELSE /\ pc' = "preview" /\ blocks' = Flushed /\ current' = NoBlock
            /\ UNCHANGED <<line, fault>>

Parse ==
    /\ pc = "parse"
    /\ RejectBlock \/ BlankLine \/ InvalidLine \/ ActorLine \/ ItemLine \/ EndOfText
    /\ UNCHANGED <<form, preview, commit>>

-----------------------------------------------------------------------------
(***************************************************************************)
(* Preview and Commit                                                      *)
(***************************************************************************)
\* What the preview says of an item, given the rows before it.
Row(b, i) ==
    LET a == b.actor
        t == i.type
        state == IF t \in types THEN "known" ELSE IF allowNew THEN "new" ELSE "unknown"
        twice == \E n \in DOMAIN rows : rows[n].actor = a /\ rows[n].type = t
    IN  [actor |-> a, type |-> t, actorLine |-> b.start, itemLine |-> i.line,
         actorState |-> IF a \in actors THEN "existing" ELSE "new",
         typeState  |-> state,
         duplicate  |-> twice,
         status     |-> IF state = "unknown" THEN "error"
                        ELSE IF twice THEN "duplicate"
                        ELSE IF a \notin actors \/ state = "new" THEN "new" ELSE "ok"]

PreviewRow ==
    /\ pc = "preview" /\ block <= Len(blocks)
    /\ LET b == blocks[block]
           r == Row(b, b.items[item])
       IN  /\ rows' = Append(rows, r)
           /\ valid' = (valid /\ r.status # "error")
           /\ IF item < Len(b.items) THEN item' = item + 1 /\ UNCHANGED block
              ELSE block' = block + 1 /\ item' = 1
    /\ UNCHANGED <<form, pc, parser, commit>>

\* Only a valid preview gets a token to commit it with.
PreviewEnds ==
    /\ pc = "preview" /\ block > Len(blocks)
    /\ pc' = IF valid THEN "commit" ELSE "refused"
    /\ UNCHANGED <<form, parser, preview, commit>>

\* actorByName
KnownActors == actors \cup Range(hired)

\* Seeded bug: the types the import has created are not remembered.
KnownTypesBefore == types

\* typeByName
KnownTypes == types \cup Range(added)

\* Seeded bug: one item for each pair of names.
CommitRowOnce ==
    /\ pc = "commit" /\ row <= Len(rows)
    /\ row' = row + 1
    /\ hired' = IF rows[row].actor \in KnownActors THEN hired ELSE Append(hired, rows[row].actor)
    /\ added' = IF rows[row].type \in KnownTypes THEN added ELSE Append(added, rows[row].type)
    /\ items' = IF rows[row].duplicate THEN items
                ELSE Append(items, [actor |-> rows[row].actor, type |-> rows[row].type])
    /\ UNCHANGED <<form, pc, parser, preview>>

CommitRow ==
    /\ pc = "commit" /\ row <= Len(rows)
    /\ LET r == rows[row]
       IN  IF r.type \notin KnownTypes /\ ~allowNew
           THEN pc' = "failed" /\ UNCHANGED commit
           ELSE /\ hired' = IF r.actor \in KnownActors THEN hired ELSE Append(hired, r.actor)
                /\ added' = IF r.type \in KnownTypes THEN added ELSE Append(added, r.type)
                /\ items' = Append(items, [actor |-> r.actor, type |-> r.type])
                /\ row' = row + 1
                /\ UNCHANGED pc
    /\ UNCHANGED <<form, parser, preview>>

Commit ==
    /\ pc = "commit" /\ row > Len(rows)
    /\ pc' = "done"
    /\ UNCHANGED <<form, parser, preview, commit>>

Next == Parse \/ PreviewRow \/ PreviewEnds \/ CommitRow \/ Commit

Spec == Init /\ [][Next]_vars

-----------------------------------------------------------------------------
(***************************************************************************)
(* What a text means: its maximal runs of lines that are not blank.        *)
(***************************************************************************)
Filled == {n \in DOMAIN text : text[n] # Blank}

\* The lines a run begins with.
Starts == {n \in Filled : n - 1 \notin Filled}

\* Lines that are at fault: no UTF-8, or an actor on its own.
Faults == {n \in Filled : text[n] = Invalid \/ (n \in Starts /\ n + 1 \notin Filled)}

\* Lines n and m are of one run.
SameRun(n, m) == n..m \subseteq Filled

\* The error names the first line that is at fault, and no line when the text
\* is empty; without a fault there is no error. (Parse and flush.)
FirstFaultReported ==
    /\ pc = "rejected" =>
           IF Filled = {} THEN fault = 0
           ELSE fault \in Faults /\ \A n \in Faults : fault <= n
    /\ pc \notin {"parse", "rejected"} => Filled # {} /\ Faults = {}

\* A text that is accepted has become its runs, in order and with their line
\* numbers: a line is in the block whose run it is in, the first line as the
\* actor and the others as the item types. (Parse.)
BlocksAreRuns ==
    pc \notin {"parse", "rejected"} =>
        /\ {blocks[k].start : k \in DOMAIN blocks} = Starts
        /\ \A k \in DOMAIN blocks :
               LET b == blocks[k]
               IN  /\ b.actor = text[b.start]
                   /\ b.end > b.start /\ SameRun(b.start, b.end) /\ b.end + 1 \notin Filled
                   /\ Len(b.items) = b.end - b.start
                   /\ \A i \in DOMAIN b.items :
                          b.items[i] = [type |-> text[b.start + i], line |-> b.start + i]
                   /\ \A j \in DOMAIN blocks : j < k => blocks[j].end < b.start

ItemLines == Filled \ Starts

\* An import creates an item for every line that names a type, in the order of
\* the text, for the actor its run begins with. (Preview and Commit.)
ItemsFollowText ==
    pc = "done" =>
        /\ Len(items) = Cardinality(ItemLines)
        /\ \A n \in ItemLines, s \in Starts :
               s < n /\ SameRun(s, n) =>
                   items[Cardinality({m \in ItemLines : m <= n})] =
                       [actor |-> text[s], type |-> text[n]]

\* A valid preview is committed, and what it calls new is what is created, each
\* name once however often the text has it; what it flags are the pairs that
\* the text repeats. (The states of Preview, and the maps of Commit.)
PreviewForetells ==
    /\ pc # "failed"
    /\ pc = "done" =>
           /\ IsInjective(hired) /\ IsInjective(added)
           /\ Range(hired) = {rows[n].actor : n \in {m \in DOMAIN rows : rows[m].actorState = "new"}}
           /\ Range(added) = {rows[n].type : n \in {m \in DOMAIN rows : rows[m].typeState = "new"}}
           /\ \A n \in DOMAIN rows :
                  rows[n].duplicate <=> \E m \in 1..(n - 1) : items[m] = items[n]
=============================================================================
