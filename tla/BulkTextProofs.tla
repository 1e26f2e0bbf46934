---------------------------- MODULE BulkTextProofs ----------------------------
(***************************************************************************)
(* Theorems about BulkText, for texts of any length over any names.        *)
(*                                                                         *)
(* Parse: the lines that have been read are covered by complete blocks and *)
(* by the block that is being read, and none of them is invalid.  Commit:  *)
(* what it has created is what the preview of the rows up to here called   *)
(* new.                                                                    *)
(***************************************************************************)
EXTENDS BulkText, FiniteSetTheorems, TLAPS

Line == Names \cup {Blank, Invalid}

TypeInv ==
    /\ text \in Seq(Line)
    /\ allowNew \in BOOLEAN /\ valid \in BOOLEAN
    /\ pc \in {"parse", "rejected", "preview", "refused", "commit", "done", "failed"}
    /\ line \in 1..(Len(text) + 1)
    /\ current \in Block /\ blocks \in Seq(Block)

\* A block holds the lines of its run, as far as it goes.
BlockOK(b) ==
    /\ b.start \in Starts /\ b.end >= b.start
    /\ SameRun(b.start, b.end)
    /\ b.actor = text[b.start]
    /\ Len(b.items) = b.end - b.start
    /\ \A i \in DOMAIN b.items : b.items[i] = [type |-> text[b.start + i], line |-> b.start + i]

\* A complete block holds the whole run.
Complete(bs) ==
    \A k \in DOMAIN bs :
        /\ BlockOK(bs[k])
        /\ bs[k].end > bs[k].start /\ bs[k].end + 1 \notin Filled
        /\ bs[k].end < line
        /\ \A j \in DOMAIN bs : j < k => bs[j].end < bs[k].start

CompleteInv == Complete(blocks)

\* The block that is being read goes up to the last line.
CurrentInv ==
    IF current = NoBlock THEN pc = "parse" => line - 1 \notin Filled
    ELSE /\ BlockOK(current) /\ current.end = line - 1
         /\ \A k \in DOMAIN blocks : blocks[k].end < current.start

\* Every line that has been read is in a block, and valid.
CoverInv ==
    \A n \in Filled : n < line =>
        /\ text[n] # Invalid
        /\ \/ current # NoBlock /\ current.start <= n
           \/ \E k \in DOMAIN blocks : blocks[k].start <= n /\ n <= blocks[k].end

\* How it ends.
EndInv ==
    IF pc = "rejected"
    THEN IF Filled = {} THEN fault = 0 ELSE fault \in Faults /\ \A n \in Faults : fault <= n
    ELSE /\ CompleteInv /\ CurrentInv /\ CoverInv
         /\ pc # "parse" => line = Len(text) + 1 /\ current = NoBlock /\ blocks # <<>>

ParseInv == TypeInv /\ EndInv

\* The cursor of Preview is at an item.
CursorInv ==
    /\ pc = "parse" => block = 1 /\ item = 1
    /\ pc = "preview" => /\ block \in 1..(Len(blocks) + 1)
                         /\ block <= Len(blocks) => item \in 1..Len(blocks[block].items)

RowRecord == [actor : Names, type : Names, actorLine : Nat, itemLine : Nat,
              actorState : {"existing", "new"}, typeState : {"known", "new", "unknown"},
              duplicate : BOOLEAN, status : {"error", "duplicate", "new", "ok"}]

\* What Preview says of a row, and Commit has made of it.
RowsInv ==
    /\ rows \in Seq(RowRecord)
    /\ \A n \in DOMAIN rows :
           /\ rows[n].actorState = "new" <=> rows[n].actor \notin actors
           /\ rows[n].typeState = "new" <=> rows[n].type \notin types /\ allowNew
           /\ rows[n].status = "error" <=> rows[n].type \notin types /\ ~allowNew
           /\ rows[n].duplicate <=>
                  \E m \in 1..(n - 1) : rows[m].actor = rows[n].actor /\ rows[m].type = rows[n].type
           /\ valid => rows[n].status # "error"
    /\ pc \in {"commit", "done", "failed"} => valid

CommitInv ==
    /\ pc # "failed"
    /\ row \in 1..(Len(rows) + 1)
    /\ pc \in {"parse", "preview"} => row = 1
    /\ pc = "done" => row = Len(rows) + 1
    /\ Len(items) = row - 1
    /\ \A n \in 1..(row - 1) : items[n] = [actor |-> rows[n].actor, type |-> rows[n].type]
    /\ hired \in Seq(Names) /\ added \in Seq(Names) /\ items \in Seq([actor : Names, type : Names])
    /\ IsInjective(hired) /\ IsInjective(added)
    /\ Range(hired) = {rows[n].actor : n \in {m \in 1..(row - 1) : rows[m].actorState = "new"}}
    /\ Range(added) = {rows[n].type : n \in {m \in 1..(row - 1) : rows[m].typeState = "new"}}

-----------------------------------------------------------------------------
(***************************************************************************)
(* Parse                                                                   *)
(***************************************************************************)
LEMMA LinesAreNumbers == ASSUME TypeInv PROVE Filled \subseteq 1..Len(text) /\ Len(text) \in Nat
  BY DEF TypeInv, Filled

LEMMA InitParse == Init => ParseInv
<1> SUFFICES ASSUME Init PROVE ParseInv
  OBVIOUS
<1>1. text \in Seq(Line)
  BY BulkTextAssumption DEF Init, Line
<1>2. NoBlock \in Block
  BY DEF NoBlock, Block
<1>3. TypeInv
  BY <1>1, <1>2 DEF Init, TypeInv
<1>4. CompleteInv /\ CurrentInv /\ CoverInv
  BY <1>1 DEF Init, CompleteInv, Complete, CurrentInv, CoverInv, Filled
<1> QED BY <1>3, <1>4 DEF ParseInv, EndInv, Init

\* The only fault among the lines that have been read is an actor on the last.
LEMMA NoEarlierFault ==
    ASSUME ParseInv, pc # "rejected", NEW n \in Faults, n < line
    PROVE  current # NoBlock /\ n = current.start /\ current.end = n
<1>1. n \in Filled /\ n \in 1..Len(text) /\ Len(text) \in Nat
  BY LinesAreNumbers DEF ParseInv, Faults
<1>2. n \in Starts /\ n - 1 \notin Filled /\ n + 1 \notin Filled
  BY <1>1 DEF ParseInv, EndInv, CoverInv, Faults, Starts
<1>3. ASSUME NEW s \in Nat, NEW e \in Nat, SameRun(s, e), s <= n, n <= e
      PROVE  s = n /\ e = n
  BY <1>1, <1>2, <1>3 DEF SameRun
<1>4. ~ \E k \in DOMAIN blocks : blocks[k].start <= n /\ n <= blocks[k].end
  <2> SUFFICES ASSUME NEW k \in DOMAIN blocks, blocks[k].start <= n, n <= blocks[k].end
               PROVE  FALSE
    OBVIOUS
  <2>1. blocks[k] \in Block
    BY DEF ParseInv, TypeInv
  <2>2. SameRun(blocks[k].start, blocks[k].end) /\ blocks[k].end > blocks[k].start
    BY DEF ParseInv, EndInv, CompleteInv, Complete, BlockOK
  <2> QED BY <1>3, <2>1, <2>2 DEF Block
<1>5. current # NoBlock /\ current.start <= n
  BY <1>1, <1>4 DEF ParseInv, EndInv, CoverInv
<1>6. SameRun(current.start, current.end) /\ current.end = line - 1 /\ current \in Block
  BY <1>5 DEF ParseInv, EndInv, CurrentInv, BlockOK, TypeInv
<1>7. current.start = n /\ current.end = n
  BY <1>1, <1>3, <1>5, <1>6 DEF Block, ParseInv, TypeInv
<1> QED BY <1>5, <1>7

\* A line that is filled or past the last block ends a block or begins one.
LEMMA RejectBlockStep ==
    ASSUME ParseInv, pc = "parse", RejectBlock, UNCHANGED <<form, preview, commit>>
    PROVE  ParseInv'
<1>1. TypeInv'
  BY DEF ParseInv, TypeInv, RejectBlock, Reject, form, preview
<1>2. Filled' = Filled /\ Faults' = Faults
  BY DEF form, Filled, Faults, Starts
<1>3. current # NoBlock /\ current.items = <<>> /\ BlockOK(current) /\ current.end = line - 1
  BY DEF ParseInv, EndInv, CurrentInv, RejectBlock, Bare
<1>4. current.start \in Nat /\ current.end \in Nat /\ Len(current.items) = 0 /\ line \in Nat
  BY <1>3 DEF ParseInv, TypeInv, Block
<1>5. current.end = current.start /\ line = current.start + 1
  BY <1>3, <1>4 DEF BlockOK
<1>6. line \notin Filled
  BY DEF RejectBlock, BlockEnds, Filled, ParseInv, TypeInv
<1>7. current.start \in Faults
  BY <1>3, <1>5, <1>6 DEF BlockOK, Faults, Starts
<1>8. ASSUME NEW n \in Faults PROVE current.start <= n
  <2>1. n \in Nat
    BY LinesAreNumbers DEF Faults, ParseInv
  <2>2. CASE n < line
    BY <2>2, NoEarlierFault, <1>4
  <2>3. CASE ~(n < line)
    BY <2>1, <2>3, <1>4, <1>5
  <2> QED BY <2>2, <2>3
<1>9. fault' = current.start /\ pc' = "rejected" /\ Filled # {}
  BY <1>7 DEF RejectBlock, Reject, Faults
<1> QED BY <1>1, <1>2, <1>7, <1>8, <1>9 DEF ParseInv, EndInv

LEMMA InvalidLineStep ==
    ASSUME ParseInv, pc = "parse", InvalidLine, UNCHANGED <<form, preview, commit>>
    PROVE  ParseInv'
<1>1. TypeInv'
  BY DEF ParseInv, TypeInv, InvalidLine, Reject, form, preview
<1>2. Filled' = Filled /\ Faults' = Faults
  BY DEF form, Filled, Faults, Starts
<1>3. line \in Filled /\ line \in Faults /\ line \in Nat
  BY BulkTextAssumption DEF InvalidLine, Filled, Faults, ParseInv, TypeInv
<1>4. ASSUME NEW n \in Faults PROVE line <= n
  <2>1. n \in Nat /\ ((n \in Starts /\ n + 1 \notin Filled) \/ text[n] = Invalid)
    BY LinesAreNumbers DEF Faults, ParseInv
  <2> SUFFICES ASSUME n < line PROVE FALSE
    BY <2>1, <1>3
  <2>2. current # NoBlock /\ n = current.start /\ current.end = n
    BY NoEarlierFault
  <2>3. n + 1 = line
    BY <2>1, <2>2, <1>3 DEF ParseInv, EndInv, CurrentInv
  <2>4. text[n] # Invalid
    BY <2>1 DEF ParseInv, EndInv, CoverInv, Faults
  <2> QED BY <2>1, <2>3, <2>4, <1>3
<1>5. fault' = line /\ pc' = "rejected" /\ Filled # {}
  BY <1>3 DEF InvalidLine, Reject
<1> QED BY <1>1, <1>2, <1>3, <1>4, <1>5 DEF ParseInv, EndInv

\* flush completes the block that is being read.
LEMMA FlushCompletes ==
    ASSUME ParseInv, pc = "parse", BlockEnds, ~Bare
    PROVE  /\ Flushed \in Seq(Block) /\ Complete(Flushed)
           /\ \A n \in Filled : n < line =>
                  \E k \in DOMAIN Flushed : Flushed[k].start <= n /\ n <= Flushed[k].end
<1>0. Complete(blocks) /\ CurrentInv /\ CoverInv /\ TypeInv
  BY DEF ParseInv, EndInv, CompleteInv
<1>1. CASE current = NoBlock
  BY <1>0, <1>1 DEF Flushed, CoverInv, TypeInv
<1>2. CASE current # NoBlock
  <2>1. Flushed = Append(blocks, current) /\ blocks \in Seq(Block) /\ current \in Block
    BY <1>0, <1>2 DEF Flushed, TypeInv
  <2>2. /\ DOMAIN Flushed = 1..(Len(blocks) + 1) /\ DOMAIN blocks = 1..Len(blocks)
        /\ Len(blocks) \in Nat
        /\ Flushed[Len(blocks) + 1] = current
        /\ \A k \in DOMAIN blocks : Flushed[k] = blocks[k]
    BY <2>1
  <2>3. BlockOK(current) /\ current.end = line - 1 /\ line \in Nat /\ current.items # <<>>
    BY <1>0, <1>2 DEF CurrentInv, TypeInv, Bare
  <2>4. current.start \in Nat /\ current.end \in Nat /\ Len(current.items) > 0
    BY <2>1, <2>3 DEF Block
  <2>5. line \notin Filled
    BY <1>0 DEF BlockEnds, Filled, TypeInv
  <2>6. current.end > current.start /\ current.end + 1 \notin Filled /\ current.end < line
    BY <2>3, <2>4, <2>5 DEF BlockOK
  <2>7. \A k \in DOMAIN blocks : blocks[k].end < current.start
    BY <1>0, <1>2 DEF CurrentInv
  <2>8. Complete(Flushed)
    <3> SUFFICES ASSUME NEW k \in DOMAIN Flushed
                 PROVE  /\ BlockOK(Flushed[k])
                        /\ Flushed[k].end > Flushed[k].start /\ Flushed[k].end + 1 \notin Filled
                        /\ Flushed[k].end < line
                        /\ \A j \in DOMAIN Flushed : j < k => Flushed[j].end < Flushed[k].start
      BY DEF Complete
    <3>1. CASE k \in DOMAIN blocks
      BY <1>0, <2>2, <3>1 DEF Complete
    <3>2. CASE k = Len(blocks) + 1
      BY <2>2, <2>3, <2>6, <2>7, <3>2
    <3> QED BY <2>2, <3>1, <3>2
  <2>9. ASSUME NEW n \in Filled, n < line
        PROVE  \E k \in DOMAIN Flushed : Flushed[k].start <= n /\ n <= Flushed[k].end
    <3>1. n \in Nat
      BY <1>0, LinesAreNumbers
    <3>2. CASE current.start <= n
      BY <2>2, <2>3, <2>9, <3>1, <3>2
    <3>3. CASE \E k \in DOMAIN blocks : blocks[k].start <= n /\ n <= blocks[k].end
      BY <2>2, <3>3
    <3> QED BY <1>0, <2>9, <3>2, <3>3 DEF CoverInv
  <2> QED BY <2>1, <2>8, <2>9
<1> QED BY <1>1, <1>2

LEMMA BlankLineStep ==
    ASSUME ParseInv, pc = "parse", BlankLine, UNCHANGED <<form, preview, commit>>
    PROVE  ParseInv'
<1>0. Complete(blocks) /\ CoverInv /\ TypeInv
  BY DEF ParseInv, EndInv, CompleteInv
<1>1. BlockEnds /\ ~Bare /\ line \in Nat
  BY <1>0 DEF BlankLine, BlockEnds, TypeInv
<1>2. Filled' = Filled /\ Starts' = Starts /\ text' = text
  BY DEF form, Filled, Starts
<1>3. line' = line + 1 /\ blocks' = Flushed /\ current' = NoBlock /\ pc' = "parse"
  BY DEF BlankLine
<1>4. TypeInv'
  BY <1>0, <1>1, <1>3, FlushCompletes DEF TypeInv, BlankLine, form, preview, NoBlock, Block
<1>5. \A b : BlockOK(b)' <=> BlockOK(b)
  BY <1>2 DEF BlockOK, SameRun
<1>6. CompleteInv'
  <2>1. \A k \in DOMAIN Flushed : Flushed[k] \in Block
    BY <1>1, FlushCompletes
  <2>2. \A k \in DOMAIN Flushed : Flushed[k].end \in Nat
    BY <2>1 DEF Block
  <2>3. ASSUME NEW k \in DOMAIN Flushed
        PROVE  /\ BlockOK(blocks[k])'
               /\ Flushed[k].end > Flushed[k].start /\ Flushed[k].end + 1 \notin Filled
               /\ Flushed[k].end < line + 1
               /\ \A j \in DOMAIN Flushed : j < k => Flushed[j].end < Flushed[k].start
    <3>1. Complete(Flushed)
      BY <1>1, FlushCompletes
    <3>2. BlockOK(Flushed[k]) /\ Flushed[k].end < line
      BY <3>1 DEF Complete
    <3>3. BlockOK(blocks[k])'
      <4>1. blocks'[k] = Flushed[k]
        BY <1>3
      <4> QED BY <1>5, <3>2, <4>1
    <3>4. Flushed[k].end < line + 1
      BY <1>1, <2>2, <3>2
    <3> QED BY <3>1, <3>3, <3>4 DEF Complete
  <2>4. Complete(blocks)'
    BY <1>2, <1>3, <2>3 DEF Complete
  <2> QED BY <2>4 DEF CompleteInv
<1>7. line \notin Filled
  BY DEF BlankLine, Filled
<1>8. CurrentInv'
  BY <1>1, <1>2, <1>3, <1>7 DEF CurrentInv
<1>9. CoverInv'
  <2> SUFFICES ASSUME NEW n \in Filled, n < line + 1
               PROVE  /\ text[n] # Invalid
                      /\ \E k \in DOMAIN Flushed : Flushed[k].start <= n /\ n <= Flushed[k].end
    BY <1>2, <1>3 DEF CoverInv
  <2>1. n < line /\ n \in Nat
    BY <1>0, <1>1, <1>7, LinesAreNumbers
  <2> QED BY <1>0, <1>1, <2>1, FlushCompletes DEF CoverInv
<1> QED BY <1>3, <1>4, <1>6, <1>8, <1>9 DEF ParseInv, EndInv

LEMMA ActorLineStep ==
    ASSUME ParseInv, pc = "parse", ActorLine, UNCHANGED <<form, preview, commit>>
    PROVE  ParseInv'
<1>0. Complete(blocks) /\ CurrentInv /\ CoverInv /\ TypeInv
  BY DEF ParseInv, EndInv, CompleteInv
<1>1. line \in Nat /\ text[line] \in Names /\ current = NoBlock /\ line \in 1..Len(text)
  BY <1>0 DEF ActorLine, TypeInv
<1>2. Filled' = Filled /\ Starts' = Starts /\ text' = text
  BY DEF form, Filled, Starts
<1>3. /\ line' = line + 1 /\ blocks' = blocks /\ pc' = "parse"
      /\ current' = [actor |-> text[line], start |-> line, end |-> line, items |-> <<>>]
  BY DEF ActorLine
<1>4. current' # NoBlock
  BY <1>1, <1>3 DEF NoBlock
<1>5. TypeInv'
  BY <1>0, <1>1, <1>3 DEF TypeInv, ActorLine, form, preview, Block
<1>6. \A b : BlockOK(b)' <=> BlockOK(b)
  BY <1>2 DEF BlockOK, SameRun
<1>7. line \in Starts /\ line \in Filled
  BY <1>0, <1>1, BulkTextAssumption DEF CurrentInv, Starts, Filled, TypeInv, ActorLine
<1>8. \A k \in DOMAIN blocks : blocks[k].end \in Nat /\ blocks[k].end < line
  <2>1. \A k \in DOMAIN blocks : blocks[k] \in Block
    BY <1>0 DEF TypeInv
  <2> QED BY <1>0, <2>1 DEF Complete, Block
<1>9. CompleteInv'
  BY <1>0, <1>1, <1>2, <1>3, <1>6, <1>8 DEF CompleteInv, Complete
<1>10. BlockOK(current')
  BY <1>1, <1>3, <1>7 DEF BlockOK, SameRun
<1>11. CurrentInv'
  <2>1. BlockOK(current)'
    BY <1>2, <1>10 DEF BlockOK, SameRun
  <2> QED BY <1>1, <1>3, <1>4, <1>8, <2>1 DEF CurrentInv
<1>12. CoverInv'
  <2> SUFFICES ASSUME NEW n \in Filled, n < line + 1
               PROVE  /\ text[n] # Invalid
                      /\ \/ line <= n
                         \/ \E k \in DOMAIN blocks : blocks[k].start <= n /\ n <= blocks[k].end
    BY <1>2, <1>3, <1>4 DEF CoverInv
  <2>1. n \in Nat
    BY <1>0, LinesAreNumbers
  <2>2. CASE n < line
    BY <1>0, <1>1, <2>2 DEF CoverInv
  <2>3. CASE n = line
    BY <1>1, <2>3, BulkTextAssumption
  <2> QED BY <1>1, <2>1, <2>2, <2>3
<1> QED BY <1>3, <1>5, <1>9, <1>11, <1>12 DEF ParseInv, EndInv

LEMMA ItemLineStep ==
    ASSUME ParseInv, pc = "parse", ItemLine, UNCHANGED <<form, preview, commit>>
    PROVE  ParseInv'
<1>0. Complete(blocks) /\ CurrentInv /\ CoverInv /\ TypeInv
  BY DEF ParseInv, EndInv, CompleteInv
<1>1. line \in Nat /\ text[line] \in Names /\ current # NoBlock /\ line \in 1..Len(text)
  BY <1>0 DEF ItemLine, TypeInv
<1>2. Filled' = Filled /\ Starts' = Starts /\ text' = text
  BY DEF form, Filled, Starts
<1> DEFINE read == [type |-> text[line], line |-> line]
<1>3. /\ line' = line + 1 /\ blocks' = blocks /\ pc' = "parse"
      /\ current' = [current EXCEPT !.items = Append(@, read), !.end = line]
  BY DEF ItemLine
<1>4. /\ BlockOK(current) /\ current.end = line - 1 /\ current \in Block
      /\ \A k \in DOMAIN blocks : blocks[k].end < current.start
  BY <1>0, <1>1 DEF CurrentInv, TypeInv
<1>5. /\ current.start \in Nat /\ current.end \in Nat /\ current.start > 0
      /\ current.items \in Seq([type : Names, line : Nat])
  BY <1>0, <1>4, LinesAreNumbers DEF Block, BlockOK, Starts
<1>6. /\ current'.start = current.start /\ current'.actor = current.actor
      /\ current'.end = line /\ current'.items = Append(current.items, read)
      /\ current' \in Block
  <2>1. read \in [type : Names, line : Nat]
    BY <1>1
  <2>2. Append(current.items, read) \in Seq([type : Names, line : Nat])
    BY <1>5, <2>1
  <2>3. current' = [actor |-> current.actor, start |-> current.start, end |-> line,
                    items |-> Append(current.items, read)]
    BY <1>3, <1>4 DEF Block
  <2>4. current.actor \in Names \cup {Blank}
    BY <1>4 DEF Block
  <2> HIDE DEF read
  <2> QED BY <1>1, <1>5, <2>2, <2>3, <2>4 DEF Block
<1>7. current' # NoBlock
  BY <1>5, <1>6 DEF NoBlock
<1>8. TypeInv'
  BY <1>0, <1>1, <1>3, <1>6 DEF TypeInv, ItemLine, form, preview
<1>9. \A b : BlockOK(b)' <=> BlockOK(b)
  BY <1>2 DEF BlockOK, SameRun
<1>10. line \in Filled
  BY <1>0, <1>1, BulkTextAssumption DEF Filled, TypeInv
<1>11. BlockOK(current')
  <2>1. SameRun(current.start, line) /\ line >= current.start
    BY <1>1, <1>4, <1>5, <1>10 DEF BlockOK, SameRun
  <2>2. Len(current.items) = line - 1 - current.start /\ Len(current'.items) = line - current.start
    <3>1. Len(current.items) = line - 1 - current.start
      BY <1>4 DEF BlockOK
    <3>2. Len(Append(current.items, read)) = Len(current.items) + 1
      BY <1>5
    <3>3. Len(current'.items) = Len(current.items) + 1
      BY <1>6, <3>2
    <3> HIDE DEF read
    <3> QED BY <1>1, <1>5, <3>1, <3>3
  <2>3. ASSUME NEW i \in DOMAIN current'.items
        PROVE  current'.items[i] = [type |-> text[current.start + i], line |-> current.start + i]
    <3>1. DOMAIN current'.items = 1..(Len(current.items) + 1) /\ DOMAIN current.items = 1..Len(current.items)
      BY <1>5, <1>6
    <3>2. CASE i \in DOMAIN current.items
      BY <1>4, <1>5, <1>6, <3>1, <3>2 DEF BlockOK
    <3>3. CASE i = Len(current.items) + 1
      BY <1>1, <1>5, <1>6, <2>2, <3>3
    <3> QED BY <3>1, <3>2, <3>3
  <2> QED BY <1>4, <1>6, <2>1, <2>2, <2>3 DEF BlockOK
<1>12. \A k \in DOMAIN blocks : blocks[k].end \in Nat /\ blocks[k].end < line
  <2>1. \A k \in DOMAIN blocks : blocks[k] \in Block
    BY <1>0 DEF TypeInv
  <2> QED BY <1>0, <2>1 DEF Complete, Block
<1>13. CompleteInv'
  BY <1>0, <1>1, <1>2, <1>3, <1>9, <1>12 DEF CompleteInv, Complete
<1>14. CurrentInv'
  <2>1. BlockOK(current)'
    BY <1>2, <1>11 DEF BlockOK, SameRun
  <2> QED BY <1>1, <1>3, <1>4, <1>6, <1>7, <2>1 DEF CurrentInv
<1>15. CoverInv'
  <2> SUFFICES ASSUME NEW n \in Filled, n < line + 1
               PROVE  /\ text[n] # Invalid
                      /\ \/ current.start <= n
                         \/ \E k \in DOMAIN blocks : blocks[k].start <= n /\ n <= blocks[k].end
    BY <1>2, <1>3, <1>6, <1>7 DEF CoverInv
  <2>1. n \in Nat
    BY <1>0, LinesAreNumbers
  <2>2. CASE n < line
    BY <1>0, <1>1, <2>2 DEF CoverInv
  <2>3. CASE n = line
    BY <1>1, <1>4, <1>5, <2>3, BulkTextAssumption DEF BlockOK
  <2> QED BY <1>1, <2>1, <2>2, <2>3
<1> QED BY <1>3, <1>8, <1>13, <1>14, <1>15 DEF ParseInv, EndInv

LEMMA EndOfTextStep ==
    ASSUME ParseInv, pc = "parse", EndOfText, UNCHANGED <<form, preview, commit>>
    PROVE  ParseInv'
<1>0. Complete(blocks) /\ CoverInv /\ TypeInv
  BY DEF ParseInv, EndInv, CompleteInv
<1>1. BlockEnds /\ ~Bare /\ line = Len(text) + 1
  BY <1>0 DEF EndOfText, BlockEnds, TypeInv
<1>2. Filled' = Filled /\ Starts' = Starts /\ text' = text /\ Faults' = Faults
  BY DEF form, Filled, Starts, Faults
<1>3. \A n \in Filled : n \in Nat /\ n < line
  BY <1>0, <1>1, LinesAreNumbers
<1>4. CASE Flushed = <<>>
  <2>1. pc' = "rejected" /\ fault' = 0 /\ UNCHANGED <<line, current, blocks>>
    BY <1>4 DEF EndOfText, Reject
  <2>2. Filled = {}
    BY <1>1, <1>3, <1>4, FlushCompletes
  <2>3. TypeInv'
    BY <1>0, <2>1 DEF TypeInv, form, preview
  <2> QED BY <1>2, <2>1, <2>2, <2>3 DEF ParseInv, EndInv
<1>5. CASE Flushed # <<>>
  <2>1. pc' = "preview" /\ blocks' = Flushed /\ current' = NoBlock /\ line' = line
    BY <1>5 DEF EndOfText
  <2>2. TypeInv'
    BY <1>0, <1>1, <2>1, FlushCompletes DEF TypeInv, form, preview, NoBlock, Block
  <2>3. \A b : BlockOK(b)' <=> BlockOK(b)
    BY <1>2 DEF BlockOK, SameRun
  <2>4. CompleteInv'
    BY <1>1, <1>2, <2>1, <2>3, FlushCompletes DEF CompleteInv, Complete
  <2>5. CurrentInv'
    BY <2>1 DEF CurrentInv
  <2>6. CoverInv'
    BY <1>0, <1>1, <1>2, <1>3, <2>1, FlushCompletes DEF CoverInv
  <2>7. line' = Len(text') + 1 /\ blocks' # <<>>
    BY <1>1, <1>2, <1>5, <2>1
  <2> QED BY <2>1, <2>2, <2>4, <2>5, <2>6, <2>7 DEF ParseInv, EndInv
<1> QED BY <1>4, <1>5

LEMMA NextParse == ParseInv /\ [Next]_vars => ParseInv'
<1> SUFFICES ASSUME ParseInv, [Next]_vars PROVE ParseInv'
  OBVIOUS
<1>1. CASE Parse
  BY <1>1, RejectBlockStep, BlankLineStep, InvalidLineStep, ActorLineStep, ItemLineStep, EndOfTextStep
  DEF Parse
<1>2. ASSUME UNCHANGED <<form, parser>>, pc' = pc \/ (pc \notin {"parse", "rejected"} /\ pc' \notin {"parse", "rejected"}),
             valid' \in BOOLEAN,
             pc' \in {"parse", "rejected", "preview", "refused", "commit", "done", "failed"}
      PROVE  ParseInv'
  <2>1. TypeInv'
    BY <1>2 DEF ParseInv, TypeInv, form, parser
  <2>2. Filled' = Filled /\ Starts' = Starts /\ text' = text /\ Faults' = Faults
    BY <1>2 DEF form, Filled, Starts, Faults
  <2>3. \A b : BlockOK(b)' <=> BlockOK(b)
    BY <2>2 DEF BlockOK, SameRun
  <2>4. EndInv'
    BY <1>2, <2>2, <2>3 DEF ParseInv, EndInv, CompleteInv, Complete, CurrentInv, CoverInv, form, parser
  <2> QED BY <2>1, <2>4 DEF ParseInv
<1>3. CASE PreviewRow
  BY <1>2, <1>3 DEF PreviewRow, ParseInv, TypeInv
<1>4. CASE PreviewEnds
  BY <1>2, <1>4 DEF PreviewEnds, preview, ParseInv, TypeInv
<1>5. CASE CommitRow
  BY <1>2, <1>5 DEF CommitRow, preview, ParseInv, TypeInv
<1>6. CASE Commit
  BY <1>2, <1>6 DEF Commit, preview, ParseInv, TypeInv
<1>7. CASE UNCHANGED vars
  BY <1>2, <1>7 DEF vars, preview, ParseInv, TypeInv
<1> QED BY <1>1, <1>3, <1>4, <1>5, <1>6, <1>7 DEF Next

LEMMA ParseIsInvariant == Spec => []ParseInv
  BY InitParse, NextParse, PTL DEF Spec

\* Whatever the text, the first fault is the one that is reported.
THEOREM FirstFaultIsReported == Spec => []FirstFaultReported
<1>1. ParseInv => FirstFaultReported
  <2> SUFFICES ASSUME ParseInv, pc \notin {"parse", "rejected"}
               PROVE  Filled # {} /\ Faults = {}
    BY DEF FirstFaultReported, ParseInv, EndInv
  <2>1. blocks # <<>> /\ blocks \in Seq(Block) /\ Complete(blocks) /\ current = NoBlock /\ line = Len(text) + 1
    BY DEF ParseInv, EndInv, CompleteInv, TypeInv
  <2>2. blocks[1].start \in Filled
    BY <2>1 DEF Complete, BlockOK, Starts
  <2>3. ASSUME NEW n \in Faults PROVE FALSE
    BY <2>1, NoEarlierFault, LinesAreNumbers DEF Faults, ParseInv
  <2> QED BY <2>2, <2>3
<1> QED BY <1>1, ParseIsInvariant, PTL

\* Whatever the text, an accepted one has become its runs.
THEOREM TextBecomesRuns == Spec => []BlocksAreRuns
<1>1. ParseInv => BlocksAreRuns
  <2> SUFFICES ASSUME ParseInv, pc \notin {"parse", "rejected"} PROVE BlocksAreRuns
    BY DEF BlocksAreRuns
  <2>1. /\ Complete(blocks) /\ CoverInv /\ blocks \in Seq(Block) /\ current = NoBlock
        /\ line = Len(text) + 1 /\ TypeInv
    BY DEF ParseInv, EndInv, CompleteInv, TypeInv
  <2>2. ASSUME NEW n \in Starts PROVE \E k \in DOMAIN blocks : blocks[k].start = n
    <3>1. n \in Filled /\ n \in Nat /\ n < line /\ n - 1 \notin Filled
      BY <2>1, LinesAreNumbers DEF Starts
    <3>2. PICK k \in DOMAIN blocks : blocks[k].start <= n /\ n <= blocks[k].end
      BY <2>1, <3>1 DEF CoverInv
    <3>3. blocks[k] \in Block
      BY <2>1
    <3>4. SameRun(blocks[k].start, blocks[k].end) /\ blocks[k].start \in Nat /\ blocks[k].end \in Nat
      BY <2>1, <3>3 DEF Complete, BlockOK, Block
    <3> QED BY <3>1, <3>2, <3>4 DEF SameRun
  <2>3. {blocks[k].start : k \in DOMAIN blocks} = Starts
    BY <2>1, <2>2 DEF Complete, BlockOK
  <2> QED BY <2>1, <2>3 DEF BlocksAreRuns, Complete, BlockOK
<1> QED BY <1>1, ParseIsInvariant, PTL

-----------------------------------------------------------------------------
(***************************************************************************)
(* Preview and Commit                                                      *)
(***************************************************************************)
PreviewInv == ParseInv /\ CursorInv /\ RowsInv

LEMMA AppendAddsToRange ==
    ASSUME NEW S, NEW s \in Seq(S), NEW x \in S
    PROVE  /\ Range(Append(s, x)) = Range(s) \cup {x}
           /\ IsInjective(s) /\ x \notin Range(s) => IsInjective(Append(s, x))
<1> DEFINE t == Append(s, x)
<1>1. /\ DOMAIN t = 1..(Len(s) + 1) /\ DOMAIN s = 1..Len(s) /\ Len(s) \in Nat
      /\ t[Len(s) + 1] = x /\ \A k \in DOMAIN s : t[k] = s[k]
  OBVIOUS
<1> HIDE DEF t
<1>2. Range(t) = Range(s) \cup {x}
  BY <1>1 DEF Range
<1>3. ASSUME IsInjective(s), x \notin Range(s) PROVE IsInjective(t)
  BY <1>1, <1>3 DEF Range, IsInjective
<1> QED BY <1>2, <1>3 DEF t

\* The names of a block, and of its items.
LEMMA BlocksHaveNames ==
    ASSUME ParseInv, pc = "preview", NEW k \in DOMAIN blocks
    PROVE  /\ blocks[k].actor \in Names /\ blocks[k].start \in Nat
           /\ Len(blocks[k].items) \in Nat \ {0}
           /\ \A i \in 1..Len(blocks[k].items) :
                  blocks[k].items[i].type \in Names /\ blocks[k].items[i].line \in Nat
<1>1. blocks[k] \in Block /\ TypeInv
  BY DEF ParseInv, TypeInv
<1>2. BlockOK(blocks[k]) /\ blocks[k].end > blocks[k].start /\ CoverInv /\ line = Len(text) + 1
  BY DEF ParseInv, EndInv, CompleteInv, Complete
<1>3. blocks[k].start \in Filled /\ blocks[k].actor = text[blocks[k].start]
  BY <1>2 DEF BlockOK, Starts
<1>4. text[blocks[k].start] \notin {Blank, Invalid}
  BY <1>1, <1>2, <1>3, LinesAreNumbers DEF CoverInv, Filled
<1>5. blocks[k].actor \in Names
  BY <1>1, <1>3, <1>4 DEF TypeInv, Line, Filled
<1> QED BY <1>1, <1>2, <1>5 DEF Block, BlockOK

LEMMA InitPreview == Init => PreviewInv /\ CommitInv
<1> SUFFICES ASSUME Init PROVE PreviewInv /\ CommitInv
  OBVIOUS
<1>1. CursorInv /\ RowsInv
  BY DEF Init, CursorInv, RowsInv
<1>2. CommitInv
  BY DEF Init, CommitInv, Range, IsInjective
<1> QED BY <1>1, <1>2, InitParse DEF PreviewInv

LEMMA PreviewRowStep ==
    ASSUME PreviewInv, ParseInv', PreviewRow
    PROVE  PreviewInv'
<1> DEFINE b == blocks[block]
           i == b.items[item]
           r == Row(b, i)
<1>1. pc = "preview" /\ block \in DOMAIN blocks /\ item \in 1..Len(b.items) /\ blocks \in Seq(Block)
  BY DEF PreviewInv, ParseInv, TypeInv, CursorInv, PreviewRow
<1>2. b.actor \in Names /\ b.start \in Nat /\ i.type \in Names /\ i.line \in Nat /\ Len(b.items) \in Nat
  BY <1>1, BlocksHaveNames DEF PreviewInv
<1>3. rows' = Append(rows, r) /\ valid' = (valid /\ r.status # "error")
  BY DEF PreviewRow
<1>4. pc' = pc /\ blocks' = blocks /\ UNCHANGED form
  BY DEF PreviewRow, parser
<1>5. CursorInv'
  <2>1. CASE item < Len(b.items)
    BY <1>1, <1>2, <1>4, <2>1 DEF PreviewRow, CursorInv
  <2>2. CASE ~(item < Len(b.items))
    <3>1. block' = block + 1 /\ item' = 1
      BY <2>2 DEF PreviewRow
    <3>2. \A k \in DOMAIN blocks : Len(blocks[k].items) \in Nat \ {0}
      BY <1>1, BlocksHaveNames DEF PreviewInv
    <3> QED BY <1>1, <1>4, <3>1, <3>2 DEF CursorInv
  <2> QED BY <2>1, <2>2
<1>6. /\ r.actor = b.actor /\ r.type = i.type
      /\ r.actorState = "new" <=> b.actor \notin actors
      /\ r.typeState = "new" <=> i.type \notin types /\ allowNew
      /\ r.status = "error" <=> i.type \notin types /\ ~allowNew
      /\ r.duplicate <=> \E n \in DOMAIN rows : rows[n].actor = b.actor /\ rows[n].type = i.type
  BY DEF Row
<1>7. r \in RowRecord
  BY <1>2 DEF Row, RowRecord
<1> HIDE DEF r, b, i
<1>8. RowsInv'
  <2>1. RowsInv
    BY DEF PreviewInv
  <2>2. /\ DOMAIN rows' = 1..(Len(rows) + 1) /\ DOMAIN rows = 1..Len(rows) /\ Len(rows) \in Nat
        /\ rows'[Len(rows) + 1] = r /\ \A n \in DOMAIN rows : rows'[n] = rows[n]
    BY <1>3, <1>7, <2>1 DEF RowsInv
  <2>3. actors' = actors /\ types' = types /\ allowNew' = allowNew
    BY <1>4 DEF form
  <2>4. ASSUME NEW n \in DOMAIN rows'
        PROVE  /\ rows'[n].actorState = "new" <=> rows'[n].actor \notin actors
               /\ rows'[n].typeState = "new" <=> rows'[n].type \notin types /\ allowNew
               /\ rows'[n].status = "error" <=> rows'[n].type \notin types /\ ~allowNew
               /\ rows'[n].duplicate <=>
                      \E m \in 1..(n - 1) : rows'[m].actor = rows'[n].actor /\ rows'[m].type = rows'[n].type
               /\ valid' => rows'[n].status # "error"
    <3>1. CASE n \in DOMAIN rows
      <4>1. rows'[n] = rows[n] /\ \A m \in 1..(n - 1) : rows'[m] = rows[m]
        BY <2>2, <3>1
      <4>2. valid' => valid
        BY <1>3
      <4>3. /\ rows[n].actorState = "new" <=> rows[n].actor \notin actors
            /\ rows[n].typeState = "new" <=> rows[n].type \notin types /\ allowNew
            /\ rows[n].status = "error" <=> rows[n].type \notin types /\ ~allowNew
            /\ rows[n].duplicate <=>
                   \E m \in 1..(n - 1) : rows[m].actor = rows[n].actor /\ rows[m].type = rows[n].type
            /\ valid => rows[n].status # "error"
        BY <2>1, <3>1, Zenon DEF RowsInv
      <4> QED BY <4>1, <4>2, <4>3, Zenon
    <3>2. CASE n = Len(rows) + 1
      <4>1. rows'[n] = r /\ 1..(n - 1) = DOMAIN rows /\ \A m \in 1..(n - 1) : rows'[m] = rows[m]
        BY <2>2, <3>2
      <4>2. valid' => r.status # "error"
        BY <1>3
      <4>3. (\E m \in 1..(n - 1) : rows'[m].actor = r.actor /\ rows'[m].type = r.type)
                <=> \E m \in DOMAIN rows : rows[m].actor = b.actor /\ rows[m].type = i.type
        BY <1>6, <4>1
      <4> QED BY <1>6, <4>1, <4>2, <4>3, Zenon
    <3> QED BY <2>2, <3>1, <3>2
  <2>5. rows' \in Seq(RowRecord)
    BY <1>3, <1>7, <2>1 DEF RowsInv
  <2> QED BY <1>1, <1>4, <2>3, <2>4, <2>5 DEF RowsInv
<1> QED BY <1>5, <1>8 DEF PreviewInv

LEMMA NextPreview == PreviewInv /\ [Next]_vars => PreviewInv'
<1> SUFFICES ASSUME PreviewInv, [Next]_vars PROVE PreviewInv'
  OBVIOUS
<1>0. ParseInv' /\ ParseInv
  BY NextParse DEF PreviewInv
<1>1. CASE Parse
  <2>1. UNCHANGED form /\ UNCHANGED preview /\ pc = "parse"
    BY <1>1 DEF Parse
  <2>2. pc' \in {"parse", "rejected", "preview"}
    BY <1>1 DEF Parse, RejectBlock, Reject, BlankLine, InvalidLine, ActorLine, ItemLine, EndOfText
  <2>3. block' = 1 /\ item' = 1
    BY <2>1 DEF preview, PreviewInv, CursorInv
  <2>4. pc' = "preview" => blocks' \in Seq(Block) /\ blocks' # <<>> /\ Len(blocks'[1].items) \in Nat \ {0}
    <3> SUFFICES ASSUME pc' = "preview" PROVE blocks' \in Seq(Block) /\ blocks' # <<>> /\ Len(blocks'[1].items) \in Nat \ {0}
      OBVIOUS
    <3>1. blocks' \in Seq(Block) /\ blocks' # <<>> /\ Complete(blocks)'
      BY <1>0 DEF ParseInv, TypeInv, EndInv, CompleteInv
    <3>2. 1 \in DOMAIN blocks' /\ blocks'[1] \in Block
      BY <3>1
    <3>3. Len(blocks'[1].items) = blocks'[1].end - blocks'[1].start /\ blocks'[1].end > blocks'[1].start
      BY <3>1, <3>2 DEF Complete, BlockOK
    <3> QED BY <3>1, <3>2, <3>3 DEF Block
  <2>5. CursorInv'
    BY <2>2, <2>3, <2>4 DEF CursorInv
  <2>6. RowsInv'
    BY <2>1, <2>2 DEF PreviewInv, RowsInv, form, preview
  <2> QED BY <1>0, <2>5, <2>6 DEF PreviewInv
<1>2. CASE PreviewRow
  BY <1>0, <1>2, PreviewRowStep
<1>3. CASE PreviewEnds
  BY <1>0, <1>3 DEF PreviewEnds, PreviewInv, CursorInv, RowsInv, form, preview, parser
<1>4. CASE CommitRow
  BY <1>0, <1>4 DEF CommitRow, PreviewInv, CursorInv, RowsInv, form, preview, parser
<1>5. CASE Commit
  BY <1>0, <1>5 DEF Commit, PreviewInv, CursorInv, RowsInv, form, preview, parser
<1>6. CASE UNCHANGED vars
  BY <1>0, <1>6 DEF vars, PreviewInv, CursorInv, RowsInv, form, preview, parser
<1> QED BY <1>1, <1>2, <1>3, <1>4, <1>5, <1>6 DEF Next

\* What the rows before row n call new.
NewActors(n) == {rows[k].actor : k \in {m \in 1..(n - 1) : rows[m].actorState = "new"}}
NewTypes(n) == {rows[k].type : k \in {m \in 1..(n - 1) : rows[m].typeState = "new"}}

\* A row of a valid preview is committed, and what it calls new is created once.
LEMMA CommitRowStep ==
    ASSUME PreviewInv, CommitInv, CommitRow
    PROVE  CommitInv'
<1> DEFINE r == rows[row]
<1>1. pc = "commit" /\ row \in 1..Len(rows) /\ row \in DOMAIN rows /\ Len(rows) \in Nat
  BY DEF CommitRow, CommitInv, PreviewInv, RowsInv
<1>2. /\ r.actor \in Names /\ r.type \in Names
      /\ r.actorState = "new" <=> r.actor \notin actors
      /\ r.typeState = "new" <=> r.type \notin types /\ allowNew
      /\ r.type \in types \/ allowNew
  <2>1. /\ r.actor \in Names /\ r.type \in Names
    <3>1. r \in RowRecord
      BY <1>1 DEF PreviewInv, RowsInv
    <3> QED BY <3>1 DEF RowRecord
  <2>2. valid /\ (valid => r.status # "error")
    BY <1>1, Zenon DEF PreviewInv, RowsInv
  <2>3. /\ r.actorState = "new" <=> r.actor \notin actors
        /\ r.typeState = "new" <=> r.type \notin types /\ allowNew
        /\ r.status = "error" <=> r.type \notin types /\ ~allowNew
    BY <1>1, Zenon DEF PreviewInv, RowsInv
  <2> QED BY <2>1, <2>2, <2>3, Zenon
<1>3. /\ hired' = IF r.actor \in KnownActors THEN hired ELSE Append(hired, r.actor)
      /\ added' = IF r.type \in KnownTypes THEN added ELSE Append(added, r.type)
      /\ items' = Append(items, [actor |-> r.actor, type |-> r.type])
      /\ row' = row + 1 /\ pc' = pc /\ rows' = rows
  BY <1>2, Zenon DEF CommitRow, KnownTypes, preview
<1>4. /\ hired \in Seq(Names) /\ added \in Seq(Names) /\ items \in Seq([actor : Names, type : Names])
      /\ IsInjective(hired) /\ IsInjective(added)
      /\ Range(hired) = NewActors(row) /\ Range(added) = NewTypes(row)
      /\ Len(items) = row - 1
      /\ \A n \in 1..(row - 1) : items[n] = [actor |-> rows[n].actor, type |-> rows[n].type]
  BY DEF CommitInv, NewActors, NewTypes
<1>5. /\ NewActors(row + 1) = NewActors(row) \cup (IF r.actorState = "new" THEN {r.actor} ELSE {})
      /\ NewTypes(row + 1) = NewTypes(row) \cup (IF r.typeState = "new" THEN {r.type} ELSE {})
  <2>1. 1..((row + 1) - 1) = (1..(row - 1)) \cup {row}
    BY <1>1
  <2> QED BY <2>1 DEF NewActors, NewTypes
<1> HIDE DEF r
<1>6. hired' \in Seq(Names) /\ IsInjective(hired') /\ Range(hired') = NewActors(row + 1)
  <2>1. CASE r.actor \in KnownActors
    <3>1. hired' = hired
      BY <1>3, <2>1
    <3>2. r.actorState = "new" => r.actor \in Range(hired)
      BY <1>2, <2>1 DEF KnownActors
    <3>3. NewActors(row + 1) = NewActors(row)
      BY <1>4, <1>5, <3>2
    <3> QED BY <1>4, <3>1, <3>3
  <2>2. CASE r.actor \notin KnownActors
    <3>1. r.actorState = "new" /\ r.actor \notin Range(hired) /\ hired' = Append(hired, r.actor)
      BY <1>2, <1>3, <2>2 DEF KnownActors
    <3>2. Append(hired, r.actor) \in Seq(Names)
      BY <1>2, <1>4
    <3>3. /\ Range(Append(hired, r.actor)) = Range(hired) \cup {r.actor}
          /\ IsInjective(Append(hired, r.actor))
      BY <1>2, <1>4, <3>1, AppendAddsToRange
    <3> QED BY <1>4, <1>5, <3>1, <3>2, <3>3
  <2> QED BY <2>1, <2>2
<1>7. added' \in Seq(Names) /\ IsInjective(added') /\ Range(added') = NewTypes(row + 1)
  <2>1. CASE r.type \in KnownTypes
    <3>1. added' = added
      BY <1>3, <2>1
    <3>2. r.typeState = "new" => r.type \in Range(added)
      BY <1>2, <2>1 DEF KnownTypes
    <3>3. NewTypes(row + 1) = NewTypes(row)
      BY <1>4, <1>5, <3>2
    <3> QED BY <1>4, <3>1, <3>3
  <2>2. CASE r.type \notin KnownTypes
    <3>1. r.typeState = "new" /\ r.type \notin Range(added) /\ added' = Append(added, r.type)
      BY <1>2, <1>3, <2>2 DEF KnownTypes
    <3>2. Append(added, r.type) \in Seq(Names)
      BY <1>2, <1>4
    <3>3. /\ Range(Append(added, r.type)) = Range(added) \cup {r.type}
          /\ IsInjective(Append(added, r.type))
      BY <1>2, <1>4, <3>1, AppendAddsToRange
    <3> QED BY <1>4, <1>5, <3>1, <3>2, <3>3
  <2> QED BY <2>1, <2>2
<1>8. /\ items' \in Seq([actor : Names, type : Names]) /\ Len(items') = (row + 1) - 1
      /\ \A n \in 1..((row + 1) - 1) : items'[n] = [actor |-> rows[n].actor, type |-> rows[n].type]
  <2>1. [actor |-> r.actor, type |-> r.type] \in [actor : Names, type : Names]
    BY <1>2
  <2>2. /\ items' \in Seq([actor : Names, type : Names]) /\ Len(items') = Len(items) + 1
        /\ items'[Len(items) + 1] = [actor |-> r.actor, type |-> r.type]
        /\ \A n \in 1..Len(items) : items'[n] = items[n]
    BY <1>3, <1>4, <2>1
  <2>3. ASSUME NEW n \in 1..((row + 1) - 1)
        PROVE  items'[n] = [actor |-> rows[n].actor, type |-> rows[n].type]
    <3>1. CASE n = row
      BY <1>1, <1>4, <2>2, <3>1 DEF r
    <3>2. CASE n # row
      <4>1. n \in 1..(row - 1) /\ n \in 1..Len(items)
        BY <1>1, <1>4, <3>2
      <4> QED BY <1>4, <2>2, <4>1
    <3> QED BY <3>1, <3>2
  <2> QED BY <1>1, <1>4, <2>2, <2>3
<1>9. row' \in 1..(Len(rows') + 1) /\ pc' = "commit"
  BY <1>1, <1>3
<1> QED BY <1>3, <1>6, <1>7, <1>8, <1>9 DEF CommitInv, NewActors, NewTypes

LEMMA NextCommit == PreviewInv /\ CommitInv /\ [Next]_vars => CommitInv'
<1> SUFFICES ASSUME PreviewInv, CommitInv, [Next]_vars PROVE CommitInv'
  OBVIOUS
<1>1. CASE Parse
  <2>1. UNCHANGED preview /\ UNCHANGED commit /\ pc = "parse"
    BY <1>1 DEF Parse
  <2>2. pc' \in {"parse", "rejected", "preview"}
    BY <1>1 DEF Parse, RejectBlock, Reject, BlankLine, InvalidLine, ActorLine, ItemLine, EndOfText
  <2> QED BY <2>1, <2>2 DEF CommitInv, preview, commit
<1>2. CASE PreviewRow
  <2>1. pc = "preview" /\ pc' = pc /\ UNCHANGED commit /\ row = 1
    BY <1>2 DEF PreviewRow, CommitInv
  <2>2. Len(rows') \in Nat /\ 1..(row - 1) = {}
    BY <2>1, NextPreview DEF PreviewInv, RowsInv
  <2> QED BY <2>1, <2>2 DEF CommitInv, commit
<1>3. CASE PreviewEnds
  BY <1>3 DEF PreviewEnds, CommitInv, preview, commit
<1>4. CASE CommitRow
  BY <1>4, CommitRowStep
<1>5. CASE Commit
  <2>1. pc = "commit" /\ pc' = "done" /\ UNCHANGED preview /\ UNCHANGED commit
    BY <1>5 DEF Commit
  <2>2. row = Len(rows) + 1
    <3>1. row \in 1..(Len(rows) + 1) /\ row > Len(rows)
      BY <1>5 DEF Commit, CommitInv
    <3>2. Len(rows) \in Nat
      BY DEF PreviewInv, RowsInv
    <3> QED BY <3>1, <3>2
  <2> QED BY <2>1, <2>2 DEF CommitInv, preview, commit
<1>6. CASE UNCHANGED vars
  <2>1. UNCHANGED pc /\ UNCHANGED preview /\ UNCHANGED commit
    BY <1>6 DEF vars
  <2>2. /\ pc' = pc /\ rows' = rows /\ row' = row
        /\ hired' = hired /\ added' = added /\ items' = items
    BY <2>1 DEF preview, commit
  <2>3. (IsInjective(hired) /\ IsInjective(added))'
    BY <2>2 DEF CommitInv
  <2>4. /\ Range(hired') = {rows'[n].actor : n \in {m \in 1..(row' - 1) : rows'[m].actorState = "new"}}
        /\ Range(added') = {rows'[n].type : n \in {m \in 1..(row' - 1) : rows'[m].typeState = "new"}}
    BY <2>2 DEF CommitInv
  <2>5. \A n \in 1..(row' - 1) : items'[n] = [actor |-> rows'[n].actor, type |-> rows'[n].type]
    BY <2>2 DEF CommitInv
  <2> QED BY <2>2, <2>3, <2>4, <2>5 DEF CommitInv
<1> QED BY <1>1, <1>2, <1>3, <1>4, <1>5, <1>6 DEF Next

LEMMA CommitIsInvariant == Spec => [](PreviewInv /\ CommitInv)
<1>1. PreviewInv /\ CommitInv /\ [Next]_vars => (PreviewInv /\ CommitInv)'
  BY NextPreview, NextCommit
<1> QED BY <1>1, InitPreview, PTL DEF Spec

\* Whatever the text, what the preview says of it is what the import does.
THEOREM PreviewIsForetelling == Spec => []PreviewForetells
<1>1. PreviewInv /\ CommitInv => PreviewForetells
  <2> SUFFICES ASSUME PreviewInv, CommitInv, pc = "done"
               PROVE  PreviewForetells
    BY DEF PreviewForetells, CommitInv
  <2>1. DOMAIN rows = 1..Len(rows) /\ row = Len(rows) + 1 /\ Len(rows) \in Nat /\ 1..(row - 1) = DOMAIN rows
    BY DEF PreviewInv, RowsInv, CommitInv
  <2>2. ASSUME NEW n \in DOMAIN rows
        PROVE  rows[n].duplicate <=> \E m \in 1..(n - 1) : items[m] = items[n]
    <3>1. \A m \in 1..(n - 1) : m \in 1..(row - 1)
      BY <2>1
    <3>2. \A m \in 1..(n - 1) : items[m] = items[n] <=>
                                   rows[m].actor = rows[n].actor /\ rows[m].type = rows[n].type
      <4>1. \A m \in 1..(row - 1) : items[m] = [actor |-> rows[m].actor, type |-> rows[m].type]
        BY DEF CommitInv
      <4>2. n \in 1..(row - 1)
        BY <2>1
      <4> SUFFICES ASSUME NEW m \in 1..(n - 1)
                   PROVE  items[m] = items[n] <=>
                              rows[m].actor = rows[n].actor /\ rows[m].type = rows[n].type
        OBVIOUS
      <4>3. /\ items[m] = [actor |-> rows[m].actor, type |-> rows[m].type]
            /\ items[n] = [actor |-> rows[n].actor, type |-> rows[n].type]
        BY <3>1, <4>1, <4>2
      <4> QED BY <4>3
    <3>3. rows[n].duplicate <=>
              \E m \in 1..(n - 1) : rows[m].actor = rows[n].actor /\ rows[m].type = rows[n].type
      BY Zenon DEF PreviewInv, RowsInv
    <3> QED BY <3>2, <3>3, Zenon
  <2> QED BY <2>1, <2>2 DEF PreviewForetells, CommitInv
<1> QED BY <1>1, CommitIsInvariant, PTL

-----------------------------------------------------------------------------
(***************************************************************************)
(* The rows follow the text: the preview has a row for each item line      *)
(* before its cursor, so that the place of a line among the item lines is  *)
(* the place of its row, and later of its item.                            *)
(***************************************************************************)
Cursor == IF block <= Len(blocks) THEN blocks[block].start + item ELSE Len(text) + 1

LinesBefore(n) == {m \in ItemLines : m < n}
LinesTo(n) == {m \in ItemLines : m <= n}

Follows ==
    /\ Len(rows) = Cardinality(LinesBefore(Cursor))
    /\ \A n \in LinesBefore(Cursor), s \in Starts :
           s < n /\ SameRun(s, n) =>
               /\ rows[Cardinality(LinesTo(n))].actor = text[s]
               /\ rows[Cardinality(LinesTo(n))].type = text[n]

FollowInv ==
    /\ pc = "parse" => block = 1 /\ item = 1 /\ rows = <<>>
    /\ pc \notin {"parse", "rejected"} => (block = 1 /\ item = 1 /\ rows = <<>>) \/ Follows
    /\ pc \in {"refused", "commit", "done", "failed"} => block = Len(blocks) + 1

LEMMA LinesAreFinite ==
    ASSUME TypeInv, NEW S \in SUBSET ItemLines
    PROVE  IsFiniteSet(S) /\ Cardinality(S) \in Nat
<1>1. S \in SUBSET (1..Len(text)) /\ IsFiniteSet(1..Len(text))
  BY LinesAreNumbers, FS_Interval DEF ItemLines
<1> QED BY <1>1, FS_Subset, FS_CardinalityType

\* Every item line of an accepted text is in a block, after its first line.
LEMMA ItemLineInBlock ==
    ASSUME ParseInv, pc \notin {"parse", "rejected"}, NEW n \in ItemLines
    PROVE  \E k \in DOMAIN blocks : blocks[k].start < n /\ n <= blocks[k].end
<1>1. n \in Filled /\ n \in 1..Len(text) /\ Len(text) \in Nat /\ line = Len(text) + 1 /\ current = NoBlock
  BY LinesAreNumbers DEF ParseInv, EndInv, ItemLines
<1>2. PICK k \in DOMAIN blocks : blocks[k].start <= n /\ n <= blocks[k].end
  BY <1>1 DEF ParseInv, EndInv, CoverInv
<1>3. blocks[k] \in Block /\ blocks[k].start \in Starts
  BY DEF ParseInv, TypeInv, EndInv, CompleteInv, Complete, BlockOK
<1>4. blocks[k].start # n /\ blocks[k].start \in Nat
  BY <1>3 DEF ItemLines, Block
<1> QED BY <1>1, <1>2, <1>4

\* What is known of a block of an accepted text.
LEMMA BlockFacts ==
    ASSUME ParseInv, pc \notin {"parse", "rejected"}, NEW k \in DOMAIN blocks
    PROVE  /\ blocks[k].start \in Nat /\ blocks[k].end \in Nat
           /\ blocks[k].start \in Starts /\ blocks[k].start < blocks[k].end
           /\ SameRun(blocks[k].start, blocks[k].end)
           /\ Len(blocks[k].items) = blocks[k].end - blocks[k].start
           /\ blocks[k].actor = text[blocks[k].start]
           /\ \A i \in 1..Len(blocks[k].items) : blocks[k].items[i].type = text[blocks[k].start + i]
           /\ \A j \in DOMAIN blocks : j < k => blocks[j].end < blocks[k].start
<1>1. blocks[k] \in Block
  BY DEF ParseInv, TypeInv
<1>2. Complete(blocks)
  BY DEF ParseInv, EndInv, CompleteInv
<1>3. BlockOK(blocks[k])
  BY <1>2 DEF Complete
<1>4. blocks[k].items \in Seq([type : Names, line : Nat])
  BY <1>1 DEF Block
<1>5. DOMAIN blocks[k].items = 1..Len(blocks[k].items)
  BY <1>4
<1>6. blocks[k].start \in Nat /\ blocks[k].end \in Nat
  BY <1>1 DEF Block
<1>7. ASSUME NEW i \in 1..Len(blocks[k].items)
      PROVE  blocks[k].items[i].type = text[blocks[k].start + i]
  <2>1. blocks[k].items[i] = [type |-> text[blocks[k].start + i], line |-> blocks[k].start + i]
    BY <1>3, <1>5 DEF BlockOK
  <2> QED BY <2>1
<1>8. blocks[k].start < blocks[k].end /\ \A j \in DOMAIN blocks : j < k => blocks[j].end < blocks[k].start
  BY <1>2 DEF Complete
<1> QED BY <1>3, <1>6, <1>7, <1>8 DEF BlockOK

\* Before the first item of the first block there is no item line.
LEMMA FollowNow ==
    ASSUME ParseInv, FollowInv, pc \notin {"parse", "rejected"}
    PROVE  Follows
<1> SUFFICES ASSUME block = 1, item = 1, rows = <<>> PROVE Follows
  BY DEF FollowInv
<1>1. blocks \in Seq(Block) /\ blocks # <<>>
  BY DEF ParseInv, EndInv, TypeInv
<1>2. 1 \in DOMAIN blocks /\ Cursor = blocks[1].start + 1
  BY <1>1 DEF Cursor
<1>3. ASSUME NEW n \in ItemLines, n < Cursor PROVE FALSE
  <2>1. PICK k \in DOMAIN blocks : blocks[k].start < n /\ n <= blocks[k].end
    BY ItemLineInBlock
  <2>2. /\ blocks[k].start \in Nat /\ blocks[1].start \in Nat /\ blocks[1].end \in Nat
        /\ blocks[1].start < blocks[1].end
        /\ 1 < k => blocks[1].end < blocks[k].start
    BY <1>2, BlockFacts
  <2>3. k \in Nat /\ k >= 1 /\ n \in Nat
    BY <1>1, LinesAreNumbers DEF ItemLines, ParseInv
  <2> QED BY <1>2, <1>3, <2>1, <2>2, <2>3
<1>4. LinesBefore(Cursor) = {}
  BY <1>3 DEF LinesBefore
<1> QED BY <1>4, FS_EmptySet DEF Follows

\* Numbers up to one of them.
LEMMA UpTo ==
    ASSUME NEW L \in SUBSET Nat, NEW c \in L
    PROVE  /\ {m \in L : m <= c} = {m \in L : m < c} \cup {c}
           /\ \A n \in L : n < c => {m \in L : m <= n} \subseteq {m \in L : m < c}
<1>1. c \in Nat /\ \A m \in L : m \in Nat
  OBVIOUS
<1>2. \A m \in L : m <= c <=> m < c \/ m = c
  BY <1>1
<1>3. \A m, n \in L : m <= n /\ n < c => m < c
  BY <1>1
<1> QED BY <1>2, <1>3

\* The cursor is on an item line, and moves to the next one.
LEMMA CursorMoves ==
    ASSUME PreviewInv, PreviewRow
    PROVE  /\ Cursor \in ItemLines
           /\ \A n \in ItemLines : n < Cursor' <=> n <= Cursor
<1> DEFINE b == blocks[block]
<1>1. /\ pc = "preview" /\ block \in DOMAIN blocks /\ block \in Nat
      /\ item \in 1..Len(b.items) /\ blocks \in Seq(Block)
      /\ ParseInv /\ blocks' = blocks /\ text' = text
  BY DEF PreviewInv, ParseInv, TypeInv, CursorInv, PreviewRow, parser, form
<1>2. /\ b.start \in Nat /\ b.end \in Nat /\ SameRun(b.start, b.end) /\ b.start < b.end
      /\ Len(b.items) = b.end - b.start
  BY <1>1, BlockFacts
<1>3. Cursor = b.start + item /\ Cursor \in (b.start + 1)..b.end
  <2>1. item \in 1..(b.end - b.start) /\ block <= Len(blocks)
    BY <1>1, <1>2
  <2>2. Cursor = b.start + item
    BY <2>1 DEF Cursor
  <2> QED BY <1>2, <2>1, <2>2
<1>4. Cursor \in ItemLines
  <2>1. Cursor \in Filled /\ Cursor - 1 \in Filled
    BY <1>2, <1>3 DEF SameRun
  <2> QED BY <2>1 DEF ItemLines, Starts
<1>5. ASSUME NEW n \in ItemLines PROVE n < Cursor' <=> n <= Cursor
  <2>1. n \in Nat /\ n <= Len(text) /\ Len(text) \in Nat
    BY <1>1, LinesAreNumbers DEF ItemLines, ParseInv
  <2>2. CASE item < Len(b.items)
    <3>1. block' = block /\ item' = item + 1
      BY <2>2 DEF PreviewRow
    <3>2. Cursor' = b.start + (item + 1)
      <4>1. block' <= Len(blocks') /\ blocks'[block'] = b
        BY <1>1, <3>1
      <4> QED BY <3>1, <4>1 DEF Cursor
    <3>3. Cursor' = Cursor + 1 /\ Cursor \in Nat
      <4>1. item \in Nat
        BY <1>1, <1>2
      <4> HIDE DEF b
      <4> QED BY <1>2, <1>3, <3>2, <4>1
    <3> QED BY <2>1, <3>3
  <2>3. CASE ~(item < Len(b.items))
    <3>1. block' = block + 1 /\ item' = 1 /\ Cursor = b.end
      BY <1>1, <1>2, <1>3, <2>3 DEF PreviewRow
    <3>2. PICK k \in DOMAIN blocks : blocks[k].start < n /\ n <= blocks[k].end
      BY <1>1, ItemLineInBlock
    <3>3. k \in Nat /\ 1 <= k /\ k <= Len(blocks) /\ Len(blocks) \in Nat
      BY <1>1
    <3>4. /\ blocks[k].start \in Nat /\ blocks[k].end \in Nat
          /\ k < block => blocks[k].end < b.start
          /\ block < k => b.end < blocks[k].start
      BY <1>1, BlockFacts
    <3>5. n <= Cursor <=> k <= block
      <4>1. k < block => n <= Cursor
        BY <1>2, <2>1, <3>1, <3>2, <3>4
      <4>2. k = block => n <= Cursor
        BY <3>1, <3>2
      <4>3. block < k => ~(n <= Cursor)
        BY <1>2, <2>1, <3>1, <3>2, <3>4
      <4> QED BY <1>1, <3>3, <4>1, <4>2, <4>3
    <3>6. CASE block = Len(blocks)
      <4>1. Cursor' = Len(text) + 1
        BY <1>1, <3>1, <3>3, <3>6 DEF Cursor
      <4> QED BY <2>1, <3>3, <3>5, <3>6, <4>1
    <3>7. CASE block < Len(blocks)
      <4>1. block + 1 \in DOMAIN blocks
        BY <1>1, <3>3, <3>7
      <4>2. /\ blocks[block + 1].start \in Nat /\ b.end < blocks[block + 1].start
            /\ blocks[block + 1].start < blocks[block + 1].end /\ blocks[block + 1].end \in Nat
            /\ block + 1 < k => blocks[block + 1].end < blocks[k].start
        <5>1. /\ blocks[block + 1].start \in Nat /\ blocks[block + 1].end \in Nat
              /\ blocks[block + 1].start < blocks[block + 1].end
              /\ \A j \in DOMAIN blocks : j < block + 1 => blocks[j].end < blocks[block + 1].start
          BY <1>1, <4>1, BlockFacts
        <5>2. \A j \in DOMAIN blocks : j < k => blocks[j].end < blocks[k].start
          BY <1>1, BlockFacts
        <5>3. block < block + 1
          BY <1>1
        <5> QED BY <1>1, <4>1, <5>1, <5>2, <5>3
      <4>3. Cursor' = blocks[block + 1].start + 1
        BY <1>1, <3>1, <3>3, <3>7 DEF Cursor
      <4>4. k <= block => n < Cursor'
        BY <1>2, <2>1, <3>1, <3>5, <4>2, <4>3
      <4>5. k > block => ~(n < Cursor')
        <5>1. CASE k = block + 1
          BY <2>1, <3>2, <4>2, <4>3, <5>1
        <5>2. CASE k > block + 1
          BY <2>1, <3>2, <3>4, <4>2, <4>3, <5>2
        <5> QED BY <1>1, <3>3, <5>1, <5>2
      <4> QED BY <1>1, <3>3, <3>5, <4>4, <4>5
    <3> QED BY <1>1, <3>3, <3>6, <3>7
  <2> QED BY <2>2, <2>3
<1> QED BY <1>4, <1>5

\* A new row is that of the item line at the cursor.
LEMMA FollowRow ==
    ASSUME PreviewInv, PreviewInv', Follows, PreviewRow
    PROVE  Follows'
<1> DEFINE b == blocks[block]
           c == Cursor
           r == Row(b, b.items[item])
<1>1. /\ pc = "preview" /\ block \in DOMAIN blocks /\ item \in 1..Len(b.items)
      /\ blocks \in Seq(Block) /\ ParseInv /\ TypeInv /\ text' = text
      /\ rows \in Seq(RowRecord) /\ rows' = Append(rows, r) /\ rows' \in Seq(RowRecord)
  <2>1. /\ pc = "preview" /\ block \in 1..(Len(blocks) + 1) /\ block <= Len(blocks)
        /\ item \in 1..Len(b.items) /\ rows' = Append(rows, r) /\ text' = text
    BY DEF PreviewInv, CursorInv, PreviewRow, form
  <2>2. ParseInv /\ TypeInv /\ blocks \in Seq(Block) /\ rows \in Seq(RowRecord) /\ rows' \in Seq(RowRecord)
    BY DEF PreviewInv, ParseInv, TypeInv, RowsInv
  <2>3. block \in DOMAIN blocks
    BY <2>1, <2>2
  <2> QED BY <2>1, <2>2, <2>3
<1>2. /\ b.start \in Nat /\ b.end \in Nat /\ b.start \in Starts /\ SameRun(b.start, b.end)
      /\ Len(b.items) = b.end - b.start /\ b.start < b.end
      /\ b.actor = text[b.start] /\ b.items[item].type = text[b.start + item]
  BY <1>1, BlockFacts
<1>3. c = b.start + item /\ c \in (b.start + 1)..b.end
  <2>1. item \in 1..(b.end - b.start) /\ block <= Len(blocks)
    BY <1>1, <1>2
  <2>2. c = b.start + item
    BY <2>1 DEF Cursor
  <2> QED BY <1>2, <2>1, <2>2
<1>4. r.actor = text[b.start] /\ r.type = text[c]
  BY <1>2, <1>3 DEF Row
<1>5. c \in ItemLines /\ \A n \in ItemLines : n < Cursor' <=> n <= c
  BY CursorMoves
<1>6. /\ ItemLines' = ItemLines /\ Starts' = Starts
      /\ \A s, n : SameRun(s, n)' = SameRun(s, n)
      /\ \A n : LinesTo(n)' = LinesTo(n)
  BY <1>1 DEF ItemLines, Starts, Filled, SameRun, LinesTo
<1>7. ItemLines \subseteq Nat
  BY <1>1, LinesAreNumbers DEF ItemLines
<1>8. LinesBefore(Cursor)' = LinesBefore(c) \cup {c} /\ c \notin LinesBefore(c) /\ c \in Nat
  <2>1. LinesBefore(Cursor)' = {m \in ItemLines : m < Cursor'}
    BY <1>6 DEF LinesBefore
  <2>2. c \in Nat /\ {m \in ItemLines : m <= c} = {m \in ItemLines : m < c} \cup {c}
    BY <1>5, <1>7, UpTo
  <2>3. {m \in ItemLines : m < Cursor'} = {m \in ItemLines : m <= c}
    BY <1>5
  <2>4. LinesBefore(c) = {m \in ItemLines : m < c}
    BY DEF LinesBefore
  <2>5. ~(c < c)
    BY <2>2
  <2> HIDE DEF c
  <2> QED BY <2>1, <2>2, <2>3, <2>4, <2>5
<1>9. IsFiniteSet(LinesBefore(c)) /\ Cardinality(LinesBefore(c)) = Len(rows) /\ Len(rows) \in Nat
  BY <1>1, LinesAreFinite DEF LinesBefore, Follows
<1>10. Cardinality(LinesBefore(c) \cup {c}) = Len(rows) + 1
  BY <1>8, <1>9, FS_AddElement
<1>11. /\ Len(rows') = Len(rows) + 1 /\ rows'[Len(rows) + 1] = r
       /\ \A k \in 1..Len(rows) : rows'[k] = rows[k]
  BY <1>1
<1> HIDE DEF c, r, b
<1>12. ASSUME NEW n \in LinesBefore(c) \cup {c}, NEW s \in Starts, s < n, SameRun(s, n)
       PROVE  /\ rows'[Cardinality(LinesTo(n))].actor = text[s]
              /\ rows'[Cardinality(LinesTo(n))].type = text[n]
  <2>1. CASE n \in LinesBefore(c)
    <3>1. LinesTo(n) \in SUBSET LinesBefore(c) /\ n \in LinesTo(n)
      <4>1. n \in ItemLines /\ n < c /\ n \in Nat
        BY <1>7, <2>1 DEF LinesBefore
      <4>2. {m \in ItemLines : m <= n} \subseteq {m \in ItemLines : m < c}
        BY <1>5, <1>7, <4>1, UpTo
      <4> QED BY <4>1, <4>2 DEF LinesBefore, LinesTo
    <3>2. /\ IsFiniteSet(LinesTo(n)) /\ Cardinality(LinesTo(n)) \in Nat
          /\ Cardinality(LinesTo(n)) <= Len(rows)
      BY <1>9, <3>1, FS_Subset, FS_CardinalityType
    <3>3. Cardinality(LinesTo(n)) # 0
      BY <3>1, <3>2, FS_EmptySet
    <3>4. Cardinality(LinesTo(n)) \in 1..Len(rows)
      BY <1>9, <3>2, <3>3
    <3>5. /\ rows[Cardinality(LinesTo(n))].actor = text[s]
          /\ rows[Cardinality(LinesTo(n))].type = text[n]
      BY <1>12, <2>1 DEF Follows, c
    <3> QED BY <1>11, <3>4, <3>5
  <2>2. CASE n = c
    <3>1. LinesTo(n) = LinesBefore(c) \cup {c}
      BY <1>5, <1>7, <2>2, UpTo DEF LinesBefore, LinesTo
    <3>2. s \in Nat
      BY <1>1, LinesAreNumbers DEF Starts
    <3>3. s < b.start => b.start - 1 \in s..c
      BY <1>2, <1>3, <1>8, <3>2
    <3>4. b.start < s => s - 1 \in b.start..b.end
      BY <1>2, <1>3, <1>8, <1>12, <2>2, <3>2
    <3>6. b.start - 1 \notin Filled /\ s - 1 \notin Filled
      BY <1>2 DEF Starts
    <3>7. ~(s < b.start) /\ ~(b.start < s)
      BY <1>2, <1>12, <2>2, <3>3, <3>4, <3>6 DEF SameRun
    <3>5. s = b.start
      BY <1>2, <3>2, <3>7
    <3> QED BY <1>4, <1>10, <1>11, <2>2, <3>1, <3>5
  <2> QED BY <2>1, <2>2
<1> QED BY <1>1, <1>6, <1>8, <1>10, <1>11, <1>12 DEF Follows

LEMMA FollowNext == PreviewInv /\ PreviewInv' /\ FollowInv /\ [Next]_vars => FollowInv'
<1> SUFFICES ASSUME PreviewInv, PreviewInv', FollowInv, [Next]_vars PROVE FollowInv'
  OBVIOUS
<1>1. CASE Parse
  <2>1. UNCHANGED preview /\ pc = "parse"
    BY <1>1 DEF Parse
  <2>2. pc' \in {"parse", "rejected", "preview"}
    BY <1>1 DEF Parse, RejectBlock, Reject, BlankLine, InvalidLine, ActorLine, ItemLine, EndOfText
  <2> QED BY <2>1, <2>2 DEF FollowInv, preview
<1>2. CASE PreviewRow
  <2>1. pc = "preview" /\ pc' = pc
    BY <1>2 DEF PreviewRow
  <2>2. Follows
    BY <2>1, FollowNow DEF PreviewInv
  <2>3. Follows'
    BY <1>2, <2>2, FollowRow
  <2> QED BY <2>1, <2>3 DEF FollowInv
<1>3. CASE PreviewEnds
  <2>1. /\ pc = "preview" /\ pc' \in {"commit", "refused"}
        /\ UNCHANGED <<text, block, item, rows, blocks>> /\ block > Len(blocks)
    BY <1>3 DEF PreviewEnds, form, parser, preview
  <2>2. block' = Len(blocks') + 1
    <3>1. blocks \in Seq(Block) /\ block \in 1..(Len(blocks) + 1)
      BY <2>1 DEF PreviewInv, ParseInv, TypeInv, CursorInv
    <3> QED BY <2>1, <3>1
  <2>3. Follows' = Follows
    BY <2>1 DEF Follows, Cursor, LinesBefore, LinesTo, ItemLines, Starts, Filled, SameRun
  <2> QED BY <2>1, <2>2, <2>3 DEF FollowInv
<1>4. CASE CommitRow \/ Commit \/ UNCHANGED vars
  <2>1. /\ UNCHANGED <<text, block, item, rows, blocks>>
        /\ pc' = pc \/ (pc = "commit" /\ pc' \in {"failed", "done"})
    BY <1>4 DEF CommitRow, Commit, vars, form, parser, preview
  <2>2. Follows' = Follows
    BY <2>1 DEF Follows, Cursor, LinesBefore, LinesTo, ItemLines, Starts, Filled, SameRun
  <2> QED BY <2>1, <2>2 DEF FollowInv
<1> QED BY <1>1, <1>2, <1>3, <1>4 DEF Next

LEMMA FollowIsInvariant == Spec => []FollowInv
<1>1. Init => FollowInv
  BY DEF Init, FollowInv
<1>2. (PreviewInv /\ CommitInv) /\ (PreviewInv /\ CommitInv)' /\ FollowInv /\ [Next]_vars => FollowInv'
  BY FollowNext
<1> QED BY <1>1, <1>2, CommitIsInvariant, PTL DEF Spec

\* Whatever the text, an import creates one item for each line that names a
\* type, in the order of the lines and for the actor of their run.
THEOREM ItemsAreLines == Spec => []ItemsFollowText
<1>1. PreviewInv /\ CommitInv /\ FollowInv => ItemsFollowText
  <2> SUFFICES ASSUME PreviewInv, CommitInv, FollowInv, pc = "done"
               PROVE  ItemsFollowText
    BY DEF ItemsFollowText
  <2>1. /\ Follows /\ TypeInv /\ blocks \in Seq(Block) /\ block = Len(blocks) + 1
        /\ Len(items) = Len(rows) /\ Len(rows) \in Nat
        /\ \A n \in 1..Len(rows) : items[n] = [actor |-> rows[n].actor, type |-> rows[n].type]
    BY FollowNow DEF PreviewInv, ParseInv, TypeInv, FollowInv, CommitInv, RowsInv
  <2>2. Cursor = Len(text) + 1
    BY <2>1 DEF Cursor
  <2>3. LinesBefore(Cursor) = ItemLines /\ ItemLines \subseteq Nat
    BY <2>1, <2>2, LinesAreNumbers DEF LinesBefore, ItemLines
  <2>4. Len(rows) = Cardinality(ItemLines)
    BY <2>1, <2>3 DEF Follows
  <2>5. ASSUME NEW n \in ItemLines, NEW s \in Starts, s < n, SameRun(s, n)
        PROVE  items[Cardinality(LinesTo(n))] = [actor |-> text[s], type |-> text[n]]
    <3>1. LinesTo(n) \in SUBSET ItemLines /\ n \in LinesTo(n)
      BY <2>3 DEF LinesTo
    <3>2. IsFiniteSet(LinesTo(n)) /\ Cardinality(LinesTo(n)) \in Nat /\ IsFiniteSet(ItemLines)
      BY <2>1, <3>1, LinesAreFinite
    <3>3. Cardinality(LinesTo(n)) <= Len(rows) /\ Cardinality(LinesTo(n)) # 0
      BY <2>4, <3>1, <3>2, FS_Subset, FS_EmptySet
    <3>4. Cardinality(LinesTo(n)) \in 1..Len(rows)
      BY <2>1, <3>2, <3>3
    <3>5. /\ rows[Cardinality(LinesTo(n))].actor = text[s]
          /\ rows[Cardinality(LinesTo(n))].type = text[n]
      BY <2>1, <2>3, <2>5 DEF Follows
    <3> QED BY <2>1, <3>4, <3>5
  <2> QED BY <2>1, <2>4, <2>5 DEF ItemsFollowText, LinesTo
<1> QED BY <1>1, CommitIsInvariant, FollowIsInvariant, PTL
=============================================================================
