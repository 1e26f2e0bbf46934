---------------------------- MODULE ScreensProofs ----------------------------
(***************************************************************************)
(* Theorems about Screens, for any number of actors, types, statuses,      *)
(* items and writes.                                                       *)
(*                                                                         *)
(* A query's result is described by a set of items: Of(as), the live items *)
(* of the active actors in as, and OfType(t), those that the summary knows *)
(* of.  Figures gives the counts of such a set, and SumOfParts adds up the *)
(* counts of its parts.  For the search, an item has a position in its     *)
(* list, the positions fill an interval, and so a page with an item behind *)
(* it is full.                                                             *)
(***************************************************************************)
EXTENDS Screens, FiniteSetTheorems, TLAPS

-----------------------------------------------------------------------------
(***************************************************************************)
(* Counting                                                                *)
(***************************************************************************)
\* Two sets have the same size when a function pairs them off.
LEMMA SameSize ==
    ASSUME NEW S, IsFiniteSet(S), NEW T, NEW f \in [S -> T],
           \A x, y \in S : f[x] = f[y] => x = y,
           \A z \in T : \E x \in S : f[x] = z
    PROVE  IsFiniteSet(T) /\ Cardinality(T) = Cardinality(S)
<1>1. f \in Bijection(S, T)
  BY DEF Bijection, Injection, Surjection, IsInjective
<1> QED BY <1>1, FS_Bijection DEF ExistsBijection

\* A finite set that falls into disjoint parts is as large as its parts together.
LEMMA SumOfParts ==
    ASSUME NEW D, NEW S, IsFiniteSet(S), NEW part \in [D -> SUBSET S],
           \A j, k \in D : \A x \in S : x \in part[j] /\ x \in part[k] => j = k,
           \A x \in S : \E k \in D : x \in part[k]
    PROVE  SumOf([k \in D |-> Cardinality(part[k])]) = Cardinality(S)
<1> DEFINE size == [k \in D |-> Cardinality(part[k])]
           units == UNION {{k} \X (1..size[k]) : k \in DOMAIN size}
           place == [k \in D |-> CHOOSE g : g \in Bijection(1..Cardinality(part[k]), part[k])]
           unit == [x \in S |-> CHOOSE u \in units : place[u[1]][u[2]] = x]
<1>1. ASSUME NEW k \in D
      PROVE  /\ place[k] \in [1..size[k] -> part[k]]
             /\ \A m, n \in 1..size[k] : place[k][m] = place[k][n] => m = n
             /\ \A x \in part[k] : \E n \in 1..size[k] : place[k][n] = x
  <2>1. IsFiniteSet(part[k])
    BY FS_Subset
  <2>2. \E g : g \in Bijection(1..Cardinality(part[k]), part[k])
    BY <2>1, FS_CardinalityType DEF ExistsBijection
  <2>3. place[k] \in Bijection(1..size[k], part[k])
    BY <2>2
  <2> QED BY <2>3 DEF Bijection, Injection, Surjection, IsInjective
<1>2. ASSUME NEW u \in units
      PROVE  \E k \in D : \E n \in 1..size[k] : u = <<k, n>>
  OBVIOUS
<1>3. ASSUME NEW k \in D, NEW n \in 1..size[k] PROVE <<k, n>> \in units
  OBVIOUS
<1> HIDE DEF units, size, place
<1>4. ASSUME NEW x \in S PROVE \E u \in units : place[u[1]][u[2]] = x
  <2>1. PICK k \in D : x \in part[k]
    OBVIOUS
  <2>2. PICK n \in 1..size[k] : place[k][n] = x
    BY <1>1, <2>1
  <2>3. <<k, n>>[1] = k /\ <<k, n>>[2] = n
    OBVIOUS
  <2> QED BY <1>3, <2>2, <2>3
<1>5. ASSUME NEW x \in S PROVE unit[x] \in units /\ place[unit[x][1]][unit[x][2]] = x
  BY <1>4
<1>6. unit \in [S -> units]
  BY <1>5
<1>7. \A x, y \in S : unit[x] = unit[y] => x = y
  BY <1>5
<1>8. ASSUME NEW u \in units PROVE \E x \in S : unit[x] = u
  <2> HIDE DEF unit
  <2>1. PICK k \in D : \E n \in 1..size[k] : u = <<k, n>>
    BY <1>2
  <2>2. PICK n \in 1..size[k] : u = <<k, n>>
    BY <2>1
  <2>3. place[k] \in [1..size[k] -> part[k]]
    BY <1>1
  <2>4. PICK x \in part[k] : x = place[k][n]
    BY <2>3
  <2>5. x \in S
    OBVIOUS
  <2>6. PICK j \in D : \E m \in 1..size[j] : unit[x] = <<j, m>>
    BY <1>2, <1>5, <2>5
  <2>7. PICK m \in 1..size[j] : unit[x] = <<j, m>>
    BY <2>6
  <2>8. place[j][m] = x
    BY <1>5, <2>5, <2>7
  <2>9. x \in part[j]
    <3>1. place[j] \in [1..size[j] -> part[j]]
      BY <1>1
    <3> QED BY <3>1, <2>8
  <2>10. j = k
    BY <2>5, <2>9
  <2>11. m = n
    BY <1>1, <2>4, <2>8, <2>10
  <2> QED BY <2>2, <2>5, <2>7, <2>10, <2>11
<1>9. Cardinality(units) = Cardinality(S)
  <2> HIDE DEF unit
  <2> QED BY <1>6, <1>7, <1>8, SameSize
<1> QED BY <1>9 DEF SumOf, units, size

-----------------------------------------------------------------------------
(***************************************************************************)
(* The queries                                                             *)
(***************************************************************************)
\* The first conjuncts of TypeOK.
DatabaseOK ==
    /\ items \in Seq(Item) /\ Len(items) <= MaxItems
    /\ roster \in [Actors -> {"absent", "active", "archived"}]
    /\ shelved \subseteq Types

\* The pieces of some actors, as far as they are counted, and their rows.
Of(as) == {i \in Live : items[i].actor \in as \cap Active}
RowsOf(S) == {<<items[i].actor, i>> : i \in S}

LEMMA IdsFinite ==
    ASSUME DatabaseOK
    PROVE  /\ Ids = 1..Len(items) /\ Ids \subseteq 1..MaxItems /\ Null \notin Ids
           /\ \A i \in Ids : items[i] \in Item
           /\ \A S \in SUBSET Ids : IsFiniteSet(S) /\ Cardinality(S) \in Nat
<1>1. Ids = 1..Len(items) /\ Len(items) \in Nat /\ \A i \in Ids : items[i] \in Item
  BY DEF DatabaseOK, Ids
<1>2. IsFiniteSet(Ids)
  BY <1>1, FS_Interval
<1>3. \A S \in SUBSET Ids : IsFiniteSet(S) /\ Cardinality(S) \in Nat
  BY <1>2, FS_Subset, FS_CardinalityType
<1> QED BY <1>1, <1>3, ScreensAssumption DEF DatabaseOK, Null

LEMMA RowsOfSize ==
    ASSUME DatabaseOK, NEW S \in SUBSET Ids
    PROVE  Cardinality(RowsOf(S)) = Cardinality(S) /\ Count(RowsOf(S)) = Cardinality(S)
<1> DEFINE f == [i \in S |-> <<items[i].actor, i>>]
<1>1. f \in [S -> RowsOf(S)] /\ \A z \in RowsOf(S) : \E i \in S : f[i] = z
  BY DEF RowsOf
<1>2. \A i, j \in S : f[i] = f[j] => i = j
  OBVIOUS
<1>3. Cardinality(RowsOf(S)) = Cardinality(S)
  <2> HIDE DEF f
  <2> QED BY <1>1, <1>2, IdsFinite, SameSize
<1>4. {r \in RowsOf(S) : r[2] # Null} = RowsOf(S)
  BY IdsFinite DEF RowsOf
<1> QED BY <1>3, <1>4 DEF Count

\* The figures of a set of pieces.
Figures(S) ==
    [total   |-> Cardinality(S),
     blocked |-> Cardinality({i \in S : items[i].blocked}),
     by      |-> [s \in Statuses |-> Cardinality({i \in S : items[i].status = s})]]

\* What is counted in rows is counted in pieces.
LEMMA TallyOf ==
    ASSUME DatabaseOK, NEW rows, NEW S \in SUBSET Ids,
           {r \in rows : r[2] # Null} = RowsOf(S)
    PROVE  Tally(rows) = Figures(S) /\ Figures(S) \in Counts
<1> DEFINE own == {r \in rows : r[2] # Null}
<1>1. {r \in own : items[r[2]].blocked} = RowsOf({i \in S : items[i].blocked})
  BY DEF RowsOf
<1>2. ASSUME NEW s PROVE {r \in own : items[r[2]].status = s} = RowsOf({i \in S : items[i].status = s})
  BY DEF RowsOf
<1>3. Count(rows) = Cardinality(S)
  BY RowsOfSize DEF Count
<1>4. Count({r \in own : items[r[2]].blocked}) = Cardinality({i \in S : items[i].blocked})
  BY <1>1, RowsOfSize
<1>5. ASSUME NEW s
      PROVE  Count({r \in own : items[r[2]].status = s}) = Cardinality({i \in S : items[i].status = s})
  BY <1>2, RowsOfSize
<1>6. Tally(rows) = Figures(S)
  BY <1>3, <1>4, <1>5 DEF Tally, Figures
<1>7. /\ Cardinality(S) \in Nat /\ Cardinality({i \in S : items[i].blocked}) \in Nat
      /\ \A s \in Statuses : Cardinality({i \in S : items[i].status = s}) \in Nat
  BY IdsFinite
<1> QED BY <1>6, <1>7 DEF Counts, Figures

LEMMA OwnRows ==
    ASSUME DatabaseOK, NEW as
    PROVE  {r \in Joined(as) : r[2] # Null} = RowsOf(Of(as)) /\ Of(as) \in SUBSET Ids
<1>1. Of(as) \in SUBSET Ids
  BY DEF Of, Live
<1> DEFINE Pieces(a) == {i \in Live : items[i].actor = a}
<1>2. Joined(as) = UNION {{a} \X (IF Pieces(a) = {} THEN {Null} ELSE Pieces(a)) : a \in as \cap Active}
  BY DEF Joined
<1>3. ASSUME NEW r, r \in Joined(as), r[2] # Null PROVE r \in RowsOf(Of(as))
  <2>1. PICK a \in as \cap Active : r \in {a} \X (IF Pieces(a) = {} THEN {Null} ELSE Pieces(a))
    BY <1>2, <1>3
  <2>2. r = <<a, r[2]>> /\ r[2] \in Pieces(a)
    BY <1>3, <2>1
  <2> QED BY <2>2 DEF RowsOf, Of
<1>4. ASSUME NEW r \in RowsOf(Of(as)) PROVE r \in Joined(as) /\ r[2] # Null
  <2>1. PICK i \in Of(as) : r = <<items[i].actor, i>>
    BY DEF RowsOf
  <2> DEFINE a == items[i].actor
  <2>2. a \in as \cap Active /\ i \in Pieces(a) /\ i # Null
    BY <1>1, IdsFinite DEF Of
  <2>3. r \in {a} \X (IF Pieces(a) = {} THEN {Null} ELSE Pieces(a)) /\ r[2] = i
    BY <2>1, <2>2
  <2>4. \E b \in as \cap Active : r \in {b} \X (IF Pieces(b) = {} THEN {Null} ELSE Pieces(b))
    BY <2>2, <2>3
  <2> HIDE DEF Pieces
  <2>5. r \in Joined(as)
    BY <1>2, <2>4
  <2> QED BY <2>2, <2>3, <2>5
<1> QED BY <1>1, <1>3, <1>4
LEMMA ActorFigures ==
    ASSUME DatabaseOK
    PROVE  /\ ProductionKPIs = Figures(Of(Actors)) /\ ProductionKPIs \in Counts
           /\ ActorSummaries = [a \in Active |-> Figures(Of({a}))]
           /\ \A a \in Active : ActorSummaries[a] \in Counts
<1>1. ASSUME NEW as PROVE Tally(Joined(as)) = Figures(Of(as)) /\ Figures(Of(as)) \in Counts
  BY OwnRows, TallyOf
<1> QED BY <1>1 DEF ProductionKPIs, ActorSummaries

LEMMA DirectoryFigures ==
    ASSUME DatabaseOK
    PROVE  ProductionDirectory = [actors |-> Cardinality(Active), pieces |-> ProductionKPIs.total,
                                  blocked |-> ProductionKPIs.blocked]
<1>1. {r[1] : r \in Joined(Actors)} = Active
  <2> DEFINE Pieces(a) == {i \in Live : items[i].actor = a}
             Rows(a) == {a} \X (IF Pieces(a) = {} THEN {Null} ELSE Pieces(a))
  <2>1. Joined(Actors) = UNION {Rows(a) : a \in Actors \cap Active}
    BY DEF Joined
  <2>2. ASSUME NEW a \in Active PROVE \E r \in Rows(a) : r[1] = a
    <3>1. PICK p \in (IF Pieces(a) = {} THEN {Null} ELSE Pieces(a)) : TRUE
      OBVIOUS
    <3>2. <<a, p>> \in Rows(a) /\ <<a, p>>[1] = a
      BY <3>1
    <3> QED BY <3>2
  <2>3. ASSUME NEW a \in Active, NEW r \in Rows(a) PROVE r[1] = a
    OBVIOUS
  <2>4. Actors \cap Active = Active
    BY DEF Active
  <2> HIDE DEF Rows
  <2> QED BY <2>1, <2>2, <2>3, <2>4
<1> QED BY <1>1 DEF ProductionDirectory, ProductionKPIs, Tally

\* The pieces of a type that the summary and reports know of, and those of a
\* status, unless it is left open.
OfType(t) == {i \in Of(Actors) : items[i].type = t /\ t \notin shelved}
With(S, s) == {i \in S : s \in {Unset, items[i].status}}

LEMMA RowsOfType ==
    ASSUME DatabaseOK, NEW t
    PROVE  /\ TypeRows(t) = RowsOf(OfType(t)) /\ OfType(t) \in SUBSET Ids
           /\ \A s : OfStatus(TypeRows(t), s) = RowsOf(With(OfType(t), s))
<1>1. OfType(t) \in SUBSET Ids
  BY OwnRows DEF OfType
<1>2. TypeRows(t) = RowsOf(OfType(t))
  <2>1. CASE t \in shelved
    BY <2>1 DEF TypeRows, OfType, RowsOf
  <2>2. CASE t \notin shelved
    <3>1. TypeRows(t) = {r \in RowsOf(Of(Actors)) : items[r[2]].type = t}
      BY <2>2, OwnRows DEF TypeRows
    <3> QED BY <2>2, <3>1 DEF OfType, RowsOf
  <2> QED BY <2>1, <2>2
<1>3. ASSUME NEW s PROVE OfStatus(RowsOf(OfType(t)), s) = RowsOf(With(OfType(t), s))
  BY DEF OfStatus, RowsOf, With
<1> QED BY <1>1, <1>2, <1>3

LEMMA TypeFigures ==
    ASSUME DatabaseOK
    PROVE  /\ ItemTypeSummary = [t \in {u \in Types : OfType(u) # {}} |-> Figures(OfType(t))]
           /\ \A t \in DOMAIN ItemTypeSummary : ItemTypeSummary[t] \in Counts
<1>1. ASSUME NEW t PROVE /\ TypeRows(t) # {} <=> OfType(t) # {}
                         /\ Tally(TypeRows(t)) = Figures(OfType(t)) /\ Figures(OfType(t)) \in Counts
  <2>1. TypeRows(t) = RowsOf(OfType(t)) /\ OfType(t) \in SUBSET Ids
    BY RowsOfType
  <2>2. {r \in RowsOf(OfType(t)) : r[2] # Null} = RowsOf(OfType(t))
    BY <2>1, IdsFinite DEF RowsOf
  <2>3. RowsOf(OfType(t)) # {} <=> OfType(t) # {}
    BY DEF RowsOf
  <2> QED BY <2>1, <2>2, <2>3, TallyOf
<1>2. ItemTypeSummary = [t \in {u \in Types : OfType(u) # {}} |-> Figures(OfType(t))]
  BY <1>1 DEF ItemTypeSummary
<1> QED BY <1>1, <1>2

LEMMA ReportFigures ==
    ASSUME DatabaseOK, NEW s
    PROVE  ReportCategories(s) = [t \in {u \in Types : With(OfType(u), s) # {}} |->
                                    Cardinality(With(OfType(t), s))]
<1>1. ASSUME NEW t PROVE /\ OfStatus(TypeRows(t), s) # {} <=> With(OfType(t), s) # {}
                         /\ Cardinality(OfStatus(TypeRows(t), s)) = Cardinality(With(OfType(t), s))
  <2>1. With(OfType(t), s) \in SUBSET Ids
    BY RowsOfType DEF With
  <2>2. RowsOf(With(OfType(t), s)) # {} <=> With(OfType(t), s) # {}
    BY DEF RowsOf
  <2> QED BY <2>1, <2>2, RowsOfType, RowsOfSize
<1> QED BY <1>1 DEF ReportCategories

-----------------------------------------------------------------------------
(***************************************************************************)
(* The queries agree                                                       *)
(***************************************************************************)
\* Pieces, counted by actor and by status.
LEMMA AddUp ==
    ASSUME DatabaseOK, NEW S \in SUBSET Of(Actors)
    PROVE  /\ Cardinality(S) = SumOf([a \in Active |-> Cardinality({i \in S : items[i].actor = a})])
           /\ Cardinality(S) = SumOf([s \in Statuses |-> Cardinality({i \in S : items[i].status = s})])
<1>1. IsFiniteSet(S) /\ \A i \in S : items[i].actor \in Active /\ items[i].status \in Statuses
  BY OwnRows, IdsFinite DEF Of, Item
<1>2. Cardinality(S) = SumOf([a \in Active |-> Cardinality({i \in S : items[i].actor = a})])
  <2> DEFINE part == [a \in Active |-> {i \in S : items[i].actor = a}]
  <2>1. /\ part \in [Active -> SUBSET S]
        /\ \A a, b \in Active : \A i \in S : i \in part[a] /\ i \in part[b] => a = b
        /\ \A i \in S : \E a \in Active : i \in part[a]
        /\ \A a \in Active : part[a] = {i \in S : items[i].actor = a}
    BY <1>1
  <2> HIDE DEF part
  <2>2. SumOf([a \in Active |-> Cardinality(part[a])]) = Cardinality(S)
    BY <1>1, <2>1, SumOfParts
  <2>3. [a \in Active |-> Cardinality(part[a])]
            = [a \in Active |-> Cardinality({i \in S : items[i].actor = a})]
    BY <2>1
  <2> QED BY <2>2, <2>3
<1>3. Cardinality(S) = SumOf([s \in Statuses |-> Cardinality({i \in S : items[i].status = s})])
  <2> DEFINE part == [s \in Statuses |-> {i \in S : items[i].status = s}]
  <2>1. /\ part \in [Statuses -> SUBSET S]
        /\ \A a, b \in Statuses : \A i \in S : i \in part[a] /\ i \in part[b] => a = b
        /\ \A i \in S : \E s \in Statuses : i \in part[s]
        /\ \A s \in Statuses : part[s] = {i \in S : items[i].status = s}
    BY <1>1
  <2> HIDE DEF part
  <2>2. SumOf([s \in Statuses |-> Cardinality(part[s])]) = Cardinality(S)
    BY <1>1, <2>1, SumOfParts
  <2>3. [s \in Statuses |-> Cardinality(part[s])]
            = [s \in Statuses |-> Cardinality({i \in S : items[i].status = s})]
    BY <2>1
  <2> QED BY <2>2, <2>3
<1> QED BY <1>2, <1>3

\* The rows of the dashboard add up to its figures.
LEMMA RowsAddUp ==
    ASSUME DatabaseOK
    PROVE  /\ ProductionKPIs.total = SumOf([a \in Active |-> ActorSummaries[a].total])
           /\ ProductionKPIs.blocked = SumOf([a \in Active |-> ActorSummaries[a].blocked])
           /\ \A s \in Statuses :
                 ProductionKPIs.by[s] = SumOf([a \in Active |-> ActorSummaries[a].by[s]])
           /\ ProductionKPIs.total = SumOf(ProductionKPIs.by)
<1> DEFINE P == Of(Actors)
<1>1. ASSUME NEW a \in Active
      PROVE  /\ Of({a}) = {i \in P : items[i].actor = a}
             /\ {i \in Of({a}) : items[i].blocked} = {i \in {j \in P : items[j].blocked} : items[i].actor = a}
             /\ \A s : {i \in Of({a}) : items[i].status = s}
                           = {i \in {j \in P : items[j].status = s} : items[i].actor = a}
  BY DEF Of, Active
<1> HIDE DEF P
<1>2. ASSUME NEW a \in Active
      PROVE  /\ ActorSummaries[a].total = Cardinality({i \in P : items[i].actor = a})
             /\ ActorSummaries[a].blocked
                    = Cardinality({i \in {j \in P : items[j].blocked} : items[i].actor = a})
             /\ \A s \in Statuses :
                   ActorSummaries[a].by[s]
                       = Cardinality({i \in {j \in P : items[j].status = s} : items[i].actor = a})
  <2>1. ActorSummaries[a] = Figures(Of({a}))
    BY ActorFigures
  <2>2. /\ ActorSummaries[a].total = Cardinality(Of({a}))
        /\ ActorSummaries[a].blocked = Cardinality({i \in Of({a}) : items[i].blocked})
        /\ \A s \in Statuses :
              ActorSummaries[a].by[s] = Cardinality({i \in Of({a}) : items[i].status = s})
    BY <2>1 DEF Figures
  <2>3. Of({a}) = {i \in P : items[i].actor = a}
    BY <1>1
  <2>4. {i \in Of({a}) : items[i].blocked} = {i \in {j \in P : items[j].blocked} : items[i].actor = a}
    BY <1>1
  <2>5. ASSUME NEW s \in Statuses
        PROVE  ActorSummaries[a].by[s]
                   = Cardinality({i \in {j \in P : items[j].status = s} : items[i].actor = a})
    <3>1. {i \in Of({a}) : items[i].status = s} = {i \in {j \in P : items[j].status = s} : items[i].actor = a}
      BY <1>1
    <3> QED BY <2>2, <3>1
  <2> QED BY <2>2, <2>3, <2>4, <2>5
<1>5. /\ ProductionKPIs.total = Cardinality(P)
      /\ ProductionKPIs.blocked = Cardinality({j \in P : items[j].blocked})
      /\ ProductionKPIs.by = [s \in Statuses |-> Cardinality({j \in P : items[j].status = s})]
  BY ActorFigures DEF Figures, P
<1>6. /\ P \in SUBSET Of(Actors) /\ {j \in P : items[j].blocked} \in SUBSET Of(Actors)
      /\ \A s : {j \in P : items[j].status = s} \in SUBSET Of(Actors)
  BY DEF P
<1>7. ProductionKPIs.total = SumOf([a \in Active |-> ActorSummaries[a].total])
  <2>1. [a \in Active |-> ActorSummaries[a].total]
            = [a \in Active |-> Cardinality({i \in P : items[i].actor = a})]
    BY <1>2
  <2>2. Cardinality(P) = SumOf([a \in Active |-> Cardinality({i \in P : items[i].actor = a})])
    BY <1>6, AddUp
  <2> QED BY <1>5, <2>1, <2>2
<1>8. ProductionKPIs.blocked = SumOf([a \in Active |-> ActorSummaries[a].blocked])
  <2> DEFINE S == {j \in P : items[j].blocked}
  <2>1. ProductionKPIs.blocked = Cardinality(S) /\ S \in SUBSET Of(Actors)
    BY <1>5, <1>6
  <2>2. \A a \in Active : ActorSummaries[a].blocked = Cardinality({i \in S : items[i].actor = a})
    BY <1>2
  <2> HIDE DEF S
  <2> QED BY <2>1, <2>2, AddUp
<1>9. ASSUME NEW s \in Statuses
      PROVE  ProductionKPIs.by[s] = SumOf([a \in Active |-> ActorSummaries[a].by[s]])
  <2> DEFINE S == {j \in P : items[j].status = s}
  <2>1. ProductionKPIs.by[s] = Cardinality(S) /\ S \in SUBSET Of(Actors)
    BY <1>5, <1>6
  <2>2. \A a \in Active : ActorSummaries[a].by[s] = Cardinality({i \in S : items[i].actor = a})
    BY <1>2
  <2> HIDE DEF S
  <2> QED BY <2>1, <2>2, AddUp
<1>10. ProductionKPIs.total = SumOf(ProductionKPIs.by)
  BY <1>5, <1>6, AddUp
<1> QED BY <1>7, <1>8, <1>9, <1>10

\* What the summary counts and the pieces of archived types are all pieces.
LEMMA TypesAddUp ==
    ASSUME DatabaseOK
    PROVE  ProductionKPIs.total =
               SumOf([t \in DOMAIN ItemTypeSummary |-> ItemTypeSummary[t].total])
               + Cardinality({i \in Live : items[i].actor \in Active /\ items[i].type \in shelved})
<1> DEFINE P == Of(Actors)
           hidden == {i \in Live : items[i].actor \in Active /\ items[i].type \in shelved}
           D == {u \in Types : OfType(u) # {}}
           part == [t \in D |-> OfType(t)]
<1>1. /\ P \in SUBSET Ids /\ P \ hidden \in SUBSET Ids /\ hidden \in SUBSET Ids /\ hidden \subseteq P
      /\ \A i \in P : items[i] \in Item
  BY OwnRows, IdsFinite DEF Of, Active, Live
<1>2. Cardinality(P \ hidden) = Cardinality(P) - Cardinality(hidden)
  <2>1. P \cap hidden = hidden
    BY <1>1
  <2> QED BY <1>1, <2>1, IdsFinite, FS_Difference
<1>3. part \in [D -> SUBSET (P \ hidden)] /\ \A t \in D : part[t] = OfType(t)
  BY DEF OfType
<1>4. \A t, u \in D : \A i \in P \ hidden : i \in part[t] /\ i \in part[u] => t = u
  BY DEF OfType
<1>5. \A i \in P \ hidden : \E t \in D : i \in part[t]
  <2> SUFFICES ASSUME NEW i \in P \ hidden PROVE \E t \in D : i \in part[t]
    OBVIOUS
  <2>1. i \in OfType(items[i].type) /\ items[i].type \in Types
    BY <1>1 DEF OfType, Of, Item
  <2> QED BY <2>1
<1> HIDE DEF part
<1>6. SumOf([t \in D |-> Cardinality(part[t])]) = Cardinality(P \ hidden)
  <2> HIDE DEF D, hidden, P
  <2> QED BY <1>1, <1>3, <1>4, <1>5, IdsFinite, SumOfParts
<1>7. [t \in D |-> Cardinality(part[t])]
          = [t \in DOMAIN ItemTypeSummary |-> ItemTypeSummary[t].total]
  <2>1. DOMAIN ItemTypeSummary = D /\ \A t \in D : ItemTypeSummary[t] = Figures(OfType(t))
    BY TypeFigures
  <2>2. ASSUME NEW t \in D PROVE ItemTypeSummary[t].total = Cardinality(part[t])
    <3>1. ItemTypeSummary[t] = Figures(OfType(t)) /\ part[t] = OfType(t)
      BY <1>3, <2>1
    <3> QED BY <3>1 DEF Figures
  <2> HIDE DEF D
  <2> QED BY <2>1, <2>2
<1>8. ProductionKPIs.total = Cardinality(P)
  BY ActorFigures DEF Figures
<1>9. Cardinality(P) \in Nat /\ Cardinality(hidden) \in Nat
  BY <1>1, IdsFinite
<1> QED BY <1>2, <1>6, <1>7, <1>8, <1>9

\* A column of the summary is the report on that status.
LEMMA ReportsAgree ==
    ASSUME DatabaseOK, NEW t \in DOMAIN ItemTypeSummary
    PROVE  /\ ItemTypeSummary[t].total = ReportCategories(Unset)[t]
           /\ \A s \in Statuses : ItemTypeSummary[t].by[s] = Row(ReportCategories(s), t, 0)
<1>1. t \in Types /\ OfType(t) # {} /\ ItemTypeSummary[t] = Figures(OfType(t))
  BY TypeFigures
<1>2. With(OfType(t), Unset) = OfType(t)
  BY DEF With
<1>3. ReportCategories(Unset)[t] = Cardinality(OfType(t))
  BY <1>1, <1>2, ReportFigures
<1>4. ASSUME NEW s \in Statuses
      PROVE  ItemTypeSummary[t].by[s] = Row(ReportCategories(s), t, 0)
  <2>1. With(OfType(t), s) = {i \in OfType(t) : items[i].status = s}
    BY ScreensAssumption DEF With
  <2>2. Row(ReportCategories(s), t, 0) = Cardinality(With(OfType(t), s))
    <3>1. CASE With(OfType(t), s) # {}
      BY <1>1, <3>1, ReportFigures DEF Row
    <3>2. CASE With(OfType(t), s) = {}
      BY <1>1, <3>2, ReportFigures, FS_EmptySet DEF Row
    <3> QED BY <3>1, <3>2
  <2> QED BY <1>1, <2>1, <2>2 DEF Figures
<1> QED BY <1>1, <1>3, <1>4 DEF Figures

LEMMA Rollups == DatabaseOK => RollupsAgree
  BY RowsAddUp, TypesAddUp, ReportsAgree, DirectoryFigures, ActorFigures DEF RollupsAgree
-----------------------------------------------------------------------------
(***************************************************************************)
(* Query strings                                                           *)
(***************************************************************************)
LEMMA MinOfTwo ==
    ASSUME NEW a \in Int, NEW b \in Int
    PROVE  Min({a, b}) = IF a <= b THEN a ELSE b
<1> DEFINE m == IF a <= b THEN a ELSE b
<1>1. m \in {a, b} /\ \A y \in {a, b} : m <= y
  OBVIOUS
<1>2. ASSUME NEW x \in {a, b}, \A y \in {a, b} : x <= y PROVE x = m
  BY <1>2
<1> QED BY <1>1, <1>2 DEF Min

\* A parameter with one name, and with others that the query does not have.
LEMMA FirstOfOne ==
    ASSUME NEW q, NEW k, NEW d
    PROVE  First(q, <<k>>, d) = IF k \in DOMAIN q THEN q[k] ELSE d
<1> DEFINE keys == <<k>>
           given == {n \in DOMAIN keys : keys[n] \in DOMAIN q}
<1>1. DOMAIN keys = {1} /\ keys[1] = k
  OBVIOUS
<1>2. given = IF k \in DOMAIN q THEN {1} ELSE {}
  BY <1>1
<1>3. Min({1}) = 1
  BY DEF Min
<1>4. First(q, keys, d) = IF given = {} THEN d ELSE q[keys[Min(given)]]
  BY DEF First
<1> HIDE DEF keys, given
<1>5. CASE k \in DOMAIN q
  <2>1. given = {1} /\ given # {}
    BY <1>2, <1>5
  <2> QED BY <1>1, <1>3, <1>4, <1>5, <2>1 DEF keys
<1>6. CASE k \notin DOMAIN q
  BY <1>2, <1>4, <1>6 DEF keys
<1> QED BY <1>5, <1>6

LEMMA FirstOfTwo ==
    ASSUME NEW q, NEW k, NEW l, NEW d, l \notin DOMAIN q
    PROVE  First(q, <<k, l>>, d) = IF k \in DOMAIN q THEN q[k] ELSE d
<1> DEFINE keys == <<k, l>>
           given == {n \in DOMAIN keys : keys[n] \in DOMAIN q}
<1>1. DOMAIN keys = {1, 2} /\ keys[1] = k /\ keys[2] = l
  OBVIOUS
<1>2. given = IF k \in DOMAIN q THEN {1} ELSE {}
  BY <1>1
<1>3. Min({1}) = 1
  BY DEF Min
<1>4. First(q, keys, d) = IF given = {} THEN d ELSE q[keys[Min(given)]]
  BY DEF First
<1> HIDE DEF keys, given
<1>5. CASE k \in DOMAIN q
  <2>1. given = {1} /\ given # {}
    BY <1>2, <1>5
  <2> QED BY <1>1, <1>3, <1>4, <1>5, <2>1 DEF keys
<1>6. CASE k \notin DOMAIN q
  BY <1>2, <1>4, <1>6 DEF keys
<1> QED BY <1>5, <1>6

LEMMA FirstOfThree ==
    ASSUME NEW q, NEW k, NEW l, NEW m, NEW d, l \notin DOMAIN q,
           k \notin DOMAIN q \/ m \notin DOMAIN q
    PROVE  First(q, <<k, l, m>>, d) = IF k \in DOMAIN q THEN q[k]
                                      ELSE IF m \in DOMAIN q THEN q[m] ELSE d
<1> DEFINE keys == <<k, l, m>>
           given == {n \in DOMAIN keys : keys[n] \in DOMAIN q}
<1>1. DOMAIN keys = {1, 2, 3} /\ keys[1] = k /\ keys[2] = l /\ keys[3] = m
  OBVIOUS
<1>2. given = IF k \in DOMAIN q THEN {1} ELSE IF m \in DOMAIN q THEN {3} ELSE {}
  BY <1>1
<1>3. Min({1}) = 1 /\ Min({3}) = 3
  BY DEF Min
<1>4. First(q, keys, d) = IF given = {} THEN d ELSE q[keys[Min(given)]]
  BY DEF First
<1> HIDE DEF keys, given
<1>5. CASE k \in DOMAIN q
  <2>1. given = {1} /\ given # {}
    BY <1>2, <1>5
  <2> QED BY <1>1, <1>3, <1>4, <1>5, <2>1 DEF keys
<1>6. CASE k \notin DOMAIN q /\ m \in DOMAIN q
  <2>1. given = {3} /\ given # {}
    BY <1>2, <1>6
  <2> QED BY <1>1, <1>3, <1>4, <1>6, <2>1 DEF keys
<1>7. CASE k \notin DOMAIN q /\ m \notin DOMAIN q
  BY <1>2, <1>4, <1>7 DEF keys
<1> QED BY <1>5, <1>6, <1>7

\* What a link says is read back, but for a limit that is too large.
LEMMA ParseQuery ==
    ASSUME NEW f \in Filters
    PROVE  Parse(Query(f)) = [f EXCEPT !.limit = Min({f.limit, MaxLimit})]
<1> DEFINE q == Query(f)
<1>1. DOMAIN q \subseteq {"actor", "type", "status", "blocked", "incomplete", "limit", "page"}
  BY DEF Query
<1>2. /\ "actor" \in DOMAIN q <=> f.actor # Unset
      /\ "type" \in DOMAIN q <=> f.type # Unset
      /\ "status" \in DOMAIN q <=> f.status # Unset
      /\ "blocked" \in DOMAIN q <=> f.blocked
      /\ "incomplete" \in DOMAIN q <=> f.incomplete
      /\ "limit" \in DOMAIN q <=> f.limit # DefaultLimit
      /\ "page" \in DOMAIN q <=> f.page > 1
  BY DEF Query, Filters
<1>3. \A k \in DOMAIN q : q[k] = f[k]
  BY DEF Query
<1> HIDE DEF q
<1>4. First(q, <<"actor", "actor_id">>, Unset) = f.actor
  BY <1>1, <1>2, <1>3, FirstOfTwo
<1>5. First(q, <<"type", "item_type", "item_type_id">>, Unset) = f.type
  BY <1>1, <1>2, <1>3, FirstOfThree
<1>6. First(q, <<"status">>, Unset) = f.status
  BY <1>2, <1>3, FirstOfOne
<1>7. First(q, <<"blocked">>, FALSE) = f.blocked
  <2>1. First(q, <<"blocked">>, FALSE) = IF "blocked" \in DOMAIN q THEN q["blocked"] ELSE FALSE
    BY FirstOfOne
  <2>2. CASE f.blocked = TRUE
    BY <1>2, <1>3, <2>1, <2>2
  <2>3. CASE f.blocked = FALSE
    BY <1>2, <2>1, <2>3
  <2> QED BY <2>2, <2>3 DEF Filters
<1>8. First(q, <<"incomplete">>, FALSE) = f.incomplete
  <2>1. First(q, <<"incomplete">>, FALSE) = IF "incomplete" \in DOMAIN q THEN q["incomplete"] ELSE FALSE
    BY FirstOfOne
  <2>2. CASE f.incomplete = TRUE
    BY <1>2, <1>3, <2>1, <2>2
  <2>3. CASE f.incomplete = FALSE
    BY <1>2, <2>1, <2>3
  <2> QED BY <2>2, <2>3 DEF Filters
<1>9. First(q, <<"page">>, 1) = f.page
  BY <1>2, <1>3, FirstOfOne DEF Filters
<1>10. First(q, <<"limit">>, DefaultLimit) = f.limit
  BY <1>2, <1>3, FirstOfOne
<1>11. Parse(q) = [actor |-> f.actor, type |-> f.type, status |-> f.status,
                   blocked |-> f.blocked, incomplete |-> f.incomplete, page |-> f.page,
                   limit |-> Min({f.limit, MaxLimit})]
  BY <1>4, <1>5, <1>6, <1>7, <1>8, <1>9, <1>10 DEF Parse
<1>12. [actor |-> f.actor, type |-> f.type, status |-> f.status,
        blocked |-> f.blocked, incomplete |-> f.incomplete, page |-> f.page,
        limit |-> Min({f.limit, MaxLimit})] = [f EXCEPT !.limit = Min({f.limit, MaxLimit})]
  BY DEF Filters
<1> QED BY <1>11, <1>12 DEF q

\* The filters of a count of the summary, whose query has one or two parameters.
LEMMA ParseSummaryQuery ==
    ASSUME NEW t \in Types, NEW c \in {"total", "blocked"} \cup Statuses
    PROVE  Parse(SummaryQuery(t, c)) =
               [actor |-> Unset, type |-> t, status |-> IF c \in Statuses THEN c ELSE Unset,
                blocked |-> c = "blocked", incomplete |-> FALSE, page |-> 1, limit |-> DefaultLimit]
<1> DEFINE q == SummaryQuery(t, c)
<1>1. /\ DOMAIN q = {"item_type_id"} \cup (IF c = "blocked" THEN {"blocked"} ELSE {})
                        \cup (IF c \in Statuses THEN {"status"} ELSE {})
      /\ q["item_type_id"] = t
      /\ c = "blocked" => q["blocked"] = TRUE
      /\ c \in Statuses => q["status"] = c
  <2>1. CASE c = "total"
    BY <2>1, ScreensAssumption DEF SummaryQuery
  <2>2. CASE c = "blocked"
    BY <2>2, ScreensAssumption DEF SummaryQuery
  <2>3. CASE c \in Statuses
    BY <2>3, ScreensAssumption DEF SummaryQuery
  <2> QED BY <2>1, <2>2, <2>3
<1> HIDE DEF q
<1>2. First(q, <<"actor", "actor_id">>, Unset) = Unset
  BY <1>1, FirstOfTwo
<1>3. First(q, <<"type", "item_type", "item_type_id">>, Unset) = t
  BY <1>1, FirstOfThree
<1>4. First(q, <<"status">>, Unset) = IF c \in Statuses THEN c ELSE Unset
  BY <1>1, FirstOfOne
<1>5. First(q, <<"blocked">>, FALSE) = (c = "blocked")
  <2>1. First(q, <<"blocked">>, FALSE) = IF "blocked" \in DOMAIN q THEN q["blocked"] ELSE FALSE
    BY FirstOfOne
  <2>2. CASE c = "blocked"
    BY <1>1, <2>1, <2>2
  <2>3. CASE c # "blocked"
    BY <1>1, <2>1, <2>3
  <2> QED BY <2>2, <2>3
<1>6. First(q, <<"incomplete">>, FALSE) = FALSE
  <2>1. "incomplete" \notin DOMAIN q
    BY <1>1
  <2>2. First(q, <<"incomplete">>, FALSE) = IF "incomplete" \in DOMAIN q THEN q["incomplete"] ELSE FALSE
    BY FirstOfOne
  <2> QED BY <2>1, <2>2
<1>7. First(q, <<"page">>, 1) = 1
  BY <1>1, FirstOfOne
<1>8. First(q, <<"limit">>, DefaultLimit) = DefaultLimit
  BY <1>1, FirstOfOne
<1>9. Min({DefaultLimit, MaxLimit}) = DefaultLimit
  BY MinOfTwo, ScreensAssumption
<1> QED BY <1>2, <1>3, <1>4, <1>5, <1>6, <1>7, <1>8, <1>9 DEF Parse, q

-----------------------------------------------------------------------------
(***************************************************************************)
(* Positions in a list                                                     *)
(***************************************************************************)
\* The place of an item in the list of a search, from 0.
Position(f, i) == Cardinality(Ahead(f, i))

LEMMA BeforeIsOrder ==
    ASSUME DatabaseOK
    PROVE  /\ \A i \in Ids : ~Before(i, i)
           /\ \A i, j \in Ids : i # j => Before(i, j) \/ Before(j, i)
           /\ \A i, j, k \in Ids : Before(i, j) /\ Before(j, k) => Before(i, k)
<1> DEFINE rank(k) == CHOOSE n \in DOMAIN Workflow : Workflow[n] = items[k].status
<1>1. ASSUME NEW k \in Ids PROVE rank(k) \in Nat
  <2>1. items[k].status \in Statuses
    BY IdsFinite DEF Item
  <2>2. \E n \in DOMAIN Workflow : Workflow[n] = items[k].status
    BY <2>1 DEF Statuses, Range
  <2>3. rank(k) \in DOMAIN Workflow
    BY <2>2
  <2> QED BY <2>3, ScreensAssumption
<1>2. \A i, j \in Ids : Before(i, j) <=> rank(i) < rank(j) \/ (rank(i) = rank(j) /\ i < j)
  BY DEF Before
<1>3. Ids \subseteq Int
  BY IdsFinite
<1> HIDE DEF rank
<1> QED BY <1>1, <1>2, <1>3

LEMMA MatchesOK ==
    ASSUME DatabaseOK, NEW f
    PROVE  /\ Matches(f) \in SUBSET Ids /\ IsFiniteSet(Matches(f))
           /\ \A i : /\ Ahead(f, i) \in SUBSET Matches(f) /\ IsFiniteSet(Ahead(f, i))
                     /\ Position(f, i) \in Nat
<1>1. Matches(f) \in SUBSET Ids /\ \A i : Ahead(f, i) \in SUBSET Matches(f)
  BY DEF Matches, Live, Ahead
<1> QED BY <1>1, IdsFinite DEF Position

\* The matches of a search occupy the first places of its list, one each.
LEMMA PositionsFill ==
    ASSUME DatabaseOK, NEW f
    PROVE  LET n == Cardinality(Matches(f))
           IN  /\ \A i \in Matches(f) : Position(f, i) \in 0..(n - 1)
               /\ \A i, j \in Matches(f) : Position(f, i) = Position(f, j) => i = j
               /\ \A z \in 0..(n - 1) : \E i \in Matches(f) : Position(f, i) = z
<1> DEFINE M == Matches(f)
           n == Cardinality(M)
           place == [i \in M |-> Position(f, i)]
<1>1. M \in SUBSET Ids /\ IsFiniteSet(M) /\ n \in Nat
  BY MatchesOK, FS_CardinalityType
<1>2. ASSUME NEW i \in M PROVE Position(f, i) \in 0..(n - 1)
  <2>1. i \notin Ahead(f, i) /\ Ahead(f, i) \in SUBSET M
    BY <1>1, BeforeIsOrder DEF Ahead
  <2>2. Position(f, i) <= n /\ Position(f, i) # n /\ Position(f, i) \in Nat
    BY <1>1, <2>1, MatchesOK, FS_Subset DEF Position
  <2> QED BY <1>1, <2>2
<1>3. ASSUME NEW i \in M, NEW j \in M, Before(i, j) PROVE Position(f, i) < Position(f, j)
  <2>1. Ahead(f, i) \in SUBSET Ahead(f, j) /\ i \in Ahead(f, j) /\ i \notin Ahead(f, i)
    BY <1>1, <1>3, BeforeIsOrder DEF Ahead
  <2>2. Position(f, i) <= Position(f, j) /\ Position(f, i) # Position(f, j)
    BY <2>1, MatchesOK, FS_Subset DEF Position
  <2> QED BY <2>2, MatchesOK
<1>4. \A i, j \in M : Position(f, i) = Position(f, j) => i = j
  BY <1>1, <1>3, MatchesOK, BeforeIsOrder
<1>5. IsFiniteSet(0..(n - 1)) /\ Cardinality(0..(n - 1)) = n
  BY <1>1, FS_Interval
<1>6. place \in Injection(M, 0..(n - 1))
  BY <1>2, <1>4 DEF Injection, IsInjective
<1>7. place \in Surjection(M, 0..(n - 1))
  <2> HIDE DEF place
  <2> QED BY <1>5, <1>6, FS_Injection
<1>8. \A z \in 0..(n - 1) : \E i \in M : Position(f, i) = z
  BY <1>7 DEF Surjection
<1> QED BY <1>2, <1>4, <1>8

LEMMA PageEnds ==
    ASSUME NEW f \in Filters
    PROVE  LET offset == (f.page - 1) * f.limit
           IN  offset \in Nat /\ f.page * f.limit = offset + f.limit /\ f.limit \in Nat \ {0}
<1>1. f.page - 1 \in Nat /\ f.limit \in Nat \ {0} /\ f.page = (f.page - 1) + 1
  BY DEF Filters
<1>2. ASSUME NEW p \in Nat, NEW l \in Nat PROVE p * l \in Nat /\ (p + 1) * l = p * l + l
  OBVIOUS
<1> QED BY <1>1, <1>2

\* A page that has an item behind it is full.
LEMMA FullPage ==
    ASSUME DatabaseOK, NEW f \in Filters, NEW i \in Matches(f), Position(f, i) >= f.page * f.limit
    PROVE  Cardinality(Listed(f)) = f.limit
<1> DEFINE offset == (f.page - 1) * f.limit
           window == offset..(offset + f.limit - 1)
           place == [j \in Listed(f) |-> Position(f, j)]
           n == Cardinality(Matches(f))
<1>1. offset \in Nat /\ f.page * f.limit = offset + f.limit /\ f.limit \in Nat \ {0}
  BY PageEnds
<1>2. Listed(f) = {j \in Matches(f) : Position(f, j) \in window}
  BY DEF Listed, Position
<1> HIDE DEF offset
<1>3. n \in Nat /\ IsFiniteSet(Listed(f))
  BY <1>2, MatchesOK, FS_CardinalityType, FS_Subset
<1>4. window \subseteq 0..(n - 1)
  <2>1. Position(f, i) \in 0..(n - 1)
    BY PositionsFill
  <2> QED BY <1>1, <1>3, <2>1
<1>5. /\ place \in [Listed(f) -> window]
      /\ \A j, k \in Listed(f) : place[j] = place[k] => j = k
      /\ \A z \in window : \E j \in Listed(f) : place[j] = z
  BY <1>2, <1>4, PositionsFill
<1>6. Cardinality(window) = Cardinality(Listed(f))
  <2> HIDE DEF place, window
  <2> QED BY <1>3, <1>5, SameSize
<1>7. Cardinality(window) = f.limit
  <2>1. offset \in Int /\ offset + f.limit - 1 \in Int /\ ~(offset > offset + f.limit - 1)
        /\ (offset + f.limit - 1) - offset + 1 = f.limit
    BY <1>1
  <2>2. ASSUME NEW l \in Int, NEW h \in Int, ~(l > h) PROVE Cardinality(l..h) = h - l + 1
    BY <2>2, FS_Interval
  <2> QED BY <2>1, <2>2
<1> QED BY <1>6, <1>7

\* Filters come out of a query as filters, and those of a page as they are.
LEMMA ParsedFilters ==
    ASSUME NEW f \in Filters
    PROVE  /\ Parse(Query(f)) \in Filters /\ Parse(Query(f)).limit <= MaxLimit
           /\ Parse(Query(f)).page = f.page
           /\ f.limit <= MaxLimit => Parse(Query(f)) = f
<1>1. f.limit \in Nat \ {0} /\ MaxLimit \in Nat \ {0}
  BY ScreensAssumption DEF Filters
<1>2. /\ Min({f.limit, MaxLimit}) \in Nat \ {0} /\ Min({f.limit, MaxLimit}) <= MaxLimit
      /\ f.limit <= MaxLimit => Min({f.limit, MaxLimit}) = f.limit
  BY <1>1, MinOfTwo
<1> DEFINE m == Min({f.limit, MaxLimit})
<1> HIDE DEF m
<1>3. /\ [f EXCEPT !.limit = m] \in Filters /\ [f EXCEPT !.limit = m].limit = m
      /\ [f EXCEPT !.limit = m].page = f.page
      /\ m = f.limit => [f EXCEPT !.limit = m] = f
  BY <1>2 DEF Filters, m
<1> QED BY <1>2, <1>3, ParseQuery DEF m

LEMMA SummaryFilters ==
    ASSUME NEW t \in Types, NEW c \in {"total", "blocked"} \cup Statuses
    PROVE  LET f == Parse(SummaryQuery(t, c))
           IN  f \in Filters /\ f.page = 1 /\ f.limit <= MaxLimit
<1> DEFINE f == [actor |-> Unset, type |-> t, status |-> IF c \in Statuses THEN c ELSE Unset,
                 blocked |-> c = "blocked", incomplete |-> FALSE, page |-> 1, limit |-> DefaultLimit]
<1>1. DefaultLimit \in Nat \ {0} /\ DefaultLimit <= MaxLimit
  BY ScreensAssumption
<1>2. f \in Filters /\ f.page = 1 /\ f.limit = DefaultLimit
  BY <1>1 DEF Filters
<1>3. Parse(SummaryQuery(t, c)) = f
  BY ParseSummaryQuery
<1> HIDE DEF f
<1> QED BY <1>1, <1>2, <1>3

-----------------------------------------------------------------------------
(***************************************************************************)
(* Type correctness                                                        *)
(***************************************************************************)
LEMMA TypeInit == Init => TypeOK
<1> SUFFICES ASSUME Init PROVE TypeOK
  OBVIOUS
<1>1. PICK n \in 0..FirstItems : items \in [1..n -> {i \in Item : ~i.blocked /\ ~i.archived}]
  BY DEF Init
<1>2. items \in Seq(Item) /\ Len(items) = n /\ n <= MaxItems
  BY <1>1, ScreensAssumption
<1>3. Unread \in [1..MaxItems -> 0..2] /\ 0 \in 0..MaxWrites
  BY ScreensAssumption DEF Unread
<1>4. PageOK
  BY DEF Init, PageOK
<1>5. roster \in [Actors -> {"absent", "active", "archived"}]
  BY DEF Init
<1> QED BY <1>2, <1>3, <1>4, <1>5 DEF Init, TypeOK, None

LEMMA TypedDatabase == TypeOK => DatabaseOK
  BY DEF TypeOK, DatabaseOK

\* A write changes the rows of one table, and removes none.
LEMMA WriteKeepsDatabase ==
    ASSUME DatabaseOK, Write
    PROVE  DatabaseOK' /\ Ids \subseteq Ids' /\ Written /\ writes < MaxWrites
<1> USE DEF DatabaseOK, Ids
<1>1. CASE \E a \in Actors, t \in Types, s \in Statuses : CreateItem(a, t, s)
  <2>1. PICK a \in Actors, t \in Types, s \in Statuses : CreateItem(a, t, s)
    BY <1>1
  <2> DEFINE i == [actor |-> a, type |-> t, status |-> s, blocked |-> FALSE, archived |-> FALSE]
  <2>2. i \in Item
    BY DEF Item
  <2>3. items' = Append(items, i) /\ Len(items) < MaxItems /\ UNCHANGED <<roster, shelved>> /\ Written
    BY <2>1 DEF CreateItem
  <2> HIDE DEF i
  <2> QED BY <1>1, <2>2, <2>3, ScreensAssumption DEF Write
<1>2. CASE \E i \in Ids, t \in Types, s \in Statuses, b \in BOOLEAN : UpdateItem(i, t, s, b)
  <2>1. PICK i \in Ids, t \in Types, s \in Statuses, b \in BOOLEAN : UpdateItem(i, t, s, b)
    BY <1>2
  <2>2. items' = [items EXCEPT ![i] = [items[i] EXCEPT !.type = t, !.status = s, !.blocked = b]]
        /\ UNCHANGED <<roster, shelved>> /\ Written
    BY <2>1 DEF UpdateItem
  <2>3. [items[i] EXCEPT !.type = t, !.status = s, !.blocked = b] \in Item
    <3>1. items[i] \in Item
      BY IdsFinite
    <3> QED BY <3>1 DEF Item
  <2> QED BY <1>2, <2>2, <2>3 DEF Write
<1>3. CASE \E i \in Ids : ArchiveItem(i)
  <2>1. PICK i \in Ids : ArchiveItem(i)
    BY <1>3
  <2>2. items' = [items EXCEPT ![i] = [items[i] EXCEPT !.archived = TRUE]]
        /\ UNCHANGED <<roster, shelved>> /\ Written
    BY <2>1 DEF ArchiveItem
  <2>3. [items[i] EXCEPT !.archived = TRUE] \in Item
    <3>1. items[i] \in Item
      BY IdsFinite
    <3> QED BY <3>1 DEF Item
  <2> QED BY <1>3, <2>2, <2>3 DEF Write
<1>4. CASE \E a \in Actors : CreateActor(a) \/ ArchiveActor(a)
  BY <1>4 DEF Write, CreateActor, ArchiveActor
<1>5. CASE \E t \in Types : ArchiveItemType(t) \/ RestoreItemType(t)
  BY <1>5 DEF Write, ArchiveItemType, RestoreItemType
<1> QED BY <1>1, <1>2, <1>3, <1>4, <1>5 DEF Write

LEMMA TypeWrite == ASSUME TypeOK, Write PROVE TypeOK'
<1>1. DatabaseOK' /\ Ids \subseteq Ids' /\ Written /\ writes < MaxWrites
  BY TypedDatabase, WriteKeepsDatabase
<1>2. /\ writes' \in 0..MaxWrites /\ overtaken' \in BOOLEAN /\ page' = page
      /\ promised' \in Nat \cup {None} /\ seen' \in [1..MaxItems -> 0..2]
  BY <1>1, ScreensAssumption DEF Written, TypeOK
<1>3. still' \subseteq still /\ shifted' \subseteq shifted \cup still /\ pushed' \subseteq pushed \cup still
  BY <1>1 DEF Written
<1>4. PageOK'
  BY <1>1, <1>2 DEF TypeOK, PageOK
<1> QED BY <1>1, <1>2, <1>3, <1>4 DEF TypeOK, DatabaseOK

LEMMA ReadKeepsDatabase == ASSUME Read PROVE UNCHANGED <<items, roster, shelved, writes>>
  BY DEF Read, OpenLanding, OpenDashboard, FollowShow, Dashboard, ReadSummaries, FollowActor,
         OpenSummary, OpenReport, ReadAccessories, OpenSearch, FollowCount, NextPage, Search,
         SearchItems, Show, database

\* What a page of a search leaves behind.
LEMMA TypeSearchItems ==
    ASSUME NEW f \in Filters, NEW before \in [1..MaxItems -> 0..2], SearchItems(f, before)
    PROVE  seen' \in [1..MaxItems -> 0..2] /\ PageOK'
<1>1. \A i \in 1..MaxItems : Min({before[i] + 1, 2}) \in 0..2
  <2> SUFFICES ASSUME NEW i \in 1..MaxItems PROVE Min({before[i] + 1, 2}) \in 0..2
    OBVIOUS
  <2>1. before[i] \in 0..2
    OBVIOUS
  <2> QED BY <2>1, MinOfTwo
<1>2. seen' \in [1..MaxItems -> 0..2]
  BY <1>1 DEF SearchItems
<1>3. page' = [at |-> "search", filters |-> f, next |-> Cardinality(Listed(f)) = f.limit]
  BY DEF SearchItems, Show
<1>4. page'.at = "search" /\ page'.filters = f /\ page'.next \in BOOLEAN
  BY <1>3
<1>5. PageOK'
  BY <1>4 DEF PageOK
<1> QED BY <1>2, <1>5

LEMMA TypeSearch ==
    ASSUME DatabaseOK, NEW f \in Filters, Search(f)
    PROVE  /\ seen' \in [1..MaxItems -> 0..2] /\ PageOK'
           /\ still' \subseteq Ids /\ shifted' = {} /\ pushed' = {}
<1>1. Unread \in [1..MaxItems -> 0..2]
  BY DEF Unread
<1> QED BY <1>1, TypeSearchItems, MatchesOK DEF Search

\* The steps of a page that is not a search.
LEMMA TypeShow ==
    ASSUME TypeOK,
           OpenLanding \/ OpenDashboard \/ FollowShow \/ ReadSummaries \/ OpenSummary
              \/ (\E a \in Actors : FollowActor(a)) \/ ReadAccessories
              \/ (\E s \in Statuses \cup {Unset} : OpenReport(s))
    PROVE  /\ PageOK' /\ UNCHANGED walk
           /\ promised' \in Nat \cup {None} /\ overtaken' \in BOOLEAN
<1> USE DEF Show
<1>1. DatabaseOK /\ overtaken \in BOOLEAN /\ promised \in Nat \cup {None} /\ PageOK
  BY TypedDatabase DEF TypeOK
<1>2. CASE OpenLanding
  <2>1. page' = [at |-> "landing", pieces |-> ProductionKPIs.total]
    BY <1>1, <1>2, DirectoryFigures DEF OpenLanding
  <2>2. ProductionKPIs.total \in Nat
    BY <1>1, ActorFigures DEF Counts
  <2>3. PageOK'
    BY <2>1, <2>2 DEF PageOK
  <2> QED BY <1>2, <2>3 DEF OpenLanding, Afresh
<1>3. ASSUME Dashboard PROVE PageOK' /\ UNCHANGED walk
  <2>1. page' = [at |-> "kpis", kpis |-> ProductionKPIs]
    BY <1>3 DEF Dashboard
  <2>2. ProductionKPIs \in Counts
    BY <1>1, ActorFigures
  <2>3. PageOK'
    BY <2>1, <2>2 DEF PageOK
  <2> QED BY <1>3, <2>3 DEF Dashboard
<1>4. CASE OpenDashboard
  BY <1>3, <1>4 DEF OpenDashboard, Afresh
<1>5. CASE FollowShow
  <2>1. page.pieces \in Nat
    BY <1>1, <1>5 DEF FollowShow, PageOK
  <2> QED BY <1>1, <1>3, <1>5, <2>1 DEF FollowShow, ByCount
<1>6. CASE ReadSummaries
  <2>1. page' = [at |-> "dashboard", kpis |-> page.kpis, rows |-> ActorSummaries]
    BY <1>6 DEF ReadSummaries
  <2>2. page.kpis \in Counts
    BY <1>1, <1>6 DEF ReadSummaries, PageOK
  <2>3. DOMAIN ActorSummaries \subseteq Actors /\ \A a \in DOMAIN ActorSummaries : ActorSummaries[a] \in Counts
    BY <1>1, ActorFigures DEF Active
  <2>4. PageOK'
    BY <2>1, <2>2, <2>3 DEF PageOK
  <2> QED BY <1>1, <1>6, <2>4 DEF ReadSummaries
<1>7. CASE OpenSummary
  <2>1. page' = [at |-> "summary", rows |-> ItemTypeSummary]
    BY <1>7 DEF OpenSummary
  <2>2. DOMAIN ItemTypeSummary \subseteq Types /\ \A t \in DOMAIN ItemTypeSummary : ItemTypeSummary[t] \in Counts
    BY <1>1, TypeFigures
  <2>3. PageOK'
    BY <2>1, <2>2 DEF PageOK
  <2> QED BY <1>7, <2>3 DEF OpenSummary, Afresh
<1>8. ASSUME NEW a \in Actors, FollowActor(a)
      PROVE  /\ PageOK' /\ UNCHANGED walk
             /\ promised' \in Nat \cup {None} /\ overtaken' \in BOOLEAN
  <2>1. page' = IF a \in Active THEN [at |-> "workspace", list |-> ItemsOf(a)] ELSE [at |-> "conflict"]
    BY <1>8 DEF FollowActor
  <2>2. ItemsOf(a) \subseteq Ids /\ Ids' = Ids
    BY <1>8 DEF ItemsOf, Live, FollowActor, database, Ids
  <2>3. PageOK'
    BY <2>1, <2>2 DEF PageOK
  <2>4. page.rows[a] \in Counts
    BY <1>1, <1>8 DEF FollowActor, PageOK
  <2>5. page.rows[a].total \in Nat
    BY <2>4 DEF Counts
  <2> QED BY <1>1, <1>8, <2>3, <2>5 DEF FollowActor, ByCount
<1>9. ASSUME NEW s \in Statuses \cup {Unset}, OpenReport(s)
      PROVE  /\ PageOK' /\ UNCHANGED walk
             /\ promised' \in Nat \cup {None} /\ overtaken' \in BOOLEAN
  <2>1. page' = [at |-> "categories", status |-> s, categories |-> ReportCategories(s)]
    BY <1>9 DEF OpenReport
  <2>2. DOMAIN ReportCategories(s) \subseteq Types
    BY DEF ReportCategories
  <2>3. PageOK'
    BY <2>1, <2>2 DEF PageOK
  <2> QED BY <1>9, <2>3 DEF OpenReport, Afresh
<1>10. CASE ReadAccessories
  <2>1. page' = [at |-> "report", categories |-> page.categories,
                 accessories |-> ReportAccessories(page.status)]
    BY <1>10 DEF ReadAccessories
  <2>2. DOMAIN page.categories \subseteq Types
    BY <1>1, <1>10 DEF ReadAccessories, PageOK
  <2>3. ReportAccessories(page.status) \subseteq Ids /\ Ids' = Ids
    <3>1. \A t : OfStatus(TypeRows(t), page.status) \subseteq RowsOf(Ids)
      BY <1>1, RowsOfType DEF RowsOf, With
    <3> QED BY <1>10, <3>1 DEF ReportAccessories, RowsOf, ReadAccessories, database, Ids
  <2>4. PageOK'
    BY <2>1, <2>2, <2>3 DEF PageOK
  <2> QED BY <1>1, <1>10, <2>4 DEF ReadAccessories
<1> QED BY <1>2, <1>4, <1>5, <1>6, <1>7, <1>8, <1>9, <1>10

LEMMA TypeRead == ASSUME TypeOK, Read PROVE TypeOK'
<1>1. /\ DatabaseOK /\ UNCHANGED <<items, roster, shelved, writes>> /\ Ids' = Ids
      /\ overtaken \in BOOLEAN /\ promised \in Nat \cup {None} /\ PageOK
      /\ seen \in [1..MaxItems -> 0..2]
      /\ still \subseteq Ids /\ shifted \subseteq Ids /\ pushed \subseteq Ids
  BY TypedDatabase, ReadKeepsDatabase DEF TypeOK, Ids
<1> DEFINE Typed == /\ PageOK' /\ promised' \in Nat \cup {None} /\ overtaken' \in BOOLEAN
                    /\ seen' \in [1..MaxItems -> 0..2]
                    /\ still' \subseteq Ids /\ shifted' \subseteq Ids /\ pushed' \subseteq Ids
<1>2. ASSUME OpenLanding \/ OpenDashboard \/ FollowShow \/ ReadSummaries \/ OpenSummary
                \/ (\E a \in Actors : FollowActor(a)) \/ ReadAccessories
                \/ (\E s \in Statuses \cup {Unset} : OpenReport(s))
      PROVE  Typed
  <2>1. PageOK' /\ UNCHANGED walk /\ promised' \in Nat \cup {None} /\ overtaken' \in BOOLEAN
    BY <1>2, TypeShow
  <2> QED BY <1>1, <2>1 DEF walk
<1>3. ASSUME NEW f \in Forms, OpenSearch(f) PROVE Typed
  <2>1. Parse(Query(f)) \in Filters
    BY ParsedFilters, FormsAssumption
  <2>2. Search(Parse(Query(f))) /\ promised' = None /\ overtaken' = FALSE
    BY <1>3 DEF OpenSearch, Afresh
  <2> QED BY <1>1, <2>1, <2>2, TypeSearch
<1>4. ASSUME NEW t \in Types, NEW c \in {"total", "blocked"} \cup Statuses, FollowCount(t, c)
      PROVE  Typed
  <2>1. Parse(SummaryQuery(t, c)) \in Filters
    BY SummaryFilters
  <2>2. Search(Parse(SummaryQuery(t, c))) /\ UNCHANGED overtaken
        /\ promised' = IF c \in Statuses THEN page.rows[t].by[c] ELSE page.rows[t][c]
    BY <1>4 DEF FollowCount, ByCount
  <2>3. page.rows[t] \in Counts
    BY <1>1, <1>4 DEF FollowCount, PageOK
  <2>4. promised' \in Nat
    <3>1. CASE c \in Statuses
      BY <2>2, <2>3, <3>1 DEF Counts
    <3>2. CASE c \notin Statuses
      <4>1. page.rows[t].total \in Nat /\ page.rows[t].blocked \in Nat
        BY <2>3 DEF Counts
      <4> QED BY <2>2, <3>2, <4>1
    <3> QED BY <3>1, <3>2
  <2> QED BY <1>1, <2>1, <2>2, <2>4, TypeSearch
<1>5. ASSUME NextPage PROVE Typed
  <2> DEFINE f == [page.filters EXCEPT !.page = page.filters.page + 1]
  <2>1. f \in Filters
    BY <1>1, <1>5 DEF NextPage, PageOK, Filters
  <2>2. Parse(Query(f)) \in Filters
    BY <2>1, ParsedFilters
  <2>3. SearchItems(Parse(Query(f)), seen) /\ UNCHANGED <<promised, overtaken, still, shifted, pushed>>
    BY <1>5 DEF NextPage
  <2> QED BY <1>1, <2>2, <2>3, TypeSearchItems
<1>6. Typed
  BY <1>2, <1>3, <1>4, <1>5 DEF Read
<1> QED BY <1>1, <1>6 DEF TypeOK, Ids

LEMMA TypeNext == TypeOK /\ [Next]_vars => TypeOK'
<1>1. ASSUME TypeOK, UNCHANGED vars PROVE TypeOK'
  BY <1>1 DEF TypeOK, PageOK, Ids, vars, database, walk
<1> QED BY <1>1, TypeWrite, TypeRead DEF Next

\* Every variable has its type.
THEOREM TypeIsInvariant == Spec => []TypeOK
  BY TypeInit, TypeNext, PTL DEF Spec

-----------------------------------------------------------------------------
(***************************************************************************)
(* The pages of a search                                                   *)
(***************************************************************************)
\* Where the pages that have been read end, an untouched item that has not been
\* listed lies behind and one that has been lies ahead, unless others have moved
\* it across.
WalkInv ==
    page.at = "search" =>
        LET f == page.filters
        IN  /\ f.limit <= MaxLimit
            /\ \A i \in still :
                  /\ i \in Matches(f)
                  /\ seen[i] = 0 => Position(f, i) >= f.page * f.limit \/ i \in shifted
                  /\ seen[i] > 0 => Position(f, i) < f.page * f.limit \/ i \in pushed
                  /\ seen[i] = 2 => i \in pushed
                  /\ seen[i] = 0 /\ ~page.next => i \in shifted

LEMMA ListsFinite == DatabaseOK => \A f, i : IsFiniteSet(Ahead(f, i)) /\ Position(f, i) \in Nat
  BY MatchesOK

LEMMA ListsStayFinite == DatabaseOK' => (\A f, i : IsFiniteSet(Ahead(f, i)) /\ Position(f, i) \in Nat)'
  BY ListsFinite, PTL

\* An item that crosses the end of the pages has had another come in, or leave,
\* ahead of it.
LEMMA WalkWrite == ASSUME TypeOK, WalkInv, Write PROVE WalkInv'
<1>1. DatabaseOK /\ DatabaseOK' /\ Written
  BY TypedDatabase, WriteKeepsDatabase
<1>2. page' = page /\ seen' = seen
  BY <1>1 DEF Written
<1>3. CASE page.at # "search"
  BY <1>2, <1>3 DEF WalkInv
<1>4. CASE page.at = "search"
  <2> DEFINE f == page.filters
             old(i) == Ahead(f, i)
             new(i) == Ahead(f, i)'
  <2>1. /\ f' = f /\ f \in Filters
        /\ still' = {i \in still : i \in Matches(f)' /\ items'[i] = items[i]}
        /\ shifted' = shifted \cup {i \in still : ~(old(i) \subseteq new(i))}
        /\ pushed' = pushed \cup {i \in still : ~(new(i) \subseteq old(i))}
    BY <1>1, <1>2, <1>4 DEF Written, TypeOK, PageOK
  <2>2. f.page * f.limit \in Nat
    BY <2>1 DEF Filters
  <2>3. \A i : /\ IsFiniteSet(old(i)) /\ Position(f, i) = Cardinality(old(i)) /\ Position(f, i) \in Nat
               /\ IsFiniteSet(new(i)) /\ Position(f, i)' = Cardinality(new(i)) /\ Position(f, i)' \in Nat
    <3>1. \A i : IsFiniteSet(old(i)) /\ Position(f, i) \in Nat
      BY <1>1, MatchesOK
    <3>2. (\A i : IsFiniteSet(Ahead(f, i)) /\ Position(f, i) \in Nat)'
      BY <1>1, ListsStayFinite
    <3> QED BY <3>1, <3>2, <2>1 DEF Position
  <2> SUFFICES ASSUME NEW i \in still'
               PROVE  /\ f.limit <= MaxLimit /\ i \in Matches(f)'
                      /\ seen[i] = 0 => Position(f, i)' >= f.page * f.limit \/ i \in shifted'
                      /\ seen[i] > 0 => Position(f, i)' < f.page * f.limit \/ i \in pushed'
                      /\ seen[i] = 2 => i \in pushed'
                      /\ seen[i] = 0 /\ ~page.next => i \in shifted'
    BY <1>2, <2>1 DEF WalkInv
  <2>4. /\ f.limit <= MaxLimit /\ i \in still /\ i \in Matches(f)'
        /\ seen[i] = 0 => Position(f, i) >= f.page * f.limit \/ i \in shifted
        /\ seen[i] > 0 => Position(f, i) < f.page * f.limit \/ i \in pushed
        /\ seen[i] = 2 => i \in pushed
        /\ seen[i] = 0 /\ ~page.next => i \in shifted
    BY <1>4, <2>1 DEF WalkInv
  <2>5. shifted \subseteq shifted' /\ pushed \subseteq pushed'
    BY <2>1
  <2>6. i \in shifted' \/ Position(f, i) <= Position(f, i)'
    <3>1. CASE old(i) \subseteq new(i)
      BY <2>3, <3>1, FS_Subset
    <3>2. CASE ~(old(i) \subseteq new(i))
      BY <2>1, <2>4, <3>2
    <3> QED BY <3>1, <3>2
  <2>7. i \in pushed' \/ Position(f, i)' <= Position(f, i)
    <3>1. CASE new(i) \subseteq old(i)
      BY <2>3, <3>1, FS_Subset
    <3>2. CASE ~(new(i) \subseteq old(i))
      BY <2>1, <2>4, <3>2
    <3> QED BY <3>1, <3>2
  <2>8. Position(f, i) \in Nat /\ Position(f, i)' \in Nat
    BY <2>3
  <2> HIDE DEF f, old, new
  <2> QED BY <2>2, <2>4, <2>5, <2>6, <2>7, <2>8
<1> QED BY <1>3, <1>4

\* The database a page is made of is the one it leaves behind.
LEMMA SameLists ==
    ASSUME UNCHANGED <<items, roster, shelved>>, NEW CONSTANT f
    PROVE  /\ Matches(f)' = Matches(f) /\ Listed(f)' = Listed(f)
           /\ \A i : Position(f, i)' = Position(f, i)
  BY DEF Matches, Listed, Position, Ahead, Before, Live, Ids, Active

\* The first page of a search.
LEMMA WalkSearch ==
    ASSUME TypeOK, NEW CONSTANT f \in Filters, f.page = 1, f.limit <= MaxLimit, Search(f)
    PROVE  /\ page'.at = "search" /\ page'.filters = f
           /\ \A i \in 1..MaxItems :
                 seen'[i] = IF i \in Matches(f) /\ Position(f, i) < f.page * f.limit THEN 1 ELSE 0
           /\ ~page'.next => \A i \in Matches(f) : Position(f, i) < f.page * f.limit
           /\ Matches(f)' = Matches(f) /\ \A i : Position(f, i)' = Position(f, i)
           /\ WalkInv'
<1>1. DatabaseOK /\ f.limit \in Nat \ {0} /\ f.page * f.limit = f.limit
  BY TypedDatabase DEF Filters
<1>2. page' = [at |-> "search", filters |-> f, next |-> Cardinality(Listed(f)) = f.limit]
      /\ seen' = [i \in 1..MaxItems |-> IF i \in Listed(f) THEN Min({Unread[i] + 1, 2}) ELSE Unread[i]]
      /\ still' = Matches(f) /\ UNCHANGED <<items, roster, shelved>>
  BY DEF Search, SearchItems, Show, database
<1>3. Listed(f) = {i \in Matches(f) : Position(f, i) < f.limit}
  <2>1. \A i : Position(f, i) \in Nat
    BY <1>1, MatchesOK
  <2>2. (f.page - 1) * f.limit = 0
    BY <1>1
  <2> QED BY <1>1, <2>1, <2>2 DEF Listed, Position
<1>4. ASSUME NEW i \in 1..MaxItems
      PROVE  seen'[i] = IF i \in Matches(f) /\ Position(f, i) < f.page * f.limit THEN 1 ELSE 0
  <2>1. Unread[i] = 0 /\ Min({0 + 1, 2}) = 1
    BY MinOfTwo DEF Unread
  <2> QED BY <1>1, <1>2, <1>3, <2>1
<1>5. ~page'.next => \A i \in Matches(f) : Position(f, i) < f.page * f.limit
  <2> SUFFICES ASSUME NEW i \in Matches(f), Cardinality(Listed(f)) # f.limit
               PROVE  Position(f, i) < f.page * f.limit
    BY <1>2
  <2>1. ~(Position(f, i) >= f.page * f.limit)
    BY <1>1, FullPage
  <2> QED BY <1>1, <2>1, MatchesOK
<1>6. Matches(f)' = Matches(f) /\ \A i : Position(f, i)' = Position(f, i)
  BY <1>2, SameLists
<1>7. Matches(f) \subseteq 1..MaxItems /\ \A i : Position(f, i) \in Nat
  BY <1>1, MatchesOK, IdsFinite
<1>8. WalkInv'
  <2>1. page'.filters = f
    BY <1>2
  <2>2. ASSUME NEW i \in Matches(f)
        PROVE  /\ seen'[i] = 0 => Position(f, i) >= f.page * f.limit
               /\ seen'[i] > 0 => Position(f, i) < f.page * f.limit
               /\ seen'[i] # 2
               /\ seen'[i] = 0 /\ ~page'.next => FALSE
    BY <1>1, <1>4, <1>5, <1>7
  <2> QED BY <1>2, <1>6, <2>1, <2>2 DEF WalkInv
<1> QED BY <1>2, <1>4, <1>5, <1>6, <1>8

\* The link to the next page continues where the page ends.
LEMMA PageFollows ==
    ASSUME TypeOK, WalkInv, NextPage, NEW CONSTANT g, g = page.filters
    PROVE  LET f == [g EXCEPT !.page = g.page + 1]
               end == g.page * g.limit
           IN  /\ g \in Filters /\ g.limit <= MaxLimit /\ end \in Nat
               /\ page'.at = "search" /\ page'.filters = f
               /\ f.limit = g.limit /\ f.page * f.limit = end + g.limit
               /\ Matches(f) = Matches(g) /\ \A i : Position(f, i) = Position(g, i)
               /\ \A i \in 1..MaxItems :
                     seen'[i] = IF i \in Matches(g) /\ Position(g, i) >= end /\ Position(g, i) < end + g.limit
                                THEN Min({seen[i] + 1, 2}) ELSE seen[i]
               /\ ~page'.next => \A i \in Matches(g) : Position(g, i) < end + g.limit
               /\ UNCHANGED <<items, roster, shelved, promised, overtaken, still, shifted, pushed>>
<1> DEFINE f == [g EXCEPT !.page = g.page + 1]
           end == g.page * g.limit
<1>1. DatabaseOK /\ g \in Filters /\ g.limit <= MaxLimit
  BY TypedDatabase DEF NextPage, TypeOK, PageOK, WalkInv
<1>2. f \in Filters /\ f.limit = g.limit /\ f.page = g.page + 1 /\ g.page \in Nat /\ g.limit \in Nat
  BY <1>1 DEF Filters
<1>3. Parse(Query([page.filters EXCEPT !.page = page.filters.page + 1])) = f
  BY <1>1, <1>2, ParsedFilters
<1>4. /\ page' = [at |-> "search", filters |-> f, next |-> Cardinality(Listed(f)) = f.limit]
      /\ seen' = [i \in 1..MaxItems |-> IF i \in Listed(f) THEN Min({seen[i] + 1, 2}) ELSE seen[i]]
      /\ UNCHANGED <<items, roster, shelved, promised, overtaken, still, shifted, pushed>>
  BY <1>3 DEF NextPage, SearchItems, Show, database
<1>5. Matches(f) = Matches(g)
  BY <1>1 DEF Matches, Filters
<1>6. \A i : Position(f, i) = Position(g, i)
  BY <1>5 DEF Position, Ahead
<1>7. end \in Nat /\ f.page * f.limit = end + g.limit /\ (f.page - 1) * f.limit = end
  <2>1. ASSUME NEW p \in Nat, NEW l \in Nat
        PROVE  p * l \in Nat /\ (p + 1) * l = p * l + l /\ (p + 1) - 1 = p
    OBVIOUS
  <2> QED BY <1>2, <2>1
<1> HIDE DEF f, end
<1>8. ASSUME NEW i
      PROVE  i \in Listed(f) <=> i \in Matches(g) /\ Position(g, i) >= end /\ Position(g, i) < end + g.limit
  <2>1. Listed(f) = {j \in Matches(f) : Position(f, j) \in end..(end + f.limit - 1)}
    BY <1>7 DEF Listed, Position
  <2>2. Position(g, i) \in Nat
    BY <1>1, MatchesOK
  <2>3. i \in Listed(f) <=> i \in Matches(g) /\ Position(g, i) \in end..(end + g.limit - 1)
    BY <1>2, <1>5, <1>6, <2>1
  <2> QED BY <1>2, <1>7, <2>2, <2>3
<1>9. ~page'.next => \A i \in Matches(g) : Position(g, i) < end + g.limit
  <2> SUFFICES ASSUME NEW i \in Matches(g), Cardinality(Listed(f)) # f.limit
               PROVE  Position(g, i) < end + g.limit
    BY <1>4
  <2>1. ~(Position(f, i) >= f.page * f.limit)
    BY <1>1, <1>2, <1>5, FullPage
  <2>2. Position(g, i) \in Nat
    BY <1>1, MatchesOK
  <2> QED BY <1>2, <1>6, <1>7, <2>1, <2>2
<1>10. page'.at = "search" /\ page'.filters = f
  BY <1>4
<1>11. \A i \in 1..MaxItems :
          seen'[i] = IF i \in Matches(g) /\ Position(g, i) >= end /\ Position(g, i) < end + g.limit
                     THEN Min({seen[i] + 1, 2}) ELSE seen[i]
  BY <1>4, <1>8
<1> QED BY <1>1, <1>2, <1>4, <1>5, <1>6, <1>7, <1>9, <1>10, <1>11 DEF f, end

LEMMA WalkNextPage == ASSUME TypeOK, WalkInv, NextPage PROVE WalkInv'
<1> PICK g : g = page.filters
  OBVIOUS
<1> DEFINE f == [g EXCEPT !.page = g.page + 1]
           end == g.page * g.limit
<1>1. /\ g \in Filters /\ g.limit <= MaxLimit /\ end \in Nat
      /\ page'.at = "search" /\ page'.filters = f
      /\ f.limit = g.limit /\ f.page * f.limit = end + g.limit
      /\ Matches(f) = Matches(g) /\ \A i : Position(f, i) = Position(g, i)
      /\ \A i \in 1..MaxItems :
            seen'[i] = IF i \in Matches(g) /\ Position(g, i) >= end /\ Position(g, i) < end + g.limit
                       THEN Min({seen[i] + 1, 2}) ELSE seen[i]
      /\ ~page'.next => \A i \in Matches(g) : Position(g, i) < end + g.limit
      /\ UNCHANGED <<items, roster, shelved, still, shifted, pushed>>
  BY PageFollows
<1>2. /\ still \subseteq 1..MaxItems /\ seen \in [1..MaxItems -> 0..2]
      /\ \A i : Position(g, i) \in Nat
      /\ g.limit \in Nat \ {0}
  BY <1>1, TypedDatabase, IdsFinite, MatchesOK DEF TypeOK, Filters
<1> HIDE DEF f
<1>3. Matches(f)' = Matches(f) /\ \A i : Position(f, i)' = Position(f, i)
  BY <1>1, SameLists
<1>4. ASSUME NEW i \in still
      PROVE  /\ i \in Matches(g)
             /\ seen'[i] = 0 => Position(g, i) >= end + g.limit \/ i \in shifted
             /\ seen'[i] > 0 => Position(g, i) < end + g.limit \/ i \in pushed
             /\ seen'[i] = 2 => i \in pushed
             /\ seen'[i] = 0 /\ ~page'.next => i \in shifted
  <2>1. /\ i \in Matches(g)
        /\ seen[i] = 0 => Position(g, i) >= end \/ i \in shifted
        /\ seen[i] > 0 => Position(g, i) < end \/ i \in pushed
        /\ seen[i] = 2 => i \in pushed
    BY DEF WalkInv, NextPage
  <2>2. seen[i] \in 0..2 /\ i \in 1..MaxItems
    BY <1>2
  <2>3. Min({seen[i] + 1, 2}) = IF seen[i] = 0 THEN 1 ELSE 2
    BY <2>2, MinOfTwo
  <2>4. seen'[i] = IF i \in Matches(g) /\ Position(g, i) >= end /\ Position(g, i) < end + g.limit
                   THEN Min({seen[i] + 1, 2}) ELSE seen[i]
    BY <1>1, <2>2
  <2>5. end \in Nat /\ g.limit \in Nat /\ Position(g, i) \in Nat
        /\ (~page'.next => Position(g, i) < end + g.limit)
    BY <1>1, <1>2, <2>1
  <2> HIDE DEF end
  <2>6. CASE Position(g, i) >= end /\ Position(g, i) < end + g.limit
    BY <2>1, <2>2, <2>3, <2>4, <2>5, <2>6
  <2>7. CASE ~(Position(g, i) >= end /\ Position(g, i) < end + g.limit)
    BY <2>1, <2>2, <2>4, <2>5, <2>7
  <2> QED BY <2>6, <2>7
<1> QED BY <1>1, <1>3, <1>4 DEF WalkInv

LEMMA WalkNext == TypeOK /\ WalkInv /\ [Next]_vars => WalkInv'
<1> SUFFICES ASSUME TypeOK, WalkInv, [Next]_vars PROVE WalkInv'
  OBVIOUS
<1>1. CASE Write
  BY <1>1, WalkWrite
<1>2. ASSUME page'.at # "search" PROVE WalkInv'
  BY <1>2 DEF WalkInv
<1>3. CASE OpenLanding \/ OpenDashboard \/ FollowShow \/ ReadSummaries \/ OpenSummary
              \/ (\E a \in Actors : FollowActor(a)) \/ ReadAccessories
              \/ (\E s \in Statuses \cup {Unset} : OpenReport(s))
  <2>1. page'.at # "search"
    BY <1>3 DEF OpenLanding, OpenDashboard, FollowShow, Dashboard, ReadSummaries, FollowActor,
                OpenSummary, OpenReport, ReadAccessories, Show
  <2> QED BY <1>2, <2>1
<1>4. ASSUME NEW f \in Forms, OpenSearch(f) PROVE WalkInv'
  <2> PICK g : g = Parse(Query(f))
    OBVIOUS
  <2>1. g \in Filters /\ g.page = 1 /\ g.limit <= MaxLimit
    BY ParsedFilters, FormsAssumption
  <2> QED BY <1>4, <2>1, WalkSearch DEF OpenSearch
<1>5. ASSUME NEW t \in Types, NEW c \in {"total", "blocked"} \cup Statuses, FollowCount(t, c)
      PROVE  WalkInv'
  <2> PICK g : g = Parse(SummaryQuery(t, c))
    OBVIOUS
  <2>1. g \in Filters /\ g.page = 1 /\ g.limit <= MaxLimit
    BY SummaryFilters
  <2> QED BY <1>5, <2>1, WalkSearch DEF FollowCount
<1>6. CASE NextPage
  BY <1>6, WalkNextPage
<1>7. CASE UNCHANGED vars
  <2> PICK f : f = page.filters
    OBVIOUS
  <2>1. UNCHANGED <<items, roster, shelved, page, seen, still, shifted, pushed>>
    BY <1>7 DEF vars, database, walk
  <2>2. Matches(f)' = Matches(f) /\ \A i : Position(f, i)' = Position(f, i)
    BY <2>1, SameLists
  <2> QED BY <2>1, <2>2 DEF WalkInv
<1> QED BY <1>1, <1>3, <1>4, <1>5, <1>6, <1>7 DEF Next, Read

LEMMA WalkIsInvariant == Spec => [](TypeOK /\ WalkInv)
<1>1. Init => WalkInv
  BY DEF Init, WalkInv
<1> QED BY <1>1, TypeInit, TypeNext, WalkNext, PTL DEF Spec

\* Whatever others write between the pages of a search: an item that nobody
\* touched is missed only when one ahead of it has left the list, and read twice
\* only when one has come in ahead.
THEOREM WalksMissOnlyShifted == Spec => []WalkMissesOnlyShifted
<1>1. TypeOK /\ WalkInv => WalkMissesOnlyShifted
  BY DEF TypeOK, WalkInv, WalkMissesOnlyShifted
<1> QED BY <1>1, WalkIsInvariant, PTL

-----------------------------------------------------------------------------
(***************************************************************************)
(* Counts and their lists                                                  *)
(***************************************************************************)
\* Since the count that leads to a page was read, or the page was opened by its
\* address, nobody has written: the page shows the database as it is.
CountInv ==
    ~overtaken =>
        /\ page.at = "landing" => page.pieces = ProductionKPIs.total
        /\ page.at \in {"kpis", "dashboard"} =>
               page.kpis = ProductionKPIs /\ promised \in {None, ProductionKPIs.total}
        /\ page.at = "dashboard" => page.rows = ActorSummaries
        /\ page.at = "workspace" => Cardinality(page.list) = promised
        /\ page.at = "summary" => page.rows = ItemTypeSummary
        /\ page.at = "categories" => page.categories = ReportCategories(page.status)
        /\ page.at = "report" =>
               Cardinality(page.accessories) = SumOf([t \in Accessories |-> Row(page.categories, t, 0)])
        /\ page.at = "search" =>
               LET f == page.filters
               IN  /\ promised \in {None, Cardinality(Matches(f))}
                   /\ \A i \in 1..MaxItems :
                         seen[i] = IF i \in Matches(f) /\ Position(f, i) < f.page * f.limit THEN 1 ELSE 0
                   /\ ~page.next => \A i \in Matches(f) : Position(f, i) < f.page * f.limit

LEMMA SameQueries ==
    ASSUME UNCHANGED <<items, roster, shelved>>
    PROVE  /\ ProductionKPIs' = ProductionKPIs /\ ActorSummaries' = ActorSummaries
           /\ ItemTypeSummary' = ItemTypeSummary
           /\ \A s : ReportCategories(s)' = ReportCategories(s)
<1>1. /\ Live' = Live /\ Active' = Active
      /\ \A rows : Tally(rows)' = Tally(rows)
      /\ \A as : Joined(as)' = Joined(as)
  BY DEF Live, Ids, Active, Tally, Joined
<1>2. \A t : TypeRows(t)' = TypeRows(t)
  BY <1>1 DEF TypeRows
<1>3. \A rows, s : OfStatus(rows, s)' = OfStatus(rows, s)
  BY DEF OfStatus
<1>4. ProductionKPIs' = ProductionKPIs /\ ActorSummaries' = ActorSummaries
  BY <1>1 DEF ProductionKPIs, ActorSummaries
<1>5. ItemTypeSummary' = ItemTypeSummary
  BY <1>1, <1>2 DEF ItemTypeSummary
<1>6. \A s : ReportCategories(s)' = ReportCategories(s)
  BY <1>2, <1>3 DEF ReportCategories
<1> QED BY <1>4, <1>5, <1>6

\* A report's two statements, on the same database.
LEMMA AccessoriesAddUp ==
    ASSUME DatabaseOK, NEW s
    PROVE  Cardinality(ReportAccessories(s)) = SumOf([t \in Accessories |-> Row(ReportCategories(s), t, 0)])
<1> DEFINE part == [t \in Accessories |-> With(OfType(t), s)]
           S == UNION {With(OfType(t), s) : t \in Accessories}
<1>1. ReportAccessories(s) = S
  <2>1. \A t : OfStatus(TypeRows(t), s) = RowsOf(With(OfType(t), s))
    BY RowsOfType
  <2>2. ReportAccessories(s) = {r[2] : r \in UNION {RowsOf(With(OfType(t), s)) : t \in Accessories}}
    BY <2>1 DEF ReportAccessories
  <2>3. ASSUME NEW T, NEW i \in T PROVE \E r \in RowsOf(T) : r[2] = i
    <3>1. <<items[i].actor, i>> \in RowsOf(T) /\ <<items[i].actor, i>>[2] = i
      BY DEF RowsOf
    <3> QED BY <3>1
  <2>4. ASSUME NEW T, NEW r \in RowsOf(T) PROVE r[2] \in T
    BY DEF RowsOf
  <2> QED BY <2>2, <2>3, <2>4
<1>2. S \in SUBSET Ids /\ IsFiniteSet(S)
  BY RowsOfType, IdsFinite DEF With
<1>3. part \in [Accessories -> SUBSET S] /\ \A t \in Accessories : part[t] = With(OfType(t), s)
  OBVIOUS
<1>4. \A t, u \in Accessories : \A i \in S : i \in part[t] /\ i \in part[u] => t = u
  BY DEF With, OfType
<1>5. \A i \in S : \E t \in Accessories : i \in part[t]
  OBVIOUS
<1> HIDE DEF part, S
<1>6. SumOf([t \in Accessories |-> Cardinality(part[t])]) = Cardinality(S)
  BY <1>2, <1>3, <1>4, <1>5, SumOfParts
<1>7. ASSUME NEW t \in Accessories PROVE Row(ReportCategories(s), t, 0) = Cardinality(part[t])
  <2>1. t \in Types
    BY ScreensAssumption
  <2>2. CASE With(OfType(t), s) # {}
    BY <1>3, <2>1, <2>2, ReportFigures DEF Row
  <2>3. CASE With(OfType(t), s) = {}
    <3>1. t \notin DOMAIN ReportCategories(s)
      BY <2>3, ReportFigures
    <3>2. Cardinality(part[t]) = 0
      BY <1>3, <2>3, FS_EmptySet
    <3> QED BY <3>1, <3>2 DEF Row
  <2> QED BY <2>2, <2>3
<1> QED BY <1>1, <1>6, <1>7

\* A count of the summary, and the search that its link opens.
LEMMA SummaryCounts ==
    ASSUME DatabaseOK, NEW t \in DOMAIN ItemTypeSummary, NEW c \in {"total", "blocked"} \cup Statuses
    PROVE  Cardinality(Matches(Parse(SummaryQuery(t, c)))) =
               IF c \in Statuses THEN ItemTypeSummary[t].by[c] ELSE ItemTypeSummary[t][c]
<1> DEFINE f == [actor |-> Unset, type |-> t, status |-> IF c \in Statuses THEN c ELSE Unset,
                 blocked |-> c = "blocked", incomplete |-> FALSE, page |-> 1, limit |-> DefaultLimit]
           T == OfType(t)
<1>1. t \in Types /\ T # {} /\ ItemTypeSummary[t] = Figures(T)
  BY TypeFigures
<1>2. Parse(SummaryQuery(t, c)) = f
  BY <1>1, ParseSummaryQuery
<1>3. t \notin shelved /\ t # Unset /\ Unset \notin Statuses /\ {"total", "blocked"} \cap Statuses = {}
  BY <1>1, ScreensAssumption DEF OfType
<1>4. Matches(f) = {i \in T : /\ c \in Statuses => items[i].status = c
                              /\ c = "blocked" => items[i].blocked}
  BY <1>3 DEF Matches, OfType, Of, Active
<1>5. CASE c \in Statuses
  <2>1. Matches(f) = {i \in T : items[i].status = c}
    BY <1>3, <1>4, <1>5
  <2> HIDE DEF f, T
  <2> QED BY <1>1, <1>2, <1>5, <2>1 DEF Figures
<1>6. CASE c = "blocked"
  <2>1. Matches(f) = {i \in T : items[i].blocked}
    BY <1>3, <1>4, <1>6
  <2> HIDE DEF f, T
  <2> QED BY <1>1, <1>2, <1>3, <1>6, <2>1 DEF Figures
<1>7. CASE c = "total"
  <2>1. Matches(f) = T
    BY <1>3, <1>4, <1>7
  <2> HIDE DEF f, T
  <2> QED BY <1>1, <1>2, <1>3, <1>7, <2>1 DEF Figures
<1> QED BY <1>5, <1>6, <1>7

\* The pages of a search have listed as many items as the tab has counted.
LEMMA Singles ==
    ASSUME NEW D, NEW M \in SUBSET D, IsFiniteSet(M)
    PROVE  SumOf([k \in D |-> Cardinality(IF k \in M THEN {k} ELSE {})]) = Cardinality(M)
<1> DEFINE part == [k \in D |-> IF k \in M THEN {k} ELSE {}]
<1>1. part \in [D -> SUBSET M] /\ \A k \in D : part[k] = IF k \in M THEN {k} ELSE {}
  OBVIOUS
<1>2. \A j, k \in D : \A x \in M : x \in part[j] /\ x \in part[k] => j = k
  OBVIOUS
<1>3. \A x \in M : \E k \in D : x \in part[k]
  OBVIOUS
<1> HIDE DEF part
<1>4. SumOf([k \in D |-> Cardinality(part[k])]) = Cardinality(M)
  BY <1>1, <1>2, <1>3, SumOfParts
<1>5. [k \in D |-> Cardinality(part[k])] = [k \in D |-> Cardinality(IF k \in M THEN {k} ELSE {})]
  BY <1>1
<1> QED BY <1>4, <1>5

LEMMA SumOfSeen ==
    ASSUME NEW M \in SUBSET (1..MaxItems), NEW s \in [1..MaxItems -> 0..2],
           \A i \in 1..MaxItems : s[i] = IF i \in M THEN 1 ELSE 0
    PROVE  SumOf(s) = Cardinality(M)
<1>1. IsFiniteSet(M)
  <2>1. IsFiniteSet(1..MaxItems)
    BY ScreensAssumption, FS_Interval
  <2> QED BY <2>1, FS_Subset
<1>2. SumOf([k \in 1..MaxItems |-> Cardinality(IF k \in M THEN {k} ELSE {})]) = Cardinality(M)
  BY <1>1, Singles
<1>3. [k \in 1..MaxItems |-> Cardinality(IF k \in M THEN {k} ELSE {})] = s
  <2>1. ASSUME NEW k \in 1..MaxItems PROVE Cardinality(IF k \in M THEN {k} ELSE {}) = s[k]
    BY FS_Singleton, FS_EmptySet
  <2> QED BY <2>1
<1> QED BY <1>2, <1>3

\* A page that is no search.
LEMMA CountPages ==
    ASSUME TypeOK, CountInv, NEW CONSTANT a, NEW CONSTANT s,
           \/ OpenLanding \/ OpenDashboard \/ FollowShow \/ ReadSummaries \/ FollowActor(a)
           \/ OpenSummary \/ OpenReport(s) \/ ReadAccessories
    PROVE  CountInv'
<1>1. DatabaseOK /\ UNCHANGED <<items, roster, shelved>>
  BY TypedDatabase DEF OpenLanding, OpenDashboard, FollowShow, Dashboard, ReadSummaries, FollowActor,
                       OpenSummary, OpenReport, ReadAccessories, Show, database
<1>2. /\ ProductionKPIs' = ProductionKPIs /\ ActorSummaries' = ActorSummaries
      /\ ItemTypeSummary' = ItemTypeSummary
      /\ \A u : ReportCategories(u)' = ReportCategories(u)
  BY <1>1, SameQueries
<1>3. CASE OpenLanding
  <2>1. page' = [at |-> "landing", pieces |-> ProductionKPIs.total]
    BY <1>1, <1>3, DirectoryFigures DEF OpenLanding, Show
  <2> QED BY <1>2, <2>1 DEF CountInv
<1>4. CASE OpenDashboard
  <2>1. page' = [at |-> "kpis", kpis |-> ProductionKPIs] /\ promised' = None
    BY <1>4 DEF OpenDashboard, Dashboard, Show, Afresh
  <2> QED BY <1>2, <2>1 DEF CountInv
<1>5. CASE FollowShow
  <2>1. /\ page' = [at |-> "kpis", kpis |-> ProductionKPIs] /\ overtaken' = overtaken
        /\ ~overtaken => promised' = ProductionKPIs.total
    BY <1>5 DEF FollowShow, Dashboard, Show, ByCount, CountInv
  <2> QED BY <1>2, <2>1 DEF CountInv
<1>6. CASE ReadSummaries
  <2>1. /\ page' = [at |-> "dashboard", kpis |-> page.kpis, rows |-> ActorSummaries]
        /\ UNCHANGED <<promised, overtaken>>
        /\ ~overtaken => page.kpis = ProductionKPIs /\ promised \in {None, ProductionKPIs.total}
    BY <1>6 DEF ReadSummaries, Show, CountInv
  <2> QED BY <1>2, <2>1 DEF CountInv
<1>7. CASE FollowActor(a)
  <2>1. /\ page.at = "dashboard" /\ a \in DOMAIN page.rows /\ promised' = page.rows[a].total
        /\ page' = IF a \in Active THEN [at |-> "workspace", list |-> ItemsOf(a)] ELSE [at |-> "conflict"]
        /\ overtaken' = overtaken
    BY <1>7 DEF FollowActor, Show, ByCount
  <2>2. CASE overtaken \/ a \notin Active
    BY <2>1, <2>2 DEF CountInv
  <2>3. CASE ~overtaken /\ a \in Active
    <3>1. page.rows[a] = Figures(Of({a}))
      BY <1>1, <2>1, <2>3, ActorFigures DEF CountInv
    <3>2. Of({a}) = ItemsOf(a)
      BY <2>3 DEF Of, ItemsOf
    <3>3. promised' = Cardinality(ItemsOf(a))
      BY <2>1, <3>1, <3>2 DEF Figures
    <3> QED BY <2>1, <2>3, <3>3 DEF CountInv
  <2> QED BY <2>2, <2>3
<1>8. CASE OpenSummary
  <2>1. page' = [at |-> "summary", rows |-> ItemTypeSummary]
    BY <1>8 DEF OpenSummary, Show
  <2> QED BY <1>2, <2>1 DEF CountInv
<1>9. CASE OpenReport(s)
  <2>1. page' = [at |-> "categories", status |-> s, categories |-> ReportCategories(s)]
    BY <1>9 DEF OpenReport, Show
  <2>2. page'.status = s /\ page'.categories = ReportCategories(s)'
    BY <1>2, <2>1
  <2> QED BY <2>1, <2>2 DEF CountInv
<1>10. CASE ReadAccessories
  <2> PICK u : u = page.status
    OBVIOUS
  <2>1. /\ page' = [at |-> "report", categories |-> page.categories,
                    accessories |-> ReportAccessories(u)]
        /\ overtaken' = overtaken /\ (~overtaken => page.categories = ReportCategories(u))
    BY <1>10 DEF ReadAccessories, Show, CountInv
  <2>2. Cardinality(ReportAccessories(u))
            = SumOf([t \in Accessories |-> Row(ReportCategories(u), t, 0)])
    BY <1>1, AccessoriesAddUp
  <2> QED BY <2>1, <2>2 DEF CountInv
<1> QED BY <1>3, <1>4, <1>5, <1>6, <1>7, <1>8, <1>9, <1>10

\* The first page of a search, with the count that has led to it.
LEMMA CountSearch ==
    ASSUME TypeOK, NEW CONSTANT f \in Filters, f.page = 1, f.limit <= MaxLimit, Search(f),
           ~overtaken' => promised' \in {None, Cardinality(Matches(f))}
    PROVE  CountInv'
<1>1. /\ page'.at = "search" /\ page'.filters = f
      /\ \A i \in 1..MaxItems :
            seen'[i] = IF i \in Matches(f) /\ Position(f, i) < f.page * f.limit THEN 1 ELSE 0
      /\ ~page'.next => \A i \in Matches(f) : Position(f, i) < f.page * f.limit
      /\ Matches(f)' = Matches(f) /\ \A i : Position(f, i)' = Position(f, i)
  BY WalkSearch
<1> QED BY <1>1 DEF CountInv

LEMMA CountNextPage == ASSUME TypeOK, WalkInv, CountInv, NextPage PROVE CountInv'
<1> PICK g : g = page.filters
  OBVIOUS
<1> DEFINE f == [g EXCEPT !.page = g.page + 1]
           end == g.page * g.limit
<1>1. /\ g \in Filters /\ end \in Nat
      /\ page'.at = "search" /\ page'.filters = f
      /\ f.page * f.limit = end + g.limit
      /\ Matches(f) = Matches(g) /\ \A i : Position(f, i) = Position(g, i)
      /\ \A i \in 1..MaxItems :
            seen'[i] = IF i \in Matches(g) /\ Position(g, i) >= end /\ Position(g, i) < end + g.limit
                       THEN Min({seen[i] + 1, 2}) ELSE seen[i]
      /\ ~page'.next => \A i \in Matches(g) : Position(g, i) < end + g.limit
      /\ UNCHANGED <<items, roster, shelved, promised, overtaken>>
  BY PageFollows
<1>2. (\A i : Position(g, i) \in Nat) /\ g.limit \in Nat
  BY <1>1, TypedDatabase, MatchesOK DEF Filters
<1> HIDE DEF f
<1>3. Matches(f)' = Matches(f) /\ \A i : Position(f, i)' = Position(f, i)
  BY <1>1, SameLists
<1> SUFFICES ASSUME ~overtaken PROVE CountInv'
  BY <1>1 DEF CountInv
<1>4. /\ promised \in {None, Cardinality(Matches(g))}
      /\ \A i \in 1..MaxItems : seen[i] = IF i \in Matches(g) /\ Position(g, i) < end THEN 1 ELSE 0
  BY DEF CountInv, NextPage
<1>5. ASSUME NEW i \in 1..MaxItems
      PROVE  seen'[i] = IF i \in Matches(g) /\ Position(g, i) < end + g.limit THEN 1 ELSE 0
  <2>1. Min({0 + 1, 2}) = 1
    BY MinOfTwo
  <2>2. end \in Nat /\ g.limit \in Nat /\ Position(g, i) \in Nat
    BY <1>1, <1>2
  <2>3. seen[i] = IF i \in Matches(g) /\ Position(g, i) < end THEN 1 ELSE 0
    BY <1>4
  <2>4. seen'[i] = IF i \in Matches(g) /\ Position(g, i) >= end /\ Position(g, i) < end + g.limit
                   THEN Min({seen[i] + 1, 2}) ELSE seen[i]
    BY <1>1
  <2> HIDE DEF end
  <2>5. CASE Position(g, i) < end
    BY <2>2, <2>3, <2>4, <2>5
  <2>6. CASE ~(Position(g, i) < end)
    BY <2>1, <2>2, <2>3, <2>4, <2>6
  <2> QED BY <2>5, <2>6
<1> QED BY <1>1, <1>3, <1>4, <1>5 DEF CountInv

LEMMA CountNext == TypeOK /\ WalkInv /\ CountInv /\ [Next]_vars => CountInv'
<1> SUFFICES ASSUME TypeOK, WalkInv, CountInv, [Next]_vars PROVE CountInv'
  OBVIOUS
<1>1. CASE Write
  <2>1. overtaken' = TRUE
    BY <1>1, TypedDatabase, WriteKeepsDatabase DEF Written
  <2> QED BY <2>1 DEF CountInv
<1>2. ASSUME NEW a, NEW s,
             \/ OpenLanding \/ OpenDashboard \/ FollowShow \/ ReadSummaries \/ FollowActor(a)
             \/ OpenSummary \/ OpenReport(s) \/ ReadAccessories
      PROVE  CountInv'
  BY <1>2, CountPages
<1>4. ASSUME NEW f \in Forms, OpenSearch(f) PROVE CountInv'
  <2> PICK g : g = Parse(Query(f))
    OBVIOUS
  <2>1. g \in Filters /\ g.page = 1 /\ g.limit <= MaxLimit
    BY ParsedFilters, FormsAssumption
  <2>2. Search(g) /\ promised' = None
    BY <1>4 DEF OpenSearch, Afresh
  <2> QED BY <2>1, <2>2, CountSearch
<1>5. ASSUME NEW t \in Types, NEW c \in {"total", "blocked"} \cup Statuses, FollowCount(t, c)
      PROVE  CountInv'
  <2> PICK g : g = Parse(SummaryQuery(t, c))
    OBVIOUS
  <2>1. g \in Filters /\ g.page = 1 /\ g.limit <= MaxLimit
    BY SummaryFilters
  <2>2. /\ page.at = "summary" /\ t \in DOMAIN page.rows /\ Search(g) /\ overtaken' = overtaken
        /\ promised' = IF c \in Statuses THEN page.rows[t].by[c] ELSE page.rows[t][c]
    BY <1>5 DEF FollowCount, ByCount
  <2>3. ASSUME ~overtaken PROVE promised' = Cardinality(Matches(g))
    <3>1. page.rows = ItemTypeSummary
      BY <2>2, <2>3 DEF CountInv
    <3> QED BY <2>2, <3>1, TypedDatabase, SummaryCounts
  <2> QED BY <2>1, <2>2, <2>3, CountSearch
<1>6. CASE NextPage
  BY <1>6, CountNextPage
<1>7. CASE UNCHANGED vars
  <2> PICK f : f = page.filters
    OBVIOUS
  <2> PICK s : s = page.status
    OBVIOUS
  <2>1. UNCHANGED <<items, roster, shelved, page, promised, overtaken, seen>>
    BY <1>7 DEF vars, database, walk
  <2>2. Matches(f)' = Matches(f) /\ \A i : Position(f, i)' = Position(f, i)
    BY <2>1, SameLists
  <2>3. /\ ProductionKPIs' = ProductionKPIs /\ ActorSummaries' = ActorSummaries
        /\ ItemTypeSummary' = ItemTypeSummary
        /\ \A u : ReportCategories(u)' = ReportCategories(u)
    BY <2>1, SameQueries
  <2> QED BY <2>1, <2>2, <2>3 DEF CountInv
<1>8. CASE Read
  <2>1. CASE \/ OpenLanding \/ OpenDashboard \/ FollowShow \/ ReadSummaries
             \/ (\E a \in Actors : FollowActor(a)) \/ OpenSummary
             \/ (\E s \in Statuses \cup {Unset} : OpenReport(s)) \/ ReadAccessories
    BY <1>2, <2>1
  <2> QED BY <1>4, <1>5, <1>6, <1>8, <2>1 DEF Read
<1> QED BY <1>1, <1>7, <1>8 DEF Next

LEMMA CountIsInvariant == Spec => [](TypeOK /\ WalkInv /\ CountInv)
<1>1. Init => WalkInv /\ CountInv
  BY DEF Init, WalkInv, CountInv
<1> QED BY <1>1, TypeInit, TypeNext, WalkNext, CountNext, PTL DEF Spec

\* The five queries agree on every database the handlers can leave behind: the
\* dashboard's figures, its rows and the landing page; the summary, what it
\* leaves out, and reports.
THEOREM QueriesAgree == Spec => []RollupsAgree
<1>1. TypeOK => RollupsAgree
  BY TypedDatabase, Rollups
<1> QED BY <1>1, TypeIsInvariant, PTL

LEMMA CountsHold == TypeOK /\ CountInv => CountsMatchLists
<1> SUFFICES ASSUME TypeOK, CountInv, ~overtaken
             PROVE  /\ promised # None =>
                          /\ page.at \in {"kpis", "dashboard"} => page.kpis.total = promised
                          /\ page.at = "workspace" => Cardinality(page.list) = promised
                          /\ page.at = "search" /\ ~page.next => SumOf(seen) = promised
                    /\ page.at = "dashboard" =>
                          \A s \in Statuses :
                              page.kpis.by[s] = SumOf([a \in DOMAIN page.rows |-> page.rows[a].by[s]])
                    /\ page.at = "report" =>
                          Cardinality(page.accessories) =
                              SumOf([t \in Accessories |-> Row(page.categories, t, 0)])
  BY DEF CountsMatchLists
<1>1. DatabaseOK
  BY TypedDatabase
<1>2. promised # None => /\ page.at \in {"kpis", "dashboard"} => page.kpis.total = promised
                         /\ page.at = "workspace" => Cardinality(page.list) = promised
  BY DEF CountInv
<1>3. ASSUME promised # None, page.at = "search", ~page.next PROVE SumOf(seen) = promised
  <2> DEFINE f == page.filters
  <2>1. /\ promised = Cardinality(Matches(f))
        /\ \A i \in 1..MaxItems :
              seen[i] = IF i \in Matches(f) /\ Position(f, i) < f.page * f.limit THEN 1 ELSE 0
        /\ \A i \in Matches(f) : Position(f, i) < f.page * f.limit
    BY <1>3 DEF CountInv
  <2>2. Matches(f) \subseteq 1..MaxItems /\ seen \in [1..MaxItems -> 0..2]
    BY <1>1, IdsFinite, MatchesOK DEF TypeOK
  <2>3. \A i \in 1..MaxItems : seen[i] = IF i \in Matches(f) THEN 1 ELSE 0
    BY <2>1
  <2> QED BY <2>1, <2>2, <2>3, SumOfSeen
<1>4. ASSUME page.at = "dashboard", NEW s \in Statuses
      PROVE  page.kpis.by[s] = SumOf([a \in DOMAIN page.rows |-> page.rows[a].by[s]])
  <2>1. page.kpis = ProductionKPIs /\ page.rows = ActorSummaries
    BY <1>4 DEF CountInv
  <2>2. DOMAIN ActorSummaries = Active
    BY DEF ActorSummaries
  <2>3. ProductionKPIs.by[s] = SumOf([a \in Active |-> ActorSummaries[a].by[s]])
    BY <1>1, RowsAddUp
  <2> QED BY <2>1, <2>2, <2>3
<1>5. page.at = "report" =>
         Cardinality(page.accessories) = SumOf([t \in Accessories |-> Row(page.categories, t, 0)])
  BY DEF CountInv
<1> QED BY <1>2, <1>3, <1>4, <1>5

\* The pages of a search that nobody writes during have listed each match once
\* and nothing else.
WalkExact ==
    ~overtaken /\ page.at = "search" /\ ~page.next =>
        \A i \in 1..MaxItems : seen[i] = IF i \in Matches(page.filters) THEN 1 ELSE 0

\* Limit and offset cut a list into pages without a gap or an overlap, and the
\* link to the next page is there until the last, for every limit and filter.
THEOREM QuietWalksAreExact == Spec => []WalkExact
<1>1. CountInv => WalkExact
  BY DEF CountInv, WalkExact
<1> QED BY <1>1, CountIsInvariant, PTL

\* A count and the list behind its link agree, and so do the statements of one
\* page, unless somebody has written in between.
THEOREM CountsMatch == Spec => []CountsMatchLists
  BY CountsHold, CountIsInvariant, PTL
=============================================================================
