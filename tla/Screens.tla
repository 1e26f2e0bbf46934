------------------------------- MODULE Screens -------------------------------
(***************************************************************************)
(* What the pages of one production show, while the production changes:    *)
(* the landing page (internal/web/landing.go), the dashboard and an        *)
(* actor's workspace (dashboard.go), the summary by item type              *)
(* (item_type_summary.go), reports (reports.go) and the search with its    *)
(* pages (item_search.go), over the queries of internal/storage.           *)
(*                                                                         *)
(* Five queries count the same pieces, each with its own joins and its own *)
(* conditions, and every count is a link to a list that a further query    *)
(* produces.  Every statement sees a database of its own: a page made of   *)
(* two statements may show two of them, and so may two pages of a search.  *)
(*                                                                         *)
(* A reader opens pages in one browser tab; meanwhile others write.  An    *)
(* item is its actor, type and status, and whether its blocker is filled   *)
(* in.  Filters by code, text and progress, one more condition each, are   *)
(* left out.                                                               *)
(***************************************************************************)
EXTENDS Integers, Sequences, FiniteSets, FiniteSetsExt, Functions

CONSTANTS
    Actors, Types,
    Accessories,   \* types whose name reads 'accessories'
    Workflow,      \* the statuses, in their order
    DefaultLimit,  \* DefaultItemSearchLimit
    MaxLimit,      \* MaxItemSearchLimit
    Forms,         \* filters that a search is opened with, at its first page
    FirstItems,    \* bound: items at first
    MaxItems,      \* bound: items that are ever created
    MaxWrites      \* bound: writes before and while pages are open

Unset == "any"     \* a filter that is not set
None  == -1        \* no count has led to the page
Null  == 0         \* the missing side of a LEFT JOIN

Statuses == Range(Workflow)
Complete == Workflow[Len(Workflow)]
Item == [actor : Actors, type : Types, status : Statuses, blocked : BOOLEAN,
         archived : BOOLEAN]

ASSUME ScreensAssumption ==
    /\ Workflow \in Seq(Statuses) \ {<<>>} /\ {"total", "blocked"} \cap Statuses = {}
    /\ Accessories \subseteq Types /\ Unset \notin Actors \cup Types \cup Statuses
    /\ MaxLimit \in Nat /\ DefaultLimit \in 1..MaxLimit
    /\ MaxItems \in Nat /\ FirstItems \in 0..MaxItems /\ MaxWrites \in Nat

VARIABLES
    items,         \* costume items, by id
    roster,        \* actors: absent, active or archived
    shelved,       \* archived item types
    page,          \* what the tab shows
    promised,      \* the count of the link that led to it
    \* history
    overtaken,     \* whether something was written since that count was read
    seen,          \* how often a search has listed an item (twice: or more)
    still,         \* its items that nobody has touched since it was opened
    shifted,       \* those for which an item ahead has left the list
    pushed,        \* those for which an item has come in ahead
    writes         \* bound

database == <<items, roster, shelved>>
walk == <<seen, still, shifted, pushed>>
vars == <<database, page, promised, overtaken, walk, writes>>

Ids    == DOMAIN items
Active == {a \in Actors : roster[a] = "active"}
Unread == [i \in 1..MaxItems |-> 0]

(***************************************************************************)
(* The queries.  A status or a blocker is counted in rows of a join.       *)
(***************************************************************************)
Live == {i \in Ids : ~items[i].archived}

\* FROM actors a LEFT JOIN costume_items ci ... WHERE a.archived_at IS NULL
Joined(as) ==
    LET Pieces(a) == {i \in Live : items[i].actor = a}
    IN  UNION {{a} \X (IF Pieces(a) = {} THEN {Null} ELSE Pieces(a)) : a \in as \cap Active}

\* Seeded bug: COUNT(*), which counts an actor without pieces as one.
CountRows(rows) == Cardinality(rows)

\* COUNT(ci.id)
Count(rows) == Cardinality({r \in rows : r[2] # Null})

\* The counts over a set of joined rows.
Tally(rows) ==
    LET own == {r \in rows : r[2] # Null}
    IN  [total   |-> Count(rows),
         blocked |-> Count({r \in own : items[r[2]].blocked}),
         by      |-> [s \in Statuses |-> Count({r \in own : items[r[2]].status = s})]]

ProductionKPIs == Tally(Joined(Actors))
ActorSummaries == [a \in Active |-> Tally(Joined({a}))]

ProductionDirectory ==
    LET rows == Joined(Actors)
    IN  [actors |-> Cardinality({r[1] : r \in rows}), pieces |-> Tally(rows).total,
         blocked |-> Tally(rows).blocked]

\* The inner joins of the summary and of reports also leave out archived types.
TypeRows(t) ==
    IF t \in shelved THEN {} ELSE {r \in Joined(Actors) : r[2] # Null /\ items[r[2]].type = t}

\* Only types with items have a row.
ItemTypeSummary ==
    [t \in {u \in Types : TypeRows(u) # {}} |-> Tally(TypeRows(t))]

OfStatus(rows, s) == {r \in rows : s \in {Unset, items[r[2]].status}}

ReportCategories(s) ==
    [t \in {u \in Types : OfStatus(TypeRows(u), s) # {}} |->
        Cardinality(OfStatus(TypeRows(t), s))]

ReportAccessories(s) ==
    {r[2] : r \in UNION {OfStatus(TypeRows(t), s) : t \in Accessories}}

-----------------------------------------------------------------------------
(***************************************************************************)
(* The search: query strings, filters and pages.                           *)
(***************************************************************************)
Filters == [actor : Actors \cup {Unset}, type : Types \cup {Unset}, status : Statuses \cup {Unset},
            blocked : BOOLEAN, incomplete : BOOLEAN, page : Nat \ {0}, limit : Nat \ {0}]

ASSUME FormsAssumption == Forms \subseteq {f \in Filters : f.page = 1}

\* Seeded bug: the link to the next page loses the filter for blocked items.
QueryUnblocked(f) ==
    LET named == [actor |-> f.actor # Unset, type |-> f.type # Unset, status |-> f.status # Unset,
                  incomplete |-> f.incomplete, limit |-> f.limit # DefaultLimit,
                  page |-> f.page > 1]
    IN  [k \in {j \in DOMAIN named : named[j]} |-> f[k]]

\* The parameters a link of the search names; others keep their default.
Query(f) ==
    LET named == [actor   |-> f.actor # Unset,  type  |-> f.type # Unset, status |-> f.status # Unset,
                  blocked |-> f.blocked, incomplete |-> f.incomplete,
                  limit   |-> f.limit # DefaultLimit, page |-> f.page > 1]
    IN  [k \in {j \in DOMAIN named : named[j]} |-> f[k]]

\* The first of the keys that the query has.
First(q, keys, default) ==
    LET given == {n \in DOMAIN keys : keys[n] \in DOMAIN q}
    IN  IF given = {} THEN default ELSE q[keys[Min(given)]]

\* Seeded bug: pages are numbered from zero.
ParseFromZero(q) ==
    [actor |-> First(q, <<"actor">>, Unset), type |-> First(q, <<"type">>, Unset),
     status |-> First(q, <<"status">>, Unset), blocked |-> First(q, <<"blocked">>, FALSE),
     incomplete |-> First(q, <<"incomplete">>, FALSE), page |-> First(q, <<"page">>, 0),
     limit |-> First(q, <<"limit">>, DefaultLimit)]

Parse(q) ==
    [actor      |-> First(q, <<"actor", "actor_id">>, Unset),
     type       |-> First(q, <<"type", "item_type", "item_type_id">>, Unset),
     status     |-> First(q, <<"status">>, Unset),
     blocked    |-> First(q, <<"blocked">>, FALSE),
     incomplete |-> First(q, <<"incomplete">>, FALSE),
     page       |-> First(q, <<"page">>, 1),
     limit      |-> Min({First(q, <<"limit">>, DefaultLimit), MaxLimit})]

\* The link of a count in the summary: one column of one row.
SummaryQuery(t, column) ==
    CASE column = "total"    -> [item_type_id |-> t]
      [] column = "blocked"  -> [item_type_id |-> t, blocked |-> TRUE]
      [] column \in Statuses -> [item_type_id |-> t, status |-> column]

Matches(f) ==
    {i \in Live :
        /\ items[i].actor \in Active
        /\ f.actor \in {Unset, items[i].actor}
        /\ f.type \in {Unset, items[i].type}
        /\ f.status \in {Unset, items[i].status}
        /\ f.blocked => items[i].blocked
        /\ f.incomplete => items[i].status # Complete}

\* ORDER BY the status in its workflow order, then the id
Before(i, j) ==
    LET Rank(k) == CHOOSE n \in DOMAIN Workflow : Workflow[n] = items[k].status
    IN  Rank(i) < Rank(j) \/ (Rank(i) = Rank(j) /\ i < j)

Ahead(f, i) == {j \in Matches(f) : Before(j, i)}

\* Seeded bug: the offset is the number of the page.
ListedFrom(f) ==
    {i \in Matches(f) : Cardinality(Ahead(f, i)) \in (f.page - 1)..(f.page - 2 + f.limit)}

\* LIMIT and OFFSET
Listed(f) ==
    LET offset == (f.page - 1) * f.limit
    IN  {i \in Matches(f) : Cardinality(Ahead(f, i)) \in offset..(offset + f.limit - 1)}

\* The list of an actor's workspace.
ItemsOf(a) == {i \in Live : items[i].actor = a}

-----------------------------------------------------------------------------
(***************************************************************************)
(* The database: every write of the handlers is one transaction.           *)
(***************************************************************************)
\* The tab is opened on a production as others have left it.
Init ==
    /\ items \in UNION {[1..n -> {i \in Item : ~i.blocked /\ ~i.archived}] : n \in 0..FirstItems}
    /\ roster \in [Actors -> {"absent", "active"}]
    /\ \A i \in Ids : items[i].actor \in Active
    /\ shelved = {}
    /\ page = [at |-> "away"]
    /\ promised = None /\ overtaken = FALSE
    /\ seen = Unread /\ still = {} /\ shifted = {} /\ pushed = {}
    /\ writes = 0

\* History: what a write has done to the search on the page.
Written ==
    /\ writes' = writes + 1
    /\ overtaken' = TRUE
    /\ UNCHANGED <<page, promised, seen>>
    /\ IF page.at # "search" THEN UNCHANGED <<still, shifted, pushed>>
       ELSE LET f == page.filters
            IN  /\ still' = {i \in still : i \in Matches(f)' /\ items'[i] = items[i]}
                /\ shifted' = shifted \cup {i \in still : ~(Ahead(f, i) \subseteq Ahead(f, i)')}
                /\ pushed' = pushed \cup {i \in still : ~(Ahead(f, i)' \subseteq Ahead(f, i))}

CreateItem(a, t, s) ==
    /\ Len(items) < MaxItems /\ a \in Active /\ t \notin shelved
    /\ items' = Append(items, [actor |-> a, type |-> t, status |-> s, blocked |-> FALSE,
                               archived |-> FALSE])
    /\ UNCHANGED <<roster, shelved>>
    /\ Written

\* The actor and the type must not be archived.
UpdateItem(i, t, s, b) ==
    /\ items[i].actor \in Active /\ t \notin shelved
    /\ items' = [items EXCEPT ![i].type = t, ![i].status = s, ![i].blocked = b]
    /\ items' # items
    /\ UNCHANGED <<roster, shelved>>
    /\ Written

ArchiveItem(i) ==
    /\ ~items[i].archived
    /\ items' = [items EXCEPT ![i].archived = TRUE]
    /\ UNCHANGED <<roster, shelved>>
    /\ Written

CreateActor(a) ==
    /\ roster[a] = "absent"
    /\ roster' = [roster EXCEPT ![a] = "active"]
    /\ UNCHANGED <<items, shelved>>
    /\ Written

\* The actor's items stay as they are.
ArchiveActor(a) ==
    /\ roster[a] = "active"
    /\ roster' = [roster EXCEPT ![a] = "archived"]
    /\ UNCHANGED <<items, shelved>>
    /\ Written

ArchiveItemType(t) ==
    /\ t \notin shelved /\ shelved' = shelved \cup {t}
    /\ UNCHANGED <<items, roster>>
    /\ Written

RestoreItemType(t) ==
    /\ t \in shelved /\ shelved' = shelved \ {t}
    /\ UNCHANGED <<items, roster>>
    /\ Written

-----------------------------------------------------------------------------
(***************************************************************************)
(* The tab.  A page is opened by its address, or by a link with a count.   *)
(***************************************************************************)
Show(p) == page' = p /\ UNCHANGED <<database, writes>>

\* By its address, where a trail of links begins: nothing has been promised.
Afresh == page.at = "away" /\ promised' = None /\ overtaken' = FALSE

\* By a link that shows n.
ByCount(n) == promised' = n /\ UNCHANGED overtaken

OpenLanding ==
    /\ Afresh /\ UNCHANGED walk
    /\ Show([at |-> "landing", pieces |-> ProductionDirectory.pieces])

\* Dashboard, up to its second query
Dashboard == Show([at |-> "kpis", kpis |-> ProductionKPIs]) /\ UNCHANGED walk
OpenDashboard == Afresh /\ Dashboard
FollowShow == page.at = "landing" /\ Dashboard /\ ByCount(page.pieces)

ReadSummaries ==
    /\ page.at = "kpis"
    /\ Show([at |-> "dashboard", kpis |-> page.kpis, rows |-> ActorSummaries])
    /\ UNCHANGED <<promised, overtaken, walk>>

\* The workspace of an actor, which is refused when the actor is archived.
FollowActor(a) ==
    /\ page.at = "dashboard" /\ a \in DOMAIN page.rows
    /\ Show(IF a \in Active THEN [at |-> "workspace", list |-> ItemsOf(a)] ELSE [at |-> "conflict"])
    /\ ByCount(page.rows[a].total) /\ UNCHANGED walk

OpenSummary ==
    /\ Afresh /\ UNCHANGED walk
    /\ Show([at |-> "summary", rows |-> ItemTypeSummary])

\* A report is made of two statements.
OpenReport(s) ==
    /\ Afresh /\ UNCHANGED walk
    /\ Show([at |-> "categories", status |-> s, categories |-> ReportCategories(s)])

ReadAccessories ==
    /\ page.at = "categories"
    /\ Show([at |-> "report", categories |-> page.categories,
             accessories |-> ReportAccessories(page.status)])
    /\ UNCHANGED <<promised, overtaken, walk>>

\* One page of a search, with a link to the next one when it is full.
SearchItems(f, before) ==
    /\ Show([at |-> "search", filters |-> f, next |-> Cardinality(Listed(f)) = f.limit])
    /\ seen' = [i \in 1..MaxItems |-> IF i \in Listed(f) THEN Min({before[i] + 1, 2}) ELSE before[i]]

Search(f) ==
    /\ SearchItems(f, Unread)
    /\ still' = Matches(f) /\ shifted' = {} /\ pushed' = {}

OpenSearch(f) == Afresh /\ Search(Parse(Query(f)))

FollowCount(t, column) ==
    /\ page.at = "summary" /\ t \in DOMAIN page.rows
    /\ Search(Parse(SummaryQuery(t, column)))
    /\ ByCount(IF column \in Statuses THEN page.rows[t].by[column] ELSE page.rows[t][column])

NextPage ==
    /\ page.at = "search" /\ page.next
    /\ SearchItems(Parse(Query([page.filters EXCEPT !.page = @ + 1])), seen)
    /\ UNCHANGED <<promised, overtaken, still, shifted, pushed>>

Write ==
    /\ writes < MaxWrites
    /\ \/ \E a \in Actors, t \in Types, s \in Statuses : CreateItem(a, t, s)
       \/ \E i \in Ids, t \in Types, s \in Statuses, b \in BOOLEAN : UpdateItem(i, t, s, b)
       \/ \E i \in Ids : ArchiveItem(i)
       \/ \E a \in Actors : CreateActor(a) \/ ArchiveActor(a)
       \/ \E t \in Types : ArchiveItemType(t) \/ RestoreItemType(t)

Read ==
    \/ OpenLanding \/ OpenDashboard \/ FollowShow \/ ReadSummaries
    \/ \E a \in Actors : FollowActor(a)
    \/ OpenSummary
    \/ \E s \in Statuses \cup {Unset} : OpenReport(s)
    \/ ReadAccessories
    \/ \E f \in Forms : OpenSearch(f)
    \/ \E t \in Types, c \in {"total", "blocked"} \cup Statuses : FollowCount(t, c)
    \/ NextPage

Next == Write \/ Read

Spec == Init /\ [][Next]_vars

-----------------------------------------------------------------------------
Counts == [total : Nat, blocked : Nat, by : [Statuses -> Nat]]

\* What each page shows.
PageOK ==
    /\ page.at \in {"away", "conflict", "landing", "kpis", "dashboard", "workspace", "summary",
                   "categories", "report", "search"}
    /\ page.at = "landing" => page.pieces \in Nat
    /\ page.at \in {"kpis", "dashboard"} => page.kpis \in Counts
    /\ page.at = "dashboard" => /\ DOMAIN page.rows \subseteq Actors
                               /\ \A a \in DOMAIN page.rows : page.rows[a] \in Counts
    /\ page.at = "workspace" => page.list \subseteq Ids
    /\ page.at = "summary" => /\ DOMAIN page.rows \subseteq Types
                             /\ \A t \in DOMAIN page.rows : page.rows[t] \in Counts
    /\ page.at \in {"categories", "report"} => DOMAIN page.categories \subseteq Types
    /\ page.at = "report" => page.accessories \subseteq Ids
    /\ page.at = "search" => page.filters \in Filters /\ page.next \in BOOLEAN

\* Every variable has its type, and a search knows the items it speaks of.
TypeOK ==
    /\ items \in Seq(Item) /\ Len(items) <= MaxItems
    /\ roster \in [Actors -> {"absent", "active", "archived"}]
    /\ shelved \subseteq Types
    /\ PageOK
    /\ promised \in Nat \cup {None}
    /\ overtaken \in BOOLEAN
    /\ seen \in [1..MaxItems -> 0..2]
    /\ still \subseteq Ids /\ shifted \subseteq Ids /\ pushed \subseteq Ids
    /\ writes \in 0..MaxWrites

\* The sum of a function's values, unit by unit.
SumOf(c) == Cardinality(UNION {{k} \X (1..c[k]) : k \in DOMAIN c})

\* The row of a type, which has none when it has no items.
Row(rows, t, nothing) == IF t \in DOMAIN rows THEN rows[t] ELSE nothing

\* The queries agree on every state of the database: the figures of the
\* dashboard are the sums of its rows and the figures of the landing page; the
\* columns of the summary add up and are the counts that a report shows for
\* that status; what the summary leaves out are the pieces of archived types.
\* (No page changes the database: its states are those without a page.)
\* (ProductionKPIs, ActorSummaries, ProductionDirectory, List and Generate.)
RollupsAgree ==
    LET kpis == ProductionKPIs
        actors == ActorSummaries
        types == ItemTypeSummary
        hidden == {i \in Live : items[i].actor \in Active /\ items[i].type \in shelved}
    IN  page.at = "away" =>
        /\ kpis.total = SumOf([a \in Active |-> actors[a].total])
        /\ kpis.blocked = SumOf([a \in Active |-> actors[a].blocked])
        /\ \A s \in Statuses : kpis.by[s] = SumOf([a \in Active |-> actors[a].by[s]])
        /\ kpis.total = SumOf(kpis.by)
        /\ ProductionDirectory =
               [actors |-> Cardinality(DOMAIN actors), pieces |-> kpis.total, blocked |-> kpis.blocked]
        /\ kpis.total = SumOf([t \in DOMAIN types |-> types[t].total]) + Cardinality(hidden)
        /\ \A t \in DOMAIN types :
               /\ types[t].total = ReportCategories(Unset)[t]
               /\ \A s \in Statuses : types[t].by[s] = Row(ReportCategories(s), t, 0)

\* As long as nobody writes, a count and the list behind its link agree, though
\* a different query makes each, and a page of two statements agrees with
\* itself: the landing page with the dashboard, its figures with its rows, a row
\* with the actor's workspace, a report's categories with its accessories, and a
\* count of the summary with all pages of the search it leads to.
\* (landing.go, dashboard.go, reports.go, itemTypeSummaryItemsPath and
\* parseItemSearchFilters, itemSearchURL and Search.)
CountsMatchLists ==
    ~overtaken =>
        /\ promised # None =>
               /\ page.at \in {"kpis", "dashboard"} => page.kpis.total = promised
               /\ page.at = "workspace" => Cardinality(page.list) = promised
               /\ page.at = "search" /\ ~page.next => SumOf(seen) = promised
        /\ page.at = "dashboard" =>
               \A s \in Statuses :
                   page.kpis.by[s] = SumOf([a \in DOMAIN page.rows |-> page.rows[a].by[s]])
        /\ page.at = "report" =>
               Cardinality(page.accessories) =
                   SumOf([t \in Accessories |-> Row(page.categories, t, 0)])

\* A search that has been read to its last page, whoever wrote in between, has
\* listed each item that nobody touched once, except that it may have missed one
\* when an item ahead of it left the list, and may have listed one twice when
\* an item came in ahead of it.  (Search: Limit and Offset; HasNext.)
WalkMissesOnlyShifted ==
    page.at = "search" /\ ~page.next =>
        \A i \in still : (seen[i] = 0 => i \in shifted) /\ (seen[i] = 2 => i \in pushed)
=============================================================================
