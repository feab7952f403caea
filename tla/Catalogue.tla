------------------------------ MODULE Catalogue ------------------------------
(***************************************************************************)
(* The lists of the web application and the queries behind them: contests   *)
(* by the end of their window, a creator's requests by their creation, a    *)
(* participant's contests by their last activity.  Each page is asked for   *)
(* with the cursor the page before it gave, while rows are inserted, move   *)
(* and change their status.                                                 *)
(*                                                                          *)
(* The module follows ONE view in one browser.  The browser keeps every     *)
(* answer it got under the filter and cursor it was asked with.             *)
(***************************************************************************)
EXTENDS Naturals, Sequences, FiniteSets

CONSTANTS
    Ids,                \* rows, ordered like their uuids
    LastTime,           \* bound on the times rows are sorted by
    PageSize,           \* pageSize of the query
    CatalogueScenarios  \* the situations explored, see CatalogueScene

CatalogueSpending == {"insert", "move", "turn", "back", "refresh", "filter", "fault"}
\* The list, its rows at first, whether the view is opened with a page's link, and
\* bounds on what the user and others do.
CatalogueScene == [list : {"contests", "requests", "activity"}, rows : SUBSET Ids,
                   linked : BOOLEAN, budget : [CatalogueSpending -> Nat]]

ASSUME CatalogueAssumption ==
    /\ Ids \subseteq Nat /\ IsFiniteSet(Ids)
    /\ LastTime \in Nat \ {0}
    /\ PageSize \in Nat \ {0}
    /\ CatalogueScenarios \subseteq CatalogueScene

VARIABLES
    table,           \* the rows of the list, by id
    filter,          \* the status the user asks for
    trail,           \* cursorHistory and, last, cursor
    answers,         \* the answers the browser keeps
    held,            \* the answer on screen until the one asked for is there
    asked,           \* the requests under way
    catalogueSpent,  \* how much of the budget is used
    catalogueScene   \* the situation explored

catalogueVars == <<table, filter, trail, answers, held, asked, catalogueSpent, catalogueScene>>

-----------------------------------------------------------------------------
ListStatuses == {"registered", "active"}
Filters  == {"any"} \cup ListStatuses

\* A row: its sort key, in milliseconds and a fraction below, and its status.
RowKey   == [id : Ids, time : 1 .. LastTime, sub : {0, 1}]
TableRow == [time : 1 .. LastTime, sub : {0, 1}, status : ListStatuses]
Missing  == [time |-> 0, sub |-> 0, status |-> "none"]

\* A cursor names a row and its time to the millisecond.
Cursor  == [id : Ids, time : 1 .. LastTime]
NoPage  == [id |-> 0, time |-> 0]
Cursors == Cursor \cup {NoPage}

\* What a page shows, in the order of its keys; listed is what the filter let through
\* when it was read.
Answer   == [filter : Filters, cursor : Cursors, items : SUBSET RowKey, next : Cursors,
             listed : SUBSET RowKey]
NoAnswer == [filter |-> "any", cursor |-> NoPage, items |-> {}, next |-> NoPage, listed |-> {}]
Request  == [filter : Filters, cursor : Cursors, step : {"query", "sync"},
             items : SUBSET RowKey, next : Cursors, listed : SUBSET RowKey]

Buy(what) ==
    /\ catalogueSpent[what] < catalogueScene.budget[what]
    /\ catalogueSpent' = [catalogueSpent EXCEPT ![what] = @ + 1]

-----------------------------------------------------------------------------
(* The queries                                                               *)

KeyOf(id) == [id |-> id, time |-> table[id].time, sub |-> table[id].sub]

\* The rows the filter lets through, as they stand.
Matching(wanted) ==
    {KeyOf(id) : id \in {i \in Ids : /\ table[i] # Missing
                                     /\ wanted \in {"any", table[i].status}}}

\* The newest row first, of equal ones the greatest id.
Precedes(a, b) ==
    \/ a.time > b.time
    \/ a.time = b.time /\ a.sub > b.sub
    \/ a.time = b.time /\ a.sub = b.sub /\ a.id > b.id

Ordered(S) ==
    CHOOSE s \in [1 .. Cardinality(S) -> S] : \A i, j \in DOMAIN s : i < j => Precedes(s[i], s[j])

\* A mutant: the time alone decides, and the other rows of the cursor's time are lost.
AfterCursorTime(key, cursor) == cursor = NoPage \/ key.time < cursor.time

\* The cursor has no fraction: only a row without one can be of its time.
AfterCursor(key, cursor) ==
    \/ cursor = NoPage
    \/ key.time < cursor.time
    \/ key.time = cursor.time /\ key.sub = 0 /\ key.id < cursor.id

\* One row more than the page is read; the cursor of the next page is of that row.
NextCursorOf(rows) ==
    IF Len(rows) > PageSize
    THEN [id |-> rows[PageSize + 1].id, time |-> rows[PageSize + 1].time] ELSE NoPage

FirstPage(rows) == {rows[i] : i \in DOMAIN rows \cap 1 .. PageSize}

Queried(request) ==
    LET listed == Matching(request.filter)
        rows   == Ordered({key \in listed : AfterCursor(key, request.cursor)})
    IN  [request EXCEPT !.step = "sync", !.items = FirstPage(rows),
                        !.next = NextCursorOf(rows), !.listed = listed]

-----------------------------------------------------------------------------
(* The view                                                                  *)

Current == trail[Len(trail)]

KeptFor(wanted, cursor) == {a \in answers : a.filter = wanted /\ a.cursor = cursor}
Kept(wanted, cursor) ==
    IF KeptFor(wanted, cursor) = {} THEN NoAnswer
    ELSE CHOOSE a \in KeptFor(wanted, cursor) : TRUE

IsAsked(wanted, cursor) == \E r \in asked : r.filter = wanted /\ r.cursor = cursor

\* isPaginationBusy, isFetching, isFetchingNextPage.
Busy == IsAsked(filter, Current)

\* keepPreviousData: the last answer stays until there is one for the new key.
OnScreen ==
    IF KeptFor(filter, Current) # {} THEN Kept(filter, Current)
    ELSE IF IsAsked(filter, Current) THEN held ELSE NoAnswer

NewRequest(wanted, cursor) ==
    [filter |-> wanted, cursor |-> cursor, step |-> "query", items |-> {},
     next |-> NoPage, listed |-> {}]

\* A key that is shown: a kept answer that is fresh is used as it is, a stale one
\* is asked for again.
Show(wanted, cursor) ==
    /\ held' = IF KeptFor(filter, Current) # {} THEN Kept(filter, Current) ELSE held
    /\ \/ KeptFor(wanted, cursor) # {} /\ UNCHANGED asked
       \/ IF IsAsked(wanted, cursor) THEN UNCHANGED asked
          ELSE asked' = asked \cup {NewRequest(wanted, cursor)}

\* Only a request's time is set by the database, with its fraction; only contests
\* are listed by status.
Possible ==
    {row \in TableRow : /\ catalogueScene.list # "requests" => row.sub = 0
                        /\ catalogueScene.list # "contests" => row.status = "registered"}

\* A link may name the cursor of any row there is.
CatalogueInit ==
    /\ catalogueScene \in CatalogueScenarios
    /\ \E rows \in [catalogueScene.rows -> Possible] :
          table = [id \in Ids |-> IF id \in catalogueScene.rows THEN rows[id] ELSE Missing]
    /\ filter = "any"
    /\ IF catalogueScene.linked
       THEN \E id \in catalogueScene.rows : trail = <<NoPage, [id |-> id, time |-> table[id].time]>>
       ELSE trail = <<NoPage>>
    /\ answers = {}
    /\ held = NoAnswer
    /\ asked = {NewRequest("any", trail[Len(trail)])}
    /\ catalogueSpent = [what \in CatalogueSpending |-> 0]

NextPage ==
    /\ ~Busy
    /\ OnScreen.next # NoPage
    /\ Buy("turn")
    /\ trail' = Append(trail, OnScreen.next)
    /\ Show(filter, OnScreen.next)
    /\ UNCHANGED <<table, filter, answers>>

PreviousPage ==
    /\ catalogueScene.list # "activity"
    /\ ~Busy
    /\ Len(trail) > 1
    /\ Buy("back")
    /\ trail' = SubSeq(trail, 1, Len(trail) - 1)
    /\ Show(filter, trail'[Len(trail')])
    /\ UNCHANGED <<table, filter, answers>>

\* The filter of the contests can be changed while an answer is awaited.
ChangeFilter(wanted) ==
    /\ catalogueScene.list = "contests"
    /\ wanted # filter
    /\ Buy("filter")
    /\ filter' = wanted
    /\ trail' = <<NoPage>>
    /\ Show(wanted, NoPage)
    /\ UNCHANGED <<table, answers>>

\* A list of pages under one another is read again from its first page.
Refresh ==
    /\ ~Busy
    /\ Buy("refresh")
    /\ IF catalogueScene.list = "activity"
       THEN /\ trail' = <<NoPage>>
            /\ answers' = {}
            /\ asked' = {NewRequest(filter, NoPage)}
       ELSE /\ asked' = asked \cup {NewRequest(filter, Current)}
            /\ UNCHANGED <<trail, answers>>
    /\ UNCHANGED <<table, filter, held>>

-----------------------------------------------------------------------------
(* The server                                                                *)

Query(request) ==
    /\ request \in asked
    /\ request.step = "query"
    /\ asked' = (asked \ {request}) \cup {Queried(request)}
    /\ UNCHANGED <<table, filter, trail, answers, held, catalogueSpent>>

\* synchronizeContestPhases: the rows of the page whose time may have come.
Due(request) ==
    {id \in Ids : /\ catalogueScene.list = "contests" /\ table[id].status = "registered"
                  /\ \E key \in request.items : key.id = id}

\* A contest that no longer has the status asked for is left out of the answer.
StillAsked(request, moved) ==
    {key \in request.items : request.filter = "registered" => key.id \notin moved}

Synchronize(request) ==
    /\ request \in asked
    /\ request.step = "sync"
    /\ \E moved \in SUBSET Due(request) :
          /\ table' = [id \in Ids |-> IF id \in moved
                                      THEN [table[id] EXCEPT !.status = "active"] ELSE table[id]]
          /\ answers' = (answers \ KeptFor(request.filter, request.cursor)) \cup
                {[filter |-> request.filter, cursor |-> request.cursor,
                  items |-> StillAsked(request, moved), next |-> request.next,
                  listed |-> request.listed]}
    /\ asked' = asked \ {request}
    /\ UNCHANGED <<filter, trail, held, catalogueSpent>>

\* The request fails, for good: what was kept stays.
LoseRequest(request) ==
    /\ request \in asked
    /\ Buy("fault")
    /\ asked' = asked \ {request}
    /\ UNCHANGED <<table, filter, trail, answers, held>>

-----------------------------------------------------------------------------
(* Everyone else                                                             *)

\* A request is created now; a contest ends, or was entered, at any time.
Insert(id, row) ==
    /\ table[id] = Missing
    /\ Buy("insert")
    /\ catalogueScene.list = "requests" =>
          \A other \in Ids :
             \/ row.time > table[other].time
             \/ row.time = table[other].time /\ row.sub > table[other].sub
    /\ table' = [table EXCEPT ![id] = row]
    /\ UNCHANGED <<filter, trail, answers, held, asked>>

\* A contest deployed again under its name gets another window; activity is only
\* ever newer.
MoveRow(id, time) ==
    /\ table[id] # Missing
    /\ catalogueScene.list # "requests"
    /\ time # table[id].time
    /\ catalogueScene.list = "activity" => time > table[id].time
    /\ Buy("move")
    /\ table' = [table EXCEPT ![id].time = time]
    /\ UNCHANGED <<filter, trail, answers, held, asked>>

CatalogueNext ==
    /\ \/ NextPage \/ PreviousPage \/ Refresh
       \/ \E wanted \in Filters : ChangeFilter(wanted)
       \/ \E request \in asked : Query(request) \/ Synchronize(request) \/ LoseRequest(request)
       \/ \E id \in Ids : \/ \E row \in Possible : Insert(id, row)
                          \/ \E time \in 1 .. LastTime : MoveRow(id, time)
    /\ UNCHANGED catalogueScene

CatalogueSpec == CatalogueInit /\ [][CatalogueNext]_catalogueVars

-----------------------------------------------------------------------------
(* Properties                                                                *)

\* Every variable has its type, one answer is kept for a key, and no page has more
\* rows than the page size.
CatalogueTypeOK ==
    /\ table \in [Ids -> TableRow \cup {Missing}]
    /\ filter \in Filters
    /\ trail \in Seq(Cursors) /\ trail # <<>>
    /\ answers \subseteq Answer
    /\ held \in Answer
    /\ asked \subseteq Request
    /\ \A a \in answers : KeptFor(a.filter, a.cursor) = {a} /\ Cardinality(a.items) <= PageSize

\* The pages from the first to the current one, as they were last answered.
Pages     == {i \in DOMAIN trail : KeptFor(filter, trail[i]) # {}}
Page(i)   == Kept(filter, trail[i])
IdsOn(i)  == {key.id : key \in Page(i).items}

\* The pages are a chain: whatever is refreshed, filtered or late, each page was
\* asked for with the cursor of the page before it, under the filter in force.
PagesAreAChain ==
    \A i \in Pages : i + 1 \in DOMAIN trail => trail[i + 1] = Page(i).next

\* No row is on two pages, whatever is inserted and wherever a participant's
\* contest moves meanwhile, unless a contest's window was changed.
NothingTwice ==
    (catalogueScene.list = "contests" => catalogueSpent["move"] = 0) =>
        \A i, j \in Pages : i # j => IdsOn(i) \cap IdsOn(j) = {}

\* The whole list was turned through, from its first page to its last.
WalkedThrough == Pages = DOMAIN trail /\ Page(Len(trail)).next = NoPage

\* The rows that were in the list, in the same place, whenever a page was read.
Steady == {key \in UNION {Page(i).listed : i \in Pages} : \A i \in Pages : key \in Page(i).listed}

Shown == UNION {IdsOn(i) : i \in Pages}

\* Of the rows that stayed where they were, and in the status asked for, a walk
\* through the list misses only those at a page's edge: the row a cursor names and
\* those created within its millisecond.
OnlyEdgesAreLost ==
    WalkedThrough =>
        \A key \in Steady :
            \/ key.id \in Shown
            \/ \E i \in DOMAIN trail :
                  \/ trail[i].id = key.id
                  \/ catalogueScene.list = "requests" /\ trail[i].time = key.time
            \/ filter = "registered" /\ table[key.id].status = "active"

\* Turning through the list is one walk over it: its pages fit together, nothing
\* comes twice and nothing is left out but at an edge.
WalkIsWhole == PagesAreAChain /\ NothingTwice /\ OnlyEdgesAreLost

\* Walking through the list shows every row that stayed (contestCreation.test.ts:
\* 105-128 creates three requests and expects the third on the second page).
NothingSkipped ==
    WalkedThrough /\ filter = "any" => \A key \in Steady : key.id \in Shown
===============================================================================
