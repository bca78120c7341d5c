------------------------------- MODULE Pages -------------------------------
(***************************************************************************)
(* A list read page by page: InitPage and SetTotal of pkg/message and      *)
(* GetPageList of the generic repository, which counts the rows in one     *)
(* statement and reads the page in another.  Other goroutines insert and   *)
(* delete rows in between.  A client asks for any page, or walks from the  *)
(* first page to the last by the page count of each answer.  Go's int goes *)
(* up to MaxInt.                                                           *)
(***************************************************************************)
EXTENDS Integers, FiniteSets

CONSTANTS
    Ids,                \* primary keys, in the order of the rows
    MaxInt,             \* the greatest int
    Sent,               \* what clients send as page_index and page_size
    defaultPagesize,
    defaultPageindex

\* Count puts the number of rows into an int64, which int is as wide as.
ASSUME PageAssumption ==
    /\ Ids \subseteq Nat \ {0}
    /\ IsFiniteSet(Ids)
    /\ MaxInt \in Nat \ {0}
    /\ Cardinality(Ids) <= MaxInt
    /\ Sent \subseteq -(MaxInt + 1) .. MaxInt
    /\ defaultPagesize \in 1 .. MaxInt
    /\ defaultPageindex = 1

VARIABLES
    table,      \* the rows
    pc,         \* what the request does next
    req,        \* its PagedListRequest, after InitPage, and whether its order is by id
    total,      \* what Count found
    answer,     \* the page, and PageCount after SetTotal
    walk        \* history of the client's walk

vars == <<table, pc, req, total, answer, walk>>

NoAnswer == [page |-> {}, count |-> 0, given |-> FALSE]

\* seen: rows of the pages so far; twice: rows on two of them; there: rows
\* never deleted during the walk; pulled, pushed: a delete or an insert moved
\* unseen rows to earlier positions, or seen ones to later positions; raced: an
\* insert between Count and Find of the last page.
NoWalk == [on |-> FALSE, seen |-> {}, twice |-> {}, there |-> {},
           pulled |-> FALSE, pushed |-> FALSE, raced |-> FALSE]

-----------------------------------------------------------------------------
\* Arithmetic of the pages

Wrap(n) == ((n + MaxInt + 1) % (2 * (MaxInt + 1))) - (MaxInt + 1)

\* Seeded fault: the number of the page is not reduced by one.
InitPageOffByOne(index, size) ==
    LET i == IF index <= 0 THEN defaultPageindex ELSE index
        s == IF size <= 0 THEN defaultPagesize ELSE size
    IN  [PageIndex |-> i, PageSize |-> s, Skip |-> Wrap(i * s)]

\* Seeded fault: a page size of zero is not replaced.
InitPageKeepsZero(index, size) ==
    LET i == IF index <= 0 THEN defaultPageindex ELSE index
        s == IF size < 0 THEN defaultPagesize ELSE size
    IN  [PageIndex |-> i, PageSize |-> s, Skip |-> Wrap((i - 1) * s)]

InitPage(index, size) ==
    LET i == IF index <= 0 THEN defaultPageindex ELSE index
        s == IF size <= 0 THEN defaultPagesize ELSE size
    IN  [PageIndex |-> i, PageSize |-> s, Skip |-> Wrap((i - 1) * s)]

\* Seeded fault: the last page, when it is not full, is not counted.
SetTotalRoundsDown(n, size) ==
    IF n < 1 THEN 0 ELSE IF size <= 1 THEN n ELSE n \div size

\* Seeded fault: the comparison of the page size with one is turned round.
SetTotalPerRow(n, size) ==
    IF n < 1 THEN 0
    ELSE IF size >= 1 THEN n
    ELSE (n \div size) + (IF n % size > 0 THEN 1 ELSE 0)

\* The PageCount that SetTotal leaves; without rows it keeps its zero value.
SetTotal(n, size) ==
    IF n < 1 THEN 0
    ELSE IF size <= 1 THEN n
    ELSE (n \div size) + (IF n % size > 0 THEN 1 ELSE 0)

Rank(r) == Cardinality({s \in table : s <= r})

\* Seeded fault: the offset is taken for the position of the first row.
SliceFromOffset(skip, size) ==
    LET offset == IF skip > 0 THEN skip ELSE 0
    IN  {r \in table : Rank(r) >= offset /\ Rank(r) <= offset + size}

\* OFFSET and LIMIT in the order of the ids: gorm leaves out an OFFSET that is
\* not positive.
Slice(skip, size) ==
    LET offset == IF skip > 0 THEN skip ELSE 0
    IN  {r \in table : Rank(r) > offset /\ Rank(r) <= offset + size}

-----------------------------------------------------------------------------

Requests == [PageIndex : 1 .. MaxInt, PageSize : 1 .. MaxInt,
             Skip : -(MaxInt + 1) .. MaxInt]

TypeOK ==
    /\ table \subseteq Ids
    /\ pc \in {"idle", "count", "find"}
    /\ req \in [page : Requests, ordered : BOOLEAN]
    /\ total \in 0 .. Cardinality(Ids)
    /\ answer \in [page : SUBSET Ids, count : 0 .. Cardinality(Ids), given : BOOLEAN]
    /\ walk \in [on : BOOLEAN, seen : SUBSET Ids, twice : SUBSET Ids, there : SUBSET Ids,
                 pulled : BOOLEAN, pushed : BOOLEAN, raced : BOOLEAN]
    /\ walk.there \subseteq table

Init ==
    /\ table \in SUBSET Ids
    /\ pc = "idle"
    /\ req = [page |-> InitPage(defaultPageindex, defaultPagesize), ordered |-> TRUE]
    /\ total = 0
    /\ answer = NoAnswer
    /\ walk = NoWalk

\* A request for the first page starts a walk, any other is for itself.
Ask == \E index, size \in Sent, ordered \in BOOLEAN :
    /\ pc = "idle"
    /\ req' = [page |-> InitPage(index, size), ordered |-> ordered]
    /\ walk' = IF req'.page.PageIndex = 1
               THEN [NoWalk EXCEPT !.on = TRUE, !.there = table] ELSE NoWalk
    /\ answer' = NoAnswer
    /\ pc' = "count"
    /\ UNCHANGED <<table, total>>

MorePages == walk.on /\ answer.given /\ req.page.PageIndex < answer.count

NextPage ==
    /\ pc = "idle" /\ MorePages
    /\ req' = [req EXCEPT !.page = InitPage(@.PageIndex + 1, @.PageSize)]
    /\ walk' = [walk EXCEPT !.raced = FALSE]
    /\ answer' = NoAnswer
    /\ pc' = "count"
    /\ UNCHANGED <<table, total>>

Count ==
    /\ pc = "count"
    /\ total' = Cardinality(table)
    /\ pc' = "find"
    /\ UNCHANGED <<table, req, answer, walk>>

\* Without an order the database may return any rows of the right number.
Find ==
    /\ pc = "find"
    /\ LET slice == Slice(req.page.Skip, req.page.PageSize)
       IN  \E page \in SUBSET table :
            /\ IF req.ordered THEN page = slice ELSE Cardinality(page) = Cardinality(slice)
            /\ answer' = [page |-> page, count |-> SetTotal(total, req.page.PageSize),
                          given |-> TRUE]
            /\ walk' = IF walk.on
                       THEN [walk EXCEPT !.seen = @ \union page,
                                         !.twice = @ \union (walk.seen \intersect page)]
                       ELSE walk
    /\ pc' = "idle"
    /\ UNCHANGED <<table, req, total>>

\* ErrDatabase, from either statement: the client gives up its walk.
Fail ==
    /\ pc \in {"count", "find"}
    /\ pc' = "idle"
    /\ walk' = NoWalk
    /\ UNCHANGED <<table, req, total, answer>>

\* Writers are other goroutines.  Ids come from a sequence, but an insert with
\* a smaller id may commit after one with a larger id.
Insert == \E i \in Ids \ table :
    /\ table' = table \union {i}
    /\ walk' = IF walk.on
               THEN [walk EXCEPT !.pushed = @ \/ \E s \in walk.seen : i < s,
                                 !.raced = @ \/ pc = "find"]
               ELSE walk
    /\ UNCHANGED <<pc, req, total, answer>>

Delete == \E i \in table :
    /\ table' = table \ {i}
    /\ walk' = IF walk.on
               THEN [walk EXCEPT !.there = @ \ {i},
                                 !.pulled = @ \/ \E s \in walk.seen : i <= s]
               ELSE walk
    /\ UNCHANGED <<pc, req, total, answer>>

Next == Ask \/ NextPage \/ Count \/ Find \/ Fail \/ Insert \/ Delete

Spec == Init /\ [][Next]_vars

-----------------------------------------------------------------------------

Overflows == (req.page.PageIndex - 1) * req.page.PageSize > MaxInt

(***************************************************************************)
(* A page found in the table that was counted holds just the rows whose    *)
(* position falls on it, unless the product of the two numbers the client  *)
(* sent overflows, and is empty just when its number is above the page     *)
(* count (pagination.go:39, :59; repository.go:113, :117).                 *)
(***************************************************************************)
PageIsSlice ==
    pc = "find" /\ total = Cardinality(table) /\ ~Overflows =>
        LET slice == Slice(req.page.Skip, req.page.PageSize)
        IN  /\ slice = {r \in table :
                           (Rank(r) - 1) \div req.page.PageSize = req.page.PageIndex - 1}
            /\ slice = {} <=> req.page.PageIndex > SetTotal(total, req.page.PageSize)

(***************************************************************************)
(* Whatever overflows, a page never holds more rows than asked for, and a  *)
(* client that follows the page counts never causes an overflow            *)
(* (pagination.go:59).                                                     *)
(***************************************************************************)
PageIsBounded ==
    /\ answer.given => Cardinality(answer.page) <= req.page.PageSize
    /\ walk.on => ~Overflows

(***************************************************************************)
(* A finished walk by id showed every row that was there all the time,     *)
(* unless a row was deleted at or before one already shown, or a row was   *)
(* inserted between the two statements of the last page                    *)
(* (repository.go:113, :117).                                              *)
(***************************************************************************)
WalkMissesNothing ==
    walk.on /\ answer.given /\ ~MorePages /\ req.ordered =>
        walk.there \subseteq walk.seen \/ walk.pulled \/ walk.raced

(***************************************************************************)
(* A walk by id shows a row a second time only if a row was inserted       *)
(* before one already shown (repository.go:117).                           *)
(***************************************************************************)
WalkRepeatsNothing ==
    walk.on /\ req.ordered => walk.twice = {} \/ walk.pushed
=============================================================================
