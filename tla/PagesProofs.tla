---------------------------- MODULE PagesProofs ----------------------------
(***************************************************************************)
(* The properties of Pages, for any rows, any numbers a client may send    *)
(* and an int of any size.  Rows in front of the ones a walk has yet to    *)
(* read are what it has to be sure of: WalkInv.                            *)
(***************************************************************************)
EXTENDS Pages, FiniteSetTheorems, TLAPS

Index == req.page.PageIndex
Size == req.page.PageSize

RequestInv ==
    /\ req.page.Skip = Wrap((Index - 1) * Size)
    /\ pc # "idle" => ~answer.given
    /\ answer.given => \E n \in 0 .. Cardinality(Ids) : answer.count = SetTotal(n, Size)
    /\ walk.on \/ walk = NoWalk

\* The rows in front of the page to be read next, or of the one after the answer.
Gone == IF answer.given THEN Index * Size ELSE (Index - 1) * Size

\* Rows a walk has not seen are behind all it has seen, and so many are in
\* front of the last it has seen that none of them can be skipped.
UnseenBehind ==
    /\ \A r \in walk.there \ walk.seen : \A m \in walk.seen : m < r
    /\ \/ walk.there \subseteq walk.seen \/ Gone = 0
       \/ \E m \in walk.seen : Rank(m) >= Gone

\* The rows a walk has seen are in front of the page it reads next.
SeenInFront == \A m \in walk.seen : Cardinality({s \in table : s < m}) < Gone

WalkInv ==
    walk.on =>
        /\ ~Overflows
        /\ pc = "find" /\ ~walk.raced => Cardinality(table) <= total
        /\ req.ordered /\ ~walk.pulled => UnseenBehind
        /\ req.ordered /\ ~walk.pushed => SeenInFront /\ walk.twice = {}
        /\ WalkMissesNothing

BoundInv == answer.given => Cardinality(answer.page) <= Size

PagesInv == TypeOK /\ RequestInv /\ WalkInv /\ BoundInv

-----------------------------------------------------------------------------
(***************************************************************************)
(* The rows in front of a position: UpTo counts them with the row at it.   *)
(***************************************************************************)
UpTo(T, r) == {s \in T : s <= r}

LEMMA UpToCounts ==
    ASSUME NEW T \in SUBSET Nat, IsFiniteSet(T)
    PROVE  /\ Cardinality(T) \in Nat
           /\ \A a \in Nat : /\ IsFiniteSet(UpTo(T, a))
                             /\ Cardinality(UpTo(T, a)) \in 0 .. Cardinality(T)
           /\ \A a, b \in Nat :
                  /\ a <= b => Cardinality(UpTo(T, a)) <= Cardinality(UpTo(T, b))
                  /\ a < b /\ b \in T =>
                         Cardinality(UpTo(T, a)) < Cardinality(UpTo(T, b))
           /\ \A r \in T : Cardinality(UpTo(T, r)) >= 1
  <1>1. \A s \in T : s \in Nat
    OBVIOUS
  <1>2. \A a, b \in Nat : a <= b => UpTo(T, a) \subseteq UpTo(T, b)
    <2> TAKE a, b \in Nat
    <2> SUFFICES ASSUME a <= b, NEW s \in UpTo(T, a) PROVE s \in UpTo(T, b)
      OBVIOUS
    <2>1. s \in T /\ s \in Nat /\ s <= a
      BY <1>1 DEF UpTo
    <2> QED
      BY <2>1 DEF UpTo
  <1>3. Cardinality(T) \in Nat
    BY FS_CardinalityType
  <1>4. ASSUME NEW a \in Nat
        PROVE  /\ IsFiniteSet(UpTo(T, a))
               /\ Cardinality(UpTo(T, a)) \in 0 .. Cardinality(T)
    <2>1. UpTo(T, a) \subseteq T
      BY DEF UpTo
    <2>2. IsFiniteSet(UpTo(T, a)) /\ Cardinality(UpTo(T, a)) <= Cardinality(T)
      BY <2>1, FS_Subset
    <2>3. Cardinality(UpTo(T, a)) \in Nat
      BY <2>2, FS_CardinalityType
    <2> QED
      BY <1>3, <2>2, <2>3
  <1>5. ASSUME NEW a \in Nat, NEW b \in Nat, a <= b
        PROVE  Cardinality(UpTo(T, a)) <= Cardinality(UpTo(T, b))
    <2>1. UpTo(T, a) \subseteq UpTo(T, b)
      BY <1>2, <1>5
    <2> QED
      BY <1>4, <2>1, FS_Subset
  <1>6. ASSUME NEW a \in Nat, NEW b \in T, a < b
        PROVE  Cardinality(UpTo(T, a)) < Cardinality(UpTo(T, b))
    <2>1. UpTo(T, a) \subseteq UpTo(T, b)
      BY <1>1, <1>2, <1>6
    <2>2. b \in Nat /\ b \in UpTo(T, b) /\ b \notin UpTo(T, a)
      BY <1>1, <1>6 DEF UpTo
    <2>3. /\ Cardinality(UpTo(T, a)) <= Cardinality(UpTo(T, b))
          /\ Cardinality(UpTo(T, a)) # Cardinality(UpTo(T, b))
      BY <1>1, <1>4, <2>1, <2>2, FS_Subset
    <2> QED
      BY <1>1, <1>4, <2>3
  <1>7. ASSUME NEW r \in T PROVE Cardinality(UpTo(T, r)) >= 1
    <2>1. r \in UpTo(T, r)
      BY DEF UpTo
    <2>2. Cardinality(UpTo(T, r)) # 0
      BY <1>4, <2>1, FS_EmptySet
    <2> QED
      BY <1>4, <2>2
  <1> QED
    BY <1>3, <1>4, <1>5, <1>6, <1>7

(***************************************************************************)
(* No two rows have one position, and every position up to the number of   *)
(* rows is one's; so a stretch of positions holds no more rows than it is  *)
(* long.                                                                   *)
(***************************************************************************)
LEMMA EveryPosition ==
    ASSUME NEW T \in SUBSET Nat, IsFiniteSet(T), NEW k \in 1 .. Cardinality(T)
    PROVE  \E r \in T : Cardinality(UpTo(T, r)) = k
  <1> DEFINE n == Cardinality(T)
             f == [r \in T |-> Cardinality(UpTo(T, r))]
  <1>1. n \in Nat
    BY UpToCounts
  <1>2. f \in [T -> 1 .. n]
    BY UpToCounts
  <1>3. ASSUME NEW a \in T, NEW b \in T, f[a] = f[b] PROVE a = b
    <2>1. a \in Nat /\ b \in Nat
      OBVIOUS
    <2>2. CASE a < b
      BY <1>3, <2>1, <2>2, UpToCounts
    <2>3. CASE b < a
      BY <1>3, <2>1, <2>3, UpToCounts
    <2> QED
      BY <2>1, <2>2, <2>3
  <1>4. f \in Injection(T, 1 .. n)
    BY <1>2, <1>3 DEF Injection, IsInjective
  <1>5. IsFiniteSet(1 .. n) /\ Cardinality(1 .. n) = n
    BY <1>1, FS_Interval
  <1>6. f \in Surjection(T, 1 .. n)
    BY <1>4, <1>5, FS_Injection
  <1> QED
    BY <1>6 DEF Surjection

LEMMA StretchIsBounded ==
    ASSUME NEW T \in SUBSET Nat, IsFiniteSet(T), NEW o \in Nat, NEW n \in Nat
    PROVE  LET S == {r \in T : Cardinality(UpTo(T, r)) > o /\ Cardinality(UpTo(T, r)) <= o + n}
           IN  IsFiniteSet(S) /\ Cardinality(S) <= n
  <1> DEFINE S == {r \in T : Cardinality(UpTo(T, r)) > o /\ Cardinality(UpTo(T, r)) <= o + n}
             f == [r \in S |-> Cardinality(UpTo(T, r))]
  <1>1. f \in [S -> o + 1 .. o + n]
    <2>1. \A r \in T : Cardinality(UpTo(T, r)) \in Nat
      BY UpToCounts
    <2>2. \A r \in S : Cardinality(UpTo(T, r)) \in o + 1 .. o + n
      BY <2>1
    <2> HIDE DEF S
    <2> QED
      BY <2>2
  <1>2. ASSUME NEW a \in S, NEW b \in S, f[a] = f[b] PROVE a = b
    <2>1. a \in Nat /\ b \in Nat /\ a \in T /\ b \in T
      OBVIOUS
    <2>2. CASE a < b
      BY <1>2, <2>1, <2>2, UpToCounts
    <2>3. CASE b < a
      BY <1>2, <2>1, <2>3, UpToCounts
    <2> QED
      BY <2>1, <2>2, <2>3
  <1>3. f \in Injection(S, o + 1 .. o + n)
    BY <1>1, <1>2 DEF Injection, IsInjective
  <1>4. IsFiniteSet(o + 1 .. o + n) /\ Cardinality(o + 1 .. o + n) = n
    <2>1. IsFiniteSet(o + 1 .. o + n)
          /\ Cardinality(o + 1 .. o + n) = IF o + 1 > o + n THEN 0 ELSE (o + n) - (o + 1) + 1
      BY FS_Interval
    <2> QED
      BY <2>1
  <1> HIDE DEF f, S
  <1>5. IsFiniteSet(S) /\ Cardinality(S) <= n
    BY <1>3, <1>4, FS_Injection
  <1> QED
    BY <1>5 DEF S

-----------------------------------------------------------------------------
(***************************************************************************)
(* The arithmetic of the pages.                                            *)
(***************************************************************************)
LEMMA WrapIsInt ==
    ASSUME NEW n \in Int
    PROVE  /\ Wrap(n) \in -(MaxInt + 1) .. MaxInt
           /\ n \in 0 .. MaxInt => Wrap(n) = n
  <1> DEFINE K == 2 * (MaxInt + 1)
             x == n + MaxInt + 1
  <1>1. K \in Nat /\ K > 0 /\ x \in Int /\ MaxInt \in Nat
    BY PageAssumption
  <1>2. Wrap(n) = (x % K) - (MaxInt + 1)
    BY DEF Wrap
  <1> HIDE DEF K, x
  <1>3. x % K \in 0 .. K - 1
    BY <1>1
  <1>4. x \in 0 .. K - 1 => x % K = x
    BY <1>1
  <1> QED
    BY <1>1, <1>2, <1>3, <1>4 DEF K, x

LEMMA ProductLess ==
    ASSUME NEW a \in Int, NEW b \in Int, NEW s \in Nat, a < b
    PROVE  a * s + s <= b * s
  <1>1. (b - a - 1) * s >= 0
    <2>1. b - a - 1 \in Nat
      OBVIOUS
    <2> QED
      BY <2>1
  <1> QED
    BY <1>1

LEMMA Products ==
    ASSUME NEW a \in Nat, NEW s \in Nat
    PROVE  a * s \in Nat /\ (a + 1) * s = a * s + s
  OBVIOUS

(***************************************************************************)
(* There are just so many pages that the rows fall on them.                *)
(***************************************************************************)
LEMMA PagesEnough ==
    ASSUME NEW n \in Nat, NEW s \in Nat \ {0}
    PROVE  /\ SetTotal(n, s) \in 0 .. n
           /\ n <= SetTotal(n, s) * s
           /\ SetTotal(n, s) >= 1 => (SetTotal(n, s) - 1) * s < n
  <1> DEFINE d == n \div s
  <1>1. d \in Nat /\ d * s <= n /\ n < d * s + s
    OBVIOUS
  <1>2. n % s = n - d * s
    OBVIOUS
  <1>3. CASE n < 1
    <2>1. n = 0 /\ SetTotal(n, s) = 0
      BY <1>3 DEF SetTotal
    <2> QED
      BY <2>1
  <1>4. CASE n >= 1 /\ s <= 1
    <2>1. s = 1 /\ SetTotal(n, s) = n
      BY <1>4 DEF SetTotal
    <2> QED
      BY <2>1
  <1>5. CASE n >= 1 /\ s > 1
    <2>1. SetTotal(n, s) = d + (IF n % s > 0 THEN 1 ELSE 0)
      BY <1>5 DEF SetTotal
    <2> HIDE DEF d
    <2>2. CASE n = d * s
      <3>1. SetTotal(n, s) = d
        BY <1>1, <1>2, <2>1, <2>2
      <3>2. d <= d * s /\ (d - 1) * s = d * s - s
        BY <1>1, <1>5
      <3> QED
        BY <1>1, <1>5, <2>2, <3>1, <3>2
    <2>3. CASE n > d * s
      <3>1. SetTotal(n, s) = d + 1
        BY <1>1, <1>2, <2>1, <2>3
      <3>2. d <= d * s /\ (d + 1) * s = d * s + s
        BY <1>1, <1>5
      <3> QED
        BY <1>1, <1>5, <2>3, <3>1, <3>2
    <2> QED
      BY <1>1, <2>2, <2>3
  <1> QED
    BY <1>3, <1>4, <1>5

-----------------------------------------------------------------------------
(***************************************************************************)
(* The positions of the rows of the table, now and after a step.           *)
(***************************************************************************)
LEMMA TableIsFinite ==
    TypeOK => /\ table \in SUBSET Nat /\ IsFiniteSet(table)
              /\ Cardinality(table) \in 0 .. Cardinality(Ids)
              /\ Cardinality(Ids) \in 0 .. MaxInt
              /\ Ids \subseteq Nat
  <1> SUFFICES ASSUME TypeOK
               PROVE  /\ table \in SUBSET Nat /\ IsFiniteSet(table)
                      /\ Cardinality(table) \in 0 .. Cardinality(Ids)
                      /\ Cardinality(Ids) \in 0 .. MaxInt
                      /\ Ids \subseteq Nat
    OBVIOUS
  <1>1. table \subseteq Ids /\ Ids \subseteq Nat /\ IsFiniteSet(Ids)
    BY PageAssumption DEF TypeOK
  <1>2. IsFiniteSet(table) /\ Cardinality(table) <= Cardinality(Ids)
    BY <1>1, FS_Subset
  <1>3. Cardinality(table) \in Nat /\ Cardinality(Ids) \in Nat
    BY <1>1, <1>2, FS_CardinalityType
  <1> QED
    BY <1>1, <1>2, <1>3, PageAssumption

LEMMA Ranks ==
    ASSUME TypeOK
    PROVE  /\ \A a \in Nat : Rank(a) \in 0 .. Cardinality(table)
           /\ \A a, b \in Nat : /\ a <= b => Rank(a) <= Rank(b)
                                /\ a < b /\ b \in table => Rank(a) < Rank(b)
           /\ \A r \in table : Rank(r) >= 1
           /\ \A k \in 1 .. Cardinality(table) : \E r \in table : Rank(r) = k
  <1>1. table \in SUBSET Nat /\ IsFiniteSet(table)
    BY TableIsFinite
  <1>2. \A a : Rank(a) = Cardinality(UpTo(table, a))
    BY DEF Rank, UpTo
  <1>3. \A k \in 1 .. Cardinality(table) : \E r \in table : Rank(r) = k
    BY <1>1, <1>2, EveryPosition
  <1> QED
    BY <1>1, <1>2, <1>3, UpToCounts

LEMMA RankOrder ==
    ASSUME TypeOK, NEW a \in Nat, NEW b \in Nat
    PROVE  /\ Rank(a) \in Nat
           /\ a <= b => Rank(a) <= Rank(b)
           /\ a < b /\ b \in table => Rank(a) < Rank(b)
  <1>1. Rank(a) \in Nat
    BY Ranks
  <1>2. a <= b => Rank(a) <= Rank(b)
    BY Ranks
  <1>3. a < b /\ b \in table => Rank(a) < Rank(b)
    BY Ranks
  <1> QED
    BY <1>1, <1>2, <1>3

LEMMA SliceIsBounded ==
    ASSUME TypeOK, NEW skip \in Int, NEW size \in Nat
    PROVE  /\ Slice(skip, size) \subseteq table
           /\ Cardinality(Slice(skip, size)) <= size
  <1> DEFINE o == IF skip > 0 THEN skip ELSE 0
  <1>1. o \in Nat
    OBVIOUS
  <1>2. table \in SUBSET Nat /\ IsFiniteSet(table)
    BY TableIsFinite
  <1>3. Slice(skip, size) = {r \in table : /\ Cardinality(UpTo(table, r)) > o
                                           /\ Cardinality(UpTo(table, r)) <= o + size}
    BY DEF Slice, Rank, UpTo
  <1> HIDE DEF o
  <1> QED
    BY <1>1, <1>2, <1>3, StretchIsBounded

(***************************************************************************)
(* What a page holds if nothing overflows.                                 *)
(***************************************************************************)
LEMMA SliceWithoutOverflow ==
    ASSUME TypeOK, RequestInv, ~Overflows
    PROVE  /\ (Index - 1) * Size \in Nat
           /\ Slice(req.page.Skip, Size) =
                  {r \in table : /\ Rank(r) > (Index - 1) * Size
                                 /\ Rank(r) <= (Index - 1) * Size + Size}
  <1>1. Index \in 1 .. MaxInt /\ Size \in 1 .. MaxInt /\ MaxInt \in Nat
    BY PageAssumption DEF TypeOK, Requests, Index, Size
  <1>2. (Index - 1) * Size \in Nat
    <2>1. Index - 1 \in Nat /\ Size \in Nat
      BY <1>1
    <2> QED
      BY <2>1
  <1>3. (Index - 1) * Size <= MaxInt
    BY <1>1, <1>2 DEF Overflows, Index, Size
  <1>4. req.page.Skip = (Index - 1) * Size
    BY <1>1, <1>2, <1>3, WrapIsInt DEF RequestInv
  <1> HIDE DEF Index, Size
  <1>5. (IF req.page.Skip > 0 THEN req.page.Skip ELSE 0) = (Index - 1) * Size
    BY <1>2, <1>4
  <1> QED
    BY <1>2, <1>5 DEF Slice

-----------------------------------------------------------------------------
(***************************************************************************)
(* InitPage makes a proper request of any two numbers.                     *)
(***************************************************************************)
LEMMA InitPageType ==
    ASSUME NEW index \in Int, NEW size \in Int, index <= MaxInt, size <= MaxInt
    PROVE  LET page == InitPage(index, size)
           IN  /\ page \in Requests
               /\ page.PageIndex = IF index <= 0 THEN 1 ELSE index
               /\ page.PageSize = IF size <= 0 THEN defaultPagesize ELSE size
               /\ page.Skip = Wrap((page.PageIndex - 1) * page.PageSize)
  <1> DEFINE i == IF index <= 0 THEN defaultPageindex ELSE index
             s == IF size <= 0 THEN defaultPagesize ELSE size
  <1>1. i \in 1 .. MaxInt /\ s \in 1 .. MaxInt /\ MaxInt \in Nat
    BY PageAssumption
  <1>2. InitPage(index, size) = [PageIndex |-> i, PageSize |-> s, Skip |-> Wrap((i - 1) * s)]
    BY DEF InitPage
  <1>3. i = (IF index <= 0 THEN 1 ELSE index)
    BY PageAssumption
  <1>4. s = (IF size <= 0 THEN defaultPagesize ELSE size)
    OBVIOUS
  <1> HIDE DEF i, s
  <1>5. (i - 1) * s \in Int
    BY <1>1
  <1>6. Wrap((i - 1) * s) \in -(MaxInt + 1) .. MaxInt
    BY <1>5, WrapIsInt
  <1> QED
    BY <1>1, <1>2, <1>3, <1>4, <1>6 DEF Requests

Walks == [on : BOOLEAN, seen : SUBSET Ids, twice : SUBSET Ids, there : SUBSET Ids,
          pulled : BOOLEAN, pushed : BOOLEAN, raced : BOOLEAN]
Answers == [page : SUBSET Ids, count : 0 .. Cardinality(Ids), given : BOOLEAN]

(***************************************************************************)
(* The types of the parts of the state.                                    *)
(***************************************************************************)
LEMMA PageTypes ==
    ASSUME TypeOK
    PROVE  /\ req \in [page : Requests, ordered : BOOLEAN]
           /\ Index \in Nat \ {0} /\ Index <= MaxInt /\ Size \in Nat \ {0} /\ Size <= MaxInt
           /\ MaxInt \in Nat
           /\ total \in Nat /\ total <= Cardinality(Ids) /\ Cardinality(Ids) \in Nat
           /\ answer.count \in Nat /\ answer.count <= MaxInt
  <1>1. Cardinality(Ids) \in Nat /\ Cardinality(Ids) <= MaxInt /\ MaxInt \in Nat
    BY PageAssumption, TableIsFinite
  <1>2. req \in [page : Requests, ordered : BOOLEAN] /\ total \in 0 .. Cardinality(Ids)
        /\ answer.count \in 0 .. Cardinality(Ids)
    BY DEF TypeOK
  <1>3. Index \in 1 .. MaxInt /\ Size \in 1 .. MaxInt
    BY <1>2 DEF Index, Size, Requests
  <1> QED
    BY <1>1, <1>2, <1>3

LEMMA PagesTypeStep ==
    TypeOK /\ RequestInv /\ [Next]_vars => TypeOK'
  <1> SUFFICES ASSUME TypeOK, RequestInv, [Next]_vars
               PROVE  TypeOK'
    OBVIOUS
  <1>1. /\ table \subseteq Ids /\ pc \in {"idle", "count", "find"}
        /\ req \in [page : Requests, ordered : BOOLEAN] /\ total \in 0 .. Cardinality(Ids)
        /\ answer \in Answers /\ walk \in Walks /\ walk.there \subseteq table
    BY DEF TypeOK, Walks, Answers
  <1>2. SUFFICES /\ table' \subseteq Ids /\ pc' \in {"idle", "count", "find"}
                 /\ req' \in [page : Requests, ordered : BOOLEAN]
                 /\ total' \in 0 .. Cardinality(Ids)
                 /\ answer' \in Answers /\ walk' \in Walks /\ walk'.there \subseteq table'
    BY <1>2 DEF TypeOK, Walks, Answers
  <1>3. NoAnswer \in Answers /\ NoWalk \in Walks /\ NoWalk.there = {}
    <2>1. Cardinality(Ids) \in Nat
      BY PageTypes
    <2> QED
      BY <2>1 DEF NoAnswer, Answers, NoWalk, Walks
  <1>4. walk.on \/ walk = NoWalk
    BY DEF RequestInv
  <1>5. CASE Ask
    <2>1. PICK index \in Sent, size \in Sent, ordered \in BOOLEAN :
              req' = [page |-> InitPage(index, size), ordered |-> ordered]
      BY <1>5 DEF Ask
    <2>2. InitPage(index, size) \in Requests
      <3>1. index \in Int /\ size \in Int /\ index <= MaxInt /\ size <= MaxInt
        BY PageAssumption
      <3> QED
        BY <3>1, InitPageType
    <2>3. walk' \in Walks /\ walk'.there \subseteq table
      <3>1. [NoWalk EXCEPT !.on = TRUE, !.there = table] \in Walks
        BY <1>1, <1>3 DEF Walks
      <3>2. [NoWalk EXCEPT !.on = TRUE, !.there = table].there = table
        BY DEF NoWalk
      <3>3. walk' \in {NoWalk, [NoWalk EXCEPT !.on = TRUE, !.there = table]}
        BY <1>5 DEF Ask
      <3> QED
        BY <1>3, <3>1, <3>2, <3>3
    <2>4. table' = table /\ total' = total /\ answer' = NoAnswer /\ pc' = "count"
      BY <1>5 DEF Ask
    <2> QED
      BY <1>1, <1>3, <2>1, <2>2, <2>3, <2>4
  <1>6. CASE NextPage
    <2>1. /\ req' = [req EXCEPT !.page = InitPage(Index + 1, Size)]
          /\ Index < answer.count
      BY <1>6 DEF NextPage, MorePages, Index, Size
    <2>2. InitPage(Index + 1, Size) \in Requests
      <3>1. Index + 1 \in Int /\ Size \in Int /\ Index + 1 <= MaxInt /\ Size <= MaxInt
        BY <2>1, PageTypes
      <3> QED
        BY <3>1, InitPageType
    <2>3. walk' = [walk EXCEPT !.raced = FALSE] /\ table' = table /\ total' = total
          /\ answer' = NoAnswer /\ pc' = "count"
      BY <1>6 DEF NextPage
    <2>4. walk' \in Walks /\ walk'.there = walk.there
      BY <1>1, <2>3 DEF Walks
    <2> QED
      BY <1>1, <1>3, <2>1, <2>2, <2>3, <2>4
  <1>7. CASE Count
    <2>1. Cardinality(table) \in 0 .. Cardinality(Ids)
      BY TableIsFinite
    <2> QED
      BY <1>1, <1>7, <2>1 DEF Count
  <1>8. CASE Find
    <2>1. PICK page \in SUBSET table :
            /\ answer' = [page |-> page, count |-> SetTotal(total, Size), given |-> TRUE]
            /\ walk' = IF walk.on
                       THEN [walk EXCEPT !.seen = @ \union page,
                                         !.twice = @ \union (walk.seen \intersect page)]
                       ELSE walk
      BY <1>8 DEF Find, Size
    <2>2. SetTotal(total, Size) \in 0 .. Cardinality(Ids)
      BY PageTypes, PagesEnough
    <2>3. answer' \in Answers
      BY <1>1, <2>1, <2>2 DEF Answers
    <2>4. walk' \in Walks /\ walk'.there = walk.there
      BY <1>1, <2>1 DEF Walks
    <2>5. table' = table /\ req' = req /\ total' = total /\ pc' = "idle"
      BY <1>8 DEF Find
    <2> QED
      BY <1>1, <2>3, <2>4, <2>5
  <1>9. CASE Fail
    BY <1>1, <1>3, <1>9 DEF Fail
  <1>10. CASE Insert
    <2>1. PICK i \in Ids \ table :
            /\ table' = table \union {i}
            /\ walk' = IF walk.on
                       THEN [walk EXCEPT !.pushed = @ \/ \E s \in walk.seen : i < s,
                                         !.raced = @ \/ pc = "find"]
                       ELSE walk
      BY <1>10 DEF Insert
    <2>2. walk' \in Walks /\ walk'.there = walk.there
      BY <1>1, <2>1 DEF Walks
    <2>3. pc' = pc /\ req' = req /\ total' = total /\ answer' = answer
      BY <1>10 DEF Insert
    <2> QED
      BY <1>1, <2>1, <2>2, <2>3
  <1>11. CASE Delete
    <2>1. PICK i \in table :
            /\ table' = table \ {i}
            /\ walk' = IF walk.on
                       THEN [walk EXCEPT !.there = @ \ {i},
                                         !.pulled = @ \/ \E s \in walk.seen : i <= s]
                       ELSE walk
      BY <1>11 DEF Delete
    <2>2. walk' \in Walks
      BY <1>1, <2>1 DEF Walks
    <2>3. walk'.there \subseteq table'
      <3>1. CASE walk.on
        BY <1>1, <2>1, <3>1 DEF Walks
      <3>2. CASE ~walk.on
        BY <1>3, <1>4, <2>1, <3>2
      <3> QED
        BY <3>1, <3>2
    <2>4. pc' = pc /\ req' = req /\ total' = total /\ answer' = answer
      BY <1>11 DEF Delete
    <2> QED
      BY <1>1, <2>1, <2>2, <2>3, <2>4
  <1>12. CASE UNCHANGED vars
    BY <1>1, <1>12 DEF vars
  <1> QED
    BY <1>5, <1>6, <1>7, <1>8, <1>9, <1>10, <1>11, <1>12 DEF Next

(***************************************************************************)
(* A request keeps the numbers it was made of, and its answer the number   *)
(* of pages of some count.                                                 *)
(***************************************************************************)
LEMMA RequestInvStep ==
    TypeOK /\ RequestInv /\ [Next]_vars => RequestInv'
  <1> SUFFICES ASSUME TypeOK, RequestInv, [Next]_vars
               PROVE  RequestInv'
    OBVIOUS
  <1>1. /\ req.page.Skip = Wrap((Index - 1) * Size)
        /\ pc # "idle" => ~answer.given
        /\ answer.given => \E n \in 0 .. Cardinality(Ids) : answer.count = SetTotal(n, Size)
        /\ walk.on \/ walk = NoWalk
        /\ walk \in Walks
    BY DEF RequestInv, TypeOK, Walks
  <1>2. req' = req => Index' = Index /\ Size' = Size
    BY DEF Index, Size
  <1>3. ~NoAnswer.given
    BY DEF NoAnswer
  <1>4. CASE Ask
    <2>1. PICK index \in Sent, size \in Sent, ordered \in BOOLEAN :
              req' = [page |-> InitPage(index, size), ordered |-> ordered]
      BY <1>4 DEF Ask
    <2>2. index \in Int /\ size \in Int /\ index <= MaxInt /\ size <= MaxInt
      BY PageAssumption
    <2>3. req'.page = InitPage(index, size)
      BY <2>1
    <2>4. req'.page.Skip = Wrap((Index' - 1) * Size')
      BY <2>2, <2>3, InitPageType DEF Index, Size
    <2>5. walk'.on \/ walk' = NoWalk
      BY <1>4 DEF Ask, NoWalk
    <2>6. answer' = NoAnswer
      BY <1>4 DEF Ask
    <2> QED
      BY <1>3, <2>4, <2>5, <2>6 DEF RequestInv
  <1>5. CASE NextPage
    <2>1. /\ req' = [req EXCEPT !.page = InitPage(Index + 1, Size)]
          /\ Index < answer.count
      BY <1>5 DEF NextPage, MorePages, Index, Size
    <2>2. Index + 1 \in Int /\ Size \in Int /\ Index + 1 <= MaxInt /\ Size <= MaxInt
      BY <2>1, PageTypes
    <2>3. req'.page = InitPage(Index + 1, Size)
      BY <2>1, PageTypes
    <2>4. req'.page.Skip = Wrap((Index' - 1) * Size')
      BY <2>2, <2>3, InitPageType DEF Index, Size
    <2>5. answer' = NoAnswer /\ walk' = [walk EXCEPT !.raced = FALSE] /\ walk.on
      BY <1>5 DEF NextPage, MorePages
    <2>6. walk'.on
      BY <1>1, <2>5 DEF Walks
    <2> QED
      BY <1>3, <2>4, <2>5, <2>6 DEF RequestInv
  <1>6. CASE Count
    <2>1. req' = req /\ answer' = answer /\ walk' = walk /\ pc = "count"
      BY <1>6 DEF Count
    <2> QED
      BY <1>1, <1>2, <2>1 DEF RequestInv
  <1>7. CASE Find
    <2>1. PICK page \in SUBSET table :
            /\ answer' = [page |-> page, count |-> SetTotal(total, Size), given |-> TRUE]
            /\ walk' = IF walk.on
                       THEN [walk EXCEPT !.seen = @ \union page,
                                         !.twice = @ \union (walk.seen \intersect page)]
                       ELSE walk
      BY <1>7 DEF Find, Size
    <2>2. req' = req /\ pc' = "idle"
      BY <1>7 DEF Find
    <2>3. walk'.on \/ walk' = NoWalk
      BY <1>1, <2>1 DEF Walks
    <2>4. total \in 0 .. Cardinality(Ids)
      BY PageTypes
    <2> QED
      BY <1>1, <1>2, <2>1, <2>2, <2>3, <2>4 DEF RequestInv
  <1>8. CASE Fail
    <2>1. req' = req /\ answer' = answer /\ walk' = NoWalk /\ pc' = "idle"
      BY <1>8 DEF Fail
    <2> QED
      BY <1>1, <1>2, <2>1 DEF RequestInv
  <1>9. CASE Insert
    <2>1. req' = req /\ answer' = answer /\ pc' = pc
      BY <1>9 DEF Insert
    <2>2. walk'.on \/ walk' = NoWalk
      BY <1>1, <1>9 DEF Insert, Walks
    <2> QED
      BY <1>1, <1>2, <2>1, <2>2 DEF RequestInv
  <1>10. CASE Delete
    <2>1. req' = req /\ answer' = answer /\ pc' = pc
      BY <1>10 DEF Delete
    <2>2. walk'.on \/ walk' = NoWalk
      BY <1>1, <1>10 DEF Delete, Walks
    <2> QED
      BY <1>1, <1>2, <2>1, <2>2 DEF RequestInv
  <1>11. CASE UNCHANGED vars
    <2>1. req' = req /\ answer' = answer /\ pc' = pc /\ walk' = walk
      BY <1>11 DEF vars
    <2> QED
      BY <1>1, <1>2, <2>1 DEF RequestInv
  <1> QED
    BY <1>4, <1>5, <1>6, <1>7, <1>8, <1>9, <1>10, <1>11 DEF Next

(***************************************************************************)
(* No page holds more rows than were asked for.                            *)
(***************************************************************************)
LEMMA BoundStep ==
    TypeOK /\ BoundInv /\ [Next]_vars => BoundInv'
  <1> SUFFICES ASSUME TypeOK, BoundInv, [Next]_vars
               PROVE  BoundInv'
    OBVIOUS
  <1>1. CASE Ask \/ NextPage
    BY <1>1 DEF Ask, NextPage, NoAnswer, BoundInv
  <1>2. CASE Find
    <2>1. PICK page \in SUBSET table :
            /\ \/ page = Slice(req.page.Skip, Size)
               \/ Cardinality(page) = Cardinality(Slice(req.page.Skip, Size))
            /\ answer' = [page |-> page, count |-> SetTotal(total, Size), given |-> TRUE]
      BY <1>2 DEF Find, Size
    <2>2. Size' = Size
      BY <1>2 DEF Find, Size
    <2>3. Cardinality(Slice(req.page.Skip, Size)) <= Size
      <3>1. req.page.Skip \in Int /\ Size \in Nat
        BY PageTypes DEF Requests
      <3> QED
        BY <3>1, SliceIsBounded
    <2>4. answer'.page = page
      BY <2>1
    <2> QED
      BY <2>1, <2>2, <2>3, <2>4 DEF BoundInv
  <1>3. CASE Count \/ Fail \/ Insert \/ Delete
    <2>1. req' = req /\ answer' = answer
      BY <1>3 DEF Count, Fail, Insert, Delete
    <2> QED
      BY <2>1 DEF BoundInv, Size
  <1>4. CASE UNCHANGED vars
    BY <1>4 DEF vars, BoundInv, Size
  <1> QED
    BY <1>1, <1>2, <1>3, <1>4 DEF Next

-----------------------------------------------------------------------------
(***************************************************************************)
(* Rows that are inserted or deleted behind those a walk has seen change   *)
(* nothing of it.                                                          *)
(***************************************************************************)
LEMMA InsertedBehind ==
    ASSUME TypeOK, TypeOK', NEW i \in Ids \ table, table' = table \union {i}, NEW m \in Nat
    PROVE  /\ Rank(m)' >= Rank(m)
           /\ ~(i < m) => {s \in table' : s < m} = {s \in table : s < m}
  <1>1. table \in SUBSET Nat /\ IsFiniteSet(table) /\ i \in Nat
    BY TableIsFinite
  <1>2. IsFiniteSet(table')
    BY <1>1, FS_AddElement
  <1>3. Rank(m) = Cardinality(UpTo(table, m)) /\ Rank(m)' = Cardinality(UpTo(table', m))
    BY DEF Rank, UpTo
  <1>4. UpTo(table, m) \subseteq UpTo(table', m) /\ UpTo(table', m) \subseteq table'
    BY DEF UpTo
  <1>5. IsFiniteSet(UpTo(table', m)) /\ IsFiniteSet(UpTo(table, m))
    BY <1>2, <1>4, FS_Subset
  <1>6. /\ Cardinality(UpTo(table, m)) \in Nat /\ Cardinality(UpTo(table', m)) \in Nat
        /\ Cardinality(UpTo(table, m)) <= Cardinality(UpTo(table', m))
    BY <1>4, <1>5, FS_Subset, FS_CardinalityType
  <1> QED
    BY <1>1, <1>3, <1>6

LEMMA DeletedBehind ==
    ASSUME TypeOK, TypeOK', NEW i \in table, table' = table \ {i}, NEW m \in Nat
    PROVE  /\ ~(i <= m) => Rank(m)' = Rank(m)
           /\ Cardinality({s \in table' : s < m}) <= Cardinality({s \in table : s < m})
           /\ Cardinality(table') <= Cardinality(table)
  <1>1. table \in SUBSET Nat /\ IsFiniteSet(table) /\ i \in Nat
    BY TableIsFinite
  <1>2. ~(i <= m) => UpTo(table', m) = UpTo(table, m)
    BY DEF UpTo
  <1>3. ~(i <= m) => Rank(m)' = Rank(m)
    BY <1>2 DEF Rank, UpTo
  <1>4. /\ {s \in table' : s < m} \subseteq {s \in table : s < m}
        /\ {s \in table : s < m} \subseteq table /\ table' \subseteq table
    OBVIOUS
  <1>5. IsFiniteSet({s \in table : s < m})
    BY <1>1, <1>4, FS_Subset
  <1>6. Cardinality({s \in table' : s < m}) <= Cardinality({s \in table : s < m})
    BY <1>4, <1>5, FS_Subset
  <1>7. Cardinality(table') <= Cardinality(table)
    BY <1>1, <1>4, FS_Subset
  <1> QED
    BY <1>3, <1>6, <1>7

(***************************************************************************)
(* The rows in front of a row are one fewer than its position says.        *)
(***************************************************************************)
LEMMA InFront ==
    ASSUME TypeOK, NEW m \in table
    PROVE  Rank(m) = Cardinality({s \in table : s < m}) + 1
  <1> DEFINE F == {s \in table : s < m}
  <1>1. table \in SUBSET Nat /\ IsFiniteSet(table) /\ m \in Nat
    BY TableIsFinite
  <1>2. IsFiniteSet(F) /\ m \notin F
    <2>1. F \subseteq table
      OBVIOUS
    <2>2. m \notin F
      BY <1>1
    <2> HIDE DEF F
    <2> QED
      BY <1>1, <2>1, <2>2, FS_Subset
  <1>3. {s \in table : s <= m} = F \union {m}
    <2>1. \A s \in table : s <= m <=> s < m \/ s = m
      BY <1>1
    <2> QED
      BY <2>1
  <1> HIDE DEF F
  <1>4. Cardinality(F \union {m}) = Cardinality(F) + 1
    BY <1>2, FS_AddElement
  <1> QED
    BY <1>3, <1>4 DEF Rank, F

LEMMA NumbersAreNat ==
    TypeOK => Size \in Nat /\ \A a \in Nat : Rank(a) \in Nat
  BY PageTypes, RankOrder

LEMMA GoneIsNat ==
    ASSUME TypeOK PROVE Gone \in Nat /\ Index * Size \in Nat /\ (Index - 1) * Size \in Nat
                        /\ Index * Size = (Index - 1) * Size + Size
  <1>1. Index \in Nat \ {0} /\ Size \in Nat \ {0}
    BY PageTypes
  <1> HIDE DEF Index, Size
  <1>2. Index - 1 \in Nat
    BY <1>1
  <1>3. (Index - 1) * Size \in Nat /\ ((Index - 1) + 1) * Size = (Index - 1) * Size + Size
    BY <1>1, <1>2, Products
  <1>4. Index * Size \in Nat /\ (Index - 1) + 1 = Index
    BY <1>1
  <1> QED
    BY <1>3, <1>4 DEF Gone

(***************************************************************************)
(* What a walk has not seen has its position behind all that is gone.      *)
(***************************************************************************)
LEMMA UnseenHigh ==
    ASSUME TypeOK, UnseenBehind, NEW r \in walk.there \ walk.seen
    PROVE  Rank(r) > Gone
  <1>1. r \in table /\ r \in Nat /\ walk.seen \subseteq Nat
    BY TableIsFinite DEF TypeOK
  <1>2. Rank(r) \in Nat /\ Rank(r) >= 1
    BY <1>1, Ranks
  <1>3. CASE Gone = 0
    BY <1>2, <1>3
  <1>4. CASE \E m \in walk.seen : Rank(m) >= Gone
    <2>1. PICK m \in walk.seen : Rank(m) >= Gone
      BY <1>4
    <2>2. m < r /\ m \in Nat
      BY <1>1 DEF UnseenBehind
    <2>3. Rank(m) < Rank(r)
      BY <1>1, <2>2, RankOrder
    <2>4. Rank(m) \in Nat
      BY <2>2, RankOrder
    <2> QED
      BY <1>2, <2>1, <2>3, <2>4, GoneIsNat
  <1> QED
    BY <1>3, <1>4 DEF UnseenBehind

(***************************************************************************)
(* A page that is found: the walk goes on where it stopped.                *)
(***************************************************************************)
LEMMA FoundStep ==
    ASSUME TypeOK, TypeOK', RequestInv, WalkInv, Find, walk'.on
    PROVE  WalkInv'
  <1>1. PICK page \in SUBSET table :
            /\ req.ordered => page = Slice(req.page.Skip, Size)
            /\ answer' = [page |-> page, count |-> SetTotal(total, Size), given |-> TRUE]
            /\ walk' = IF walk.on
                       THEN [walk EXCEPT !.seen = @ \union page,
                                         !.twice = @ \union (walk.seen \intersect page)]
                       ELSE walk
    BY DEF Find, Size
  <1>2. pc = "find" /\ pc' = "idle" /\ table' = table /\ req' = req /\ total' = total
    BY DEF Find
  <1>3. walk \in Walks
    BY DEF TypeOK, Walks
  <1>4. walk.on
    BY <1>1
  <1>5. /\ walk'.seen = walk.seen \union page
        /\ walk'.twice = walk.twice \union (walk.seen \intersect page)
        /\ walk'.there = walk.there /\ walk'.pulled = walk.pulled
        /\ walk'.pushed = walk.pushed /\ walk'.raced = walk.raced
    BY <1>1, <1>3, <1>4 DEF Walks
  <1>6. answer'.given /\ answer'.count = SetTotal(total, Size)
    BY <1>1
  <1>7. ~answer.given
    BY <1>2 DEF RequestInv
  <1>8. /\ ~Overflows
        /\ ~walk.raced => Cardinality(table) <= total
        /\ req.ordered /\ ~walk.pulled => UnseenBehind
        /\ req.ordered /\ ~walk.pushed => SeenInFront /\ walk.twice = {}
    BY <1>2, <1>4 DEF WalkInv
  <1>9. Index' = Index /\ Size' = Size /\ Overflows' = Overflows
    BY <1>2 DEF Index, Size, Overflows
  <1>10. /\ Gone = (Index - 1) * Size /\ Gone' = Gone + Size
         /\ Gone \in Nat /\ Gone' = Index * Size
    BY <1>6, <1>7, <1>9, GoneIsNat DEF Gone
  <1>11. Size \in Nat \ {0} /\ Index \in Nat \ {0} /\ total \in Nat
    BY PageTypes
  <1>12. \A m : Rank(m)' = Rank(m)
    BY <1>2 DEF Rank
  <1>13. req.ordered => page = {r \in table : Rank(r) > Gone /\ Rank(r) <= Gone + Size}
    BY <1>1, <1>8, <1>10, SliceWithoutOverflow
  <1>14. table \subseteq Nat /\ walk.there \subseteq table /\ walk.seen \subseteq Nat
    BY TableIsFinite DEF TypeOK
  <1> HIDE DEF Index, Size, Gone
  <1>15. ASSUME req.ordered, ~walk.pulled, NEW r \in walk.there \ walk'.seen
         PROVE  Rank(r) > Gone + Size /\ r \in table
    <2>1. r \in walk.there \ walk.seen /\ r \notin page /\ r \in table
      BY <1>5, <1>14, <1>15
    <2>2. UnseenBehind
      BY <1>8, <1>15
    <2>3. Rank(r) > Gone
      BY <2>1, <2>2, UnseenHigh
    <2>4. Rank(r) \in Nat
      BY <1>14, <2>1, Ranks
    <2>5. ~(Rank(r) <= Gone + Size)
      BY <1>13, <1>15, <2>1, <2>3
    <2> QED
      BY <1>10, <1>11, <2>1, <2>4, <2>5
  <1>16. ASSUME req.ordered, ~walk.pulled PROVE UnseenBehind'
    <2>1. ASSUME NEW r \in walk.there \ walk'.seen, NEW m \in walk'.seen PROVE m < r
      <3>1. CASE m \in walk.seen
        BY <1>5, <1>8, <1>16, <2>1, <3>1 DEF UnseenBehind
      <3>2. CASE m \in page
        <4>1. m \in Nat /\ r \in Nat
          BY <1>14, <2>1, <3>2
        <4>2. Rank(m) <= Gone + Size /\ Rank(r) > Gone + Size
          BY <1>13, <1>15, <1>16, <2>1, <3>2
        <4>3. ~(r <= m)
          <5>1. Rank(m) \in Nat /\ Rank(r) \in Nat /\ (r <= m => Rank(r) <= Rank(m))
            BY <4>1, RankOrder
          <5> QED
            BY <1>10, <1>11, <4>1, <4>2, <5>1
        <4> QED
          BY <4>1, <4>3
      <3> QED
        BY <1>5, <2>1, <3>1, <3>2
    <2>2. ASSUME ~(walk.there \subseteq walk'.seen)
          PROVE  \E m \in walk'.seen : Rank(m) >= Gone + Size
      <3>1. PICK r \in walk.there \ walk'.seen : TRUE
        BY <2>2
      <3>2. Rank(r) > Gone + Size /\ r \in table
        BY <1>15, <1>16, <3>1
      <3>3. Rank(r) \in 0 .. Cardinality(table) /\ Cardinality(table) \in Nat
        BY <1>14, <3>2, Ranks, TableIsFinite
      <3>4. Gone + Size \in 1 .. Cardinality(table)
        BY <1>10, <1>11, <3>2, <3>3
      <3>5. PICK m \in table : Rank(m) = Gone + Size
        BY <3>4, Ranks
      <3>6. m \in page
        BY <1>10, <1>11, <1>13, <1>16, <3>5
      <3> QED
        BY <1>5, <1>10, <1>11, <3>5, <3>6
    <2> QED
      BY <1>5, <1>10, <1>12, <2>1, <2>2 DEF UnseenBehind
  <1>17. ASSUME req.ordered, ~walk.pushed PROVE SeenInFront' /\ walk'.twice = {}
    <2>1. SeenInFront /\ walk.twice = {}
      BY <1>8, <1>17
    <2>2. ASSUME NEW m \in walk'.seen PROVE Cardinality({s \in table : s < m}) < Gone + Size
      <3>1. CASE m \in walk.seen
        <4>1. Cardinality({s \in table : s < m}) < Gone
          BY <2>1, <3>1 DEF SeenInFront
        <4>2. Cardinality({s \in table : s < m}) \in Nat
          <5>1. {s \in table : s < m} \subseteq table
            OBVIOUS
          <5> QED
            BY <5>1, TableIsFinite, FS_Subset, FS_CardinalityType
        <4> QED
          BY <1>10, <1>11, <4>1, <4>2
      <3>2. CASE m \in page
        <4>1. Rank(m) <= Gone + Size /\ m \in table
          BY <1>13, <1>17, <3>2
        <4>2. Rank(m) = Cardinality({s \in table : s < m}) + 1
          BY <4>1, InFront
        <4>3. Cardinality({s \in table : s < m}) \in Nat
          <5>1. {s \in table : s < m} \subseteq table
            OBVIOUS
          <5> QED
            BY <5>1, TableIsFinite, FS_Subset, FS_CardinalityType
        <4> QED
          BY <1>10, <1>11, <4>1, <4>2, <4>3
      <3> QED
        BY <1>5, <2>2, <3>1, <3>2
    <2>3. walk.seen \intersect page = {}
      <3> SUFFICES ASSUME NEW m \in walk.seen, m \in page PROVE FALSE
        OBVIOUS
      <3>1. Rank(m) > Gone /\ m \in table
        BY <1>13, <1>17
      <3>2. Cardinality({s \in table : s < m}) < Gone
        BY <2>1 DEF SeenInFront
      <3>3. Rank(m) = Cardinality({s \in table : s < m}) + 1 /\ Rank(m) \in Nat
        BY <1>14, <3>1, InFront, Ranks
      <3>4. Cardinality({s \in table : s < m}) \in Nat
        <4>1. {s \in table : s < m} \subseteq table
          OBVIOUS
        <4> QED
          BY <4>1, TableIsFinite, FS_Subset, FS_CardinalityType
      <3> QED
        BY <1>10, <3>1, <3>2, <3>3, <3>4
    <2> QED
      BY <1>2, <1>5, <1>10, <2>1, <2>2, <2>3 DEF SeenInFront
  <1>18. ASSUME ~MorePages', req.ordered, ~walk.pulled, ~walk.raced
         PROVE  walk.there \subseteq walk'.seen
    <2> SUFFICES ASSUME NEW r \in walk.there \ walk'.seen PROVE FALSE
      OBVIOUS
    <2>1. Rank(r) > Gone + Size /\ r \in table
      BY <1>15, <1>18
    <2>2. Rank(r) \in Nat /\ Rank(r) <= Cardinality(table) /\ Cardinality(table) \in Nat
      BY <1>14, <2>1, Ranks, TableIsFinite
    <2>3. ~(Index < SetTotal(total, Size))
      BY <1>2, <1>6, <1>18 DEF MorePages, Index
    <2>4. SetTotal(total, Size) \in Nat /\ total <= SetTotal(total, Size) * Size
      BY <1>11, PagesEnough
    <2>5. SetTotal(total, Size) * Size <= Index * Size
      <3>1. SetTotal(total, Size) = Index \/ SetTotal(total, Size) < Index
        BY <1>11, <2>3, <2>4
      <3>2. SetTotal(total, Size) < Index =>
                SetTotal(total, Size) * Size + Size <= Index * Size
        BY <1>11, <2>4, ProductLess
      <3>3. SetTotal(total, Size) * Size \in Nat /\ Index * Size \in Nat
        BY <1>11, <2>4
      <3> QED
        BY <1>11, <3>1, <3>2, <3>3
    <2>6. SetTotal(total, Size) * Size \in Nat
      BY <1>11, <2>4
    <2>7. Cardinality(table) <= total
      BY <1>8, <1>18
    <2> QED
      BY <1>10, <1>11, <2>1, <2>2, <2>4, <2>5, <2>6, <2>7
  <1>19. WalkMissesNothing'
    BY <1>2, <1>5, <1>18 DEF WalkMissesNothing
  <1> QED
    BY <1>2, <1>5, <1>8, <1>9, <1>16, <1>17, <1>19 DEF WalkInv

(***************************************************************************)
(* What a walk is sure of, it stays sure of.                               *)
(***************************************************************************)
LEMMA WalkStep ==
    TypeOK /\ TypeOK' /\ RequestInv /\ WalkInv /\ [Next]_vars => WalkInv'
  <1> SUFFICES ASSUME TypeOK, TypeOK', RequestInv, WalkInv, [Next]_vars, walk'.on
               PROVE  WalkInv'
    BY DEF WalkInv
  <1>1. walk \in Walks /\ table \subseteq Nat /\ walk.seen \subseteq Nat
    BY TableIsFinite DEF TypeOK, Walks
  <1>2. walk.on =>
            /\ ~Overflows
            /\ pc = "find" /\ ~walk.raced => Cardinality(table) <= total
            /\ req.ordered /\ ~walk.pulled => UnseenBehind
            /\ req.ordered /\ ~walk.pushed => SeenInFront /\ walk.twice = {}
            /\ WalkMissesNothing
    BY DEF WalkInv
  <1>3. req' = req => Index' = Index /\ Size' = Size /\ Overflows' = Overflows
    BY DEF Index, Size, Overflows
  <1>4. req' = req /\ answer' = answer => Gone' = Gone
    BY <1>3 DEF Gone
  <1>5. table' = table => \A m : Rank(m)' = Rank(m)
    BY DEF Rank
  <1>6. CASE Ask
    <2>1. PICK index \in Sent, size \in Sent, ordered \in BOOLEAN :
              /\ req' = [page |-> InitPage(index, size), ordered |-> ordered]
              /\ walk' = IF req'.page.PageIndex = 1
                         THEN [NoWalk EXCEPT !.on = TRUE, !.there = table] ELSE NoWalk
      BY <1>6 DEF Ask
    <2>2. answer' = NoAnswer /\ pc' = "count" /\ table' = table
      BY <1>6 DEF Ask
    <2>3. req'.page.PageIndex = 1
      BY <2>1 DEF NoWalk
    <2>4. walk' = [NoWalk EXCEPT !.on = TRUE, !.there = table]
      BY <2>1, <2>3
    <2>5. walk'.seen = {} /\ walk'.twice = {}
      BY <2>4 DEF NoWalk
    <2>6. Index' = 1 /\ Size' \in Nat
      <3>1. (TypeOK => Size \in Nat /\ \A a \in Nat : Rank(a) \in Nat)'
        BY NumbersAreNat, PTL
      <3> QED
        BY <2>3, <3>1 DEF Index
    <2>7. (Index' - 1) * Size' = 0
      <3>1. \A k \in Nat : (1 - 1) * k = 0
        OBVIOUS
      <3> QED
        BY <2>6, <3>1
    <2>8. Gone' = 0 /\ ~answer'.given
      BY <2>2, <2>7 DEF Gone, NoAnswer
    <2>9. ~Overflows'
      BY <2>7, PageAssumption DEF Overflows, Index, Size
    <2> QED
      BY <2>2, <2>5, <2>8, <2>9 DEF WalkInv, UnseenBehind, SeenInFront, WalkMissesNothing
  <1>7. CASE NextPage
    <2>1. /\ req' = [req EXCEPT !.page = InitPage(Index + 1, Size)]
          /\ walk.on /\ answer.given /\ Index < answer.count
          /\ walk' = [walk EXCEPT !.raced = FALSE]
          /\ answer' = NoAnswer /\ pc' = "count" /\ table' = table
      BY <1>7 DEF NextPage, MorePages, Index, Size
    <2>2. Index \in Nat \ {0} /\ Size \in Nat \ {0} /\ Size <= MaxInt /\ Index + 1 <= MaxInt
      BY <2>1, PageTypes
    <2>3. Index' = Index + 1 /\ Size' = Size /\ req'.ordered = req.ordered
      <3>1. req'.page = InitPage(Index + 1, Size) /\ req'.ordered = req.ordered
        BY <2>1, PageTypes
      <3>2. Index + 1 \in Int /\ Size \in Int /\ ~(Index + 1 <= 0) /\ ~(Size <= 0)
        BY <2>2
      <3>3. InitPage(Index + 1, Size).PageIndex = Index + 1
            /\ InitPage(Index + 1, Size).PageSize = Size
        BY <2>2, <3>2, InitPageType
      <3> QED
        BY <3>1, <3>3 DEF Index, Size
    <2>4. ~answer'.given
      BY <2>1 DEF NoAnswer
    <2>5. (Index' - 1) * Size' = Index * Size
      <3>1. Index' - 1 = Index
        BY <2>2, <2>3
      <3> QED
        BY <2>3, <3>1
    <2>6. Gone' = Gone
      BY <2>1, <2>4, <2>5 DEF Gone
    <2>7. Index * Size <= MaxInt
      <3>1. PICK n \in 0 .. Cardinality(Ids) : answer.count = SetTotal(n, Size)
        BY <2>1 DEF RequestInv
      <3>2. n \in Nat /\ n <= MaxInt /\ MaxInt \in Nat
        BY PageTypes, TableIsFinite
      <3> DEFINE c == SetTotal(n, Size)
      <3>3. c \in Nat /\ (c >= 1 => (c - 1) * Size < n)
        BY <2>2, <3>2, PagesEnough
      <3>4. Index < c
        BY <2>1, <3>1
      <3> HIDE DEF c, Index, Size
      <3>5. c >= 1 /\ Index <= c - 1 /\ c - 1 \in Nat
        BY <2>2, <3>3, <3>4
      <3>6. Index * Size <= (c - 1) * Size
        <4>1. Index = c - 1 \/ Index < c - 1
          BY <2>2, <3>5
        <4>2. Index < c - 1 => Index * Size + Size <= (c - 1) * Size
          BY <2>2, <3>5, ProductLess
        <4>3. Index * Size \in Nat /\ (c - 1) * Size \in Nat
          BY <2>2, <3>5
        <4> QED
          BY <2>2, <4>1, <4>2, <4>3
      <3>7. Index * Size \in Nat /\ (c - 1) * Size \in Nat
        BY <2>2, <3>5
      <3> QED
        BY <3>2, <3>3, <3>5, <3>6, <3>7
    <2>8. ~Overflows'
      <3>1. Index * Size \in Nat /\ MaxInt \in Nat
        BY GoneIsNat, PageTypes
      <3>2. Overflows' <=> (Index' - 1) * Size' > MaxInt
        BY DEF Overflows, Index, Size
      <3> QED
        BY <2>5, <2>7, <3>1, <3>2
    <2>9. walk'.seen = walk.seen /\ walk'.twice = walk.twice /\ walk'.there = walk.there
          /\ walk'.pulled = walk.pulled /\ walk'.pushed = walk.pushed
      BY <1>1, <2>1 DEF Walks
    <2>10. req'.ordered /\ ~walk'.pulled => UnseenBehind'
      BY <1>2, <1>5, <2>1, <2>3, <2>6, <2>9 DEF UnseenBehind
    <2>11. req'.ordered /\ ~walk'.pushed => SeenInFront' /\ walk'.twice = {}
      BY <1>2, <2>1, <2>3, <2>6, <2>9 DEF SeenInFront
    <2> QED
      BY <2>1, <2>4, <2>8, <2>10, <2>11 DEF WalkInv, WalkMissesNothing
  <1>8. CASE Count
    <2>1. pc = "count" /\ table' = table /\ req' = req /\ answer' = answer /\ walk' = walk
          /\ total' = Cardinality(table)
      BY <1>8 DEF Count
    <2>2. ~answer'.given
      BY <2>1 DEF RequestInv
    <2>3. Cardinality(table') <= total'
      BY <2>1, TableIsFinite
    <2>4. UnseenBehind' = UnseenBehind /\ SeenInFront' = SeenInFront
      BY <1>4, <1>5, <2>1 DEF UnseenBehind, SeenInFront
    <2> QED
      BY <1>2, <1>3, <2>1, <2>2, <2>3, <2>4 DEF WalkInv, WalkMissesNothing
  <1>9. CASE Find
    BY <1>9, FoundStep
  <1>10. CASE Fail
    BY <1>10 DEF Fail, NoWalk
  <1>11. CASE Insert
    <2>1. PICK i \in Ids \ table :
            /\ table' = table \union {i}
            /\ walk' = IF walk.on
                       THEN [walk EXCEPT !.pushed = @ \/ \E s \in walk.seen : i < s,
                                         !.raced = @ \/ pc = "find"]
                       ELSE walk
      BY <1>11 DEF Insert
    <2>2. pc' = pc /\ req' = req /\ total' = total /\ answer' = answer
      BY <1>11 DEF Insert
    <2>3. walk.on
      BY <2>1
    <2>4. /\ walk'.seen = walk.seen /\ walk'.twice = walk.twice /\ walk'.there = walk.there
          /\ walk'.pulled = walk.pulled
          /\ ~walk'.pushed => ~walk.pushed /\ \A s \in walk.seen : ~(i < s)
          /\ ~walk'.raced => ~walk.raced /\ pc # "find"
      BY <1>1, <2>1, <2>3 DEF Walks
    <2>5. \A m \in Nat : Rank(m)' >= Rank(m)
      BY <2>1, InsertedBehind
    <2>6. ASSUME req.ordered, ~walk'.pulled PROVE UnseenBehind'
      <3>1. UnseenBehind
        BY <1>2, <2>3, <2>4, <2>6
      <3>2. ASSUME NEW m \in walk.seen, Rank(m) >= Gone PROVE Rank(m)' >= Gone
        <4>1. m \in Nat /\ Rank(m)' >= Rank(m) /\ Gone \in Nat
          BY <1>1, <2>5, GoneIsNat
        <4>2. Rank(m) \in Nat
          BY <4>1, RankOrder
        <4>3. Rank(m)' \in Nat
          <5>1. (TypeOK => Size \in Nat /\ \A a \in Nat : Rank(a) \in Nat)'
            BY NumbersAreNat, PTL
          <5> QED
            BY <4>1, <5>1
        <4> QED
          BY <3>2, <4>1, <4>2, <4>3
      <3> QED
        BY <1>4, <2>2, <2>4, <3>1, <3>2 DEF UnseenBehind
    <2>7. ASSUME req.ordered, ~walk'.pushed PROVE SeenInFront' /\ walk'.twice = {}
      <3>1. SeenInFront /\ walk.twice = {}
        BY <1>2, <2>3, <2>4, <2>7
      <3>2. \A m \in walk.seen : {s \in table' : s < m} = {s \in table : s < m}
        BY <1>1, <2>1, <2>4, <2>7, InsertedBehind
      <3> QED
        BY <1>4, <2>2, <2>4, <3>1, <3>2 DEF SeenInFront
    <2>8. WalkMissesNothing'
      BY <1>2, <2>2, <2>3, <2>4 DEF WalkMissesNothing, MorePages
    <2> QED
      BY <1>2, <1>3, <2>2, <2>3, <2>4, <2>6, <2>7, <2>8 DEF WalkInv
  <1>12. CASE Delete
    <2>1. PICK i \in table :
            /\ table' = table \ {i}
            /\ walk' = IF walk.on
                       THEN [walk EXCEPT !.there = @ \ {i},
                                         !.pulled = @ \/ \E s \in walk.seen : i <= s]
                       ELSE walk
      BY <1>12 DEF Delete
    <2>2. pc' = pc /\ req' = req /\ total' = total /\ answer' = answer
      BY <1>12 DEF Delete
    <2>3. walk.on
      BY <2>1
    <2>4. /\ walk'.seen = walk.seen /\ walk'.twice = walk.twice
          /\ walk'.there = walk.there \ {i}
          /\ walk'.pushed = walk.pushed /\ walk'.raced = walk.raced
          /\ ~walk'.pulled => ~walk.pulled /\ \A s \in walk.seen : ~(i <= s)
      BY <1>1, <2>1, <2>3 DEF Walks
    <2>5. ASSUME req.ordered, ~walk'.pulled PROVE UnseenBehind'
      <3>1. UnseenBehind
        BY <1>2, <2>3, <2>4, <2>5
      <3>2. \A m \in walk.seen : Rank(m)' = Rank(m)
        BY <1>1, <2>1, <2>4, <2>5, DeletedBehind
      <3> QED
        BY <1>4, <2>2, <2>4, <3>1, <3>2 DEF UnseenBehind
    <2>6. ASSUME req.ordered, ~walk'.pushed PROVE SeenInFront' /\ walk'.twice = {}
      <3>1. SeenInFront /\ walk.twice = {}
        BY <1>2, <2>3, <2>4, <2>6
      <3>2. ASSUME NEW m \in walk.seen
            PROVE  Cardinality({s \in table' : s < m}) < Gone
        <4>1. Cardinality({s \in table' : s < m}) <= Cardinality({s \in table : s < m})
          BY <1>1, <2>1, DeletedBehind
        <4>2. Cardinality({s \in table : s < m}) < Gone /\ Gone \in Nat
          BY <3>1, GoneIsNat DEF SeenInFront
        <4>3. Cardinality({s \in table : s < m}) \in Nat
              /\ Cardinality({s \in table' : s < m}) \in Nat
          <5>1. {s \in table : s < m} \subseteq table /\ {s \in table' : s < m} \subseteq table
            BY <2>1
          <5> QED
            BY <5>1, TableIsFinite, FS_Subset, FS_CardinalityType
        <4> QED
          BY <4>1, <4>2, <4>3
      <3> QED
        BY <1>4, <2>2, <2>4, <3>1, <3>2 DEF SeenInFront
    <2>7. pc = "find" /\ ~walk.raced => Cardinality(table') <= total
      <3>1. Cardinality(table') <= Cardinality(table)
        BY <2>1, DeletedBehind, PageAssumption DEF TypeOK
      <3>2. Cardinality(table') \in Nat /\ Cardinality(table) \in Nat /\ total \in Nat
        BY <2>1, TableIsFinite, PageTypes, FS_RemoveElement, FS_CardinalityType
      <3> QED
        BY <1>2, <2>3, <3>1, <3>2
    <2>8. WalkMissesNothing'
      BY <1>2, <2>2, <2>3, <2>4 DEF WalkMissesNothing, MorePages
    <2> QED
      BY <1>2, <1>3, <2>2, <2>3, <2>4, <2>5, <2>6, <2>7, <2>8 DEF WalkInv
  <1>13. CASE UNCHANGED vars
    <2>1. table' = table /\ pc' = pc /\ req' = req /\ answer' = answer /\ walk' = walk
          /\ total' = total
      BY <1>13 DEF vars
    <2>2. UnseenBehind' = UnseenBehind /\ SeenInFront' = SeenInFront
      BY <1>4, <1>5, <2>1 DEF UnseenBehind, SeenInFront
    <2> QED
      BY <1>2, <1>3, <2>1, <2>2 DEF WalkInv, WalkMissesNothing, MorePages
  <1> QED
    BY <1>6, <1>7, <1>8, <1>9, <1>10, <1>11, <1>12, <1>13 DEF Next

-----------------------------------------------------------------------------
(***************************************************************************)
(* No walk has begun before the first request.                             *)
(***************************************************************************)
LEMMA PagesInit == Init => PagesInv
  <1> SUFFICES ASSUME Init PROVE PagesInv
    OBVIOUS
  <1>1. /\ table \subseteq Ids /\ pc = "idle" /\ total = 0 /\ answer = NoAnswer /\ walk = NoWalk
        /\ req = [page |-> InitPage(defaultPageindex, defaultPagesize), ordered |-> TRUE]
    BY DEF Init
  <1>2. /\ defaultPageindex = 1 /\ defaultPagesize \in Int /\ defaultPagesize <= MaxInt
        /\ MaxInt \in Nat /\ 1 <= MaxInt
    BY PageAssumption
  <1>3. req.page = InitPage(1, defaultPagesize)
    BY <1>1, <1>2
  <1>4. req.page \in Requests /\ req.page.Skip = Wrap((Index - 1) * Size)
    BY <1>2, <1>3, InitPageType DEF Index, Size
  <1>5. Cardinality(Ids) \in Nat
    BY PageAssumption, FS_CardinalityType
  <1>6. req \in [page : Requests, ordered : BOOLEAN]
    BY <1>1, <1>3, <1>4
  <1>7. TypeOK
    BY <1>1, <1>5, <1>6 DEF TypeOK, NoAnswer, NoWalk
  <1> QED
    BY <1>1, <1>4, <1>7 DEF PagesInv, RequestInv, WalkInv, BoundInv, NoAnswer, NoWalk

THEOREM PagesInvariance == Spec => []PagesInv
  <1>1. TypeOK /\ RequestInv /\ [Next]_vars => TypeOK' /\ RequestInv'
    BY PagesTypeStep, RequestInvStep
  <1>2. PagesInv /\ [Next]_vars => PagesInv'
    BY <1>1, WalkStep, BoundStep DEF PagesInv
  <1> QED
    BY <1>2, PagesInit, PTL DEF Spec

(***************************************************************************)
(* The state of a request, of its answer and of a walk stay in their types.*)
(***************************************************************************)
THEOREM PagesTypeCorrect == Spec => []TypeOK
  BY PagesInvariance, PTL DEF PagesInv

(***************************************************************************)
(* A page of a table that was not changed after it was counted is the part *)
(* of it that its number says, and there are as many pages as are counted. *)
(***************************************************************************)
THEOREM PagesAreSlices == Spec => []PageIsSlice
  <1>1. PagesInv => PageIsSlice
    <2> SUFFICES ASSUME PagesInv, total = Cardinality(table), ~Overflows
                 PROVE  LET slice == Slice(req.page.Skip, Size)
                        IN  /\ slice = {r \in table : (Rank(r) - 1) \div Size = Index - 1}
                            /\ slice = {} <=> Index > SetTotal(total, Size)
      BY DEF PageIsSlice, Index, Size
    <2> DEFINE slice == Slice(req.page.Skip, Size)
               n == Cardinality(table)
               c == SetTotal(total, Size)
               o == (Index - 1) * Size
    <2>1. TypeOK /\ RequestInv
      BY DEF PagesInv
    <2>2. o \in Nat /\ slice = {r \in table : Rank(r) > o /\ Rank(r) <= o + Size}
      BY <2>1, SliceWithoutOverflow
    <2>3. Index \in Nat \ {0} /\ Size \in Nat \ {0} /\ n \in Nat /\ total = n
      BY <2>1, PageTypes, TableIsFinite
    <2>4. c \in Nat /\ n <= c * Size /\ (c >= 1 => (c - 1) * Size < n)
      BY <2>3, PagesEnough
    <2>5. \A r \in table : Rank(r) \in Nat /\ Rank(r) >= 1 /\ Rank(r) <= n
      <3>1. table \subseteq Nat
        BY <2>1, TableIsFinite
      <3> QED
        BY <2>1, <2>3, <3>1, Ranks
    <2> HIDE DEF slice, n, c, Index, Size
    <2>6. ASSUME NEW r \in table
          PROVE  Rank(r) > o /\ Rank(r) <= o + Size <=> (Rank(r) - 1) \div Size = Index - 1
      <3> DEFINE k == Rank(r) - 1
                 q == k \div Size
      <3>1. k \in Nat /\ Rank(r) = k + 1
        BY <2>5
      <3> HIDE DEF k
      <3>2. q \in Nat /\ q * Size <= k /\ k < q * Size + Size
        BY <2>3, <3>1
      <3> HIDE DEF q
      <3>3. /\ q < Index - 1 => q * Size + Size <= o
            /\ Index - 1 < q => o + Size <= q * Size
        BY <2>3, <3>2, ProductLess
      <3>4. q * Size \in Nat
        BY <2>3, <3>2
      <3>5. q = Index - 1 => q * Size = o
        OBVIOUS
      <3> HIDE DEF o
      <3>6. k >= o /\ k < o + Size <=> q = Index - 1
        BY <2>2, <2>3, <3>1, <3>2, <3>3, <3>4, <3>5
      <3>7. Rank(r) > o /\ Rank(r) <= o + Size <=> k >= o /\ k < o + Size
        BY <2>2, <2>3, <3>1
      <3> QED
        BY <3>6, <3>7 DEF q, k
    <2>7. CASE Index <= c
      <3>1. o < n
        <4>1. Index - 1 = c - 1 \/ Index - 1 < c - 1
          BY <2>3, <2>4, <2>7
        <4>2. Index - 1 < c - 1 => (Index - 1) * Size + Size <= (c - 1) * Size
          BY <2>3, <2>4, ProductLess
        <4>3. c >= 1 /\ (c - 1) * Size \in Int
          BY <2>3, <2>4, <2>7
        <4> QED
          BY <2>2, <2>3, <2>4, <4>1, <4>2, <4>3
      <3> HIDE DEF o
      <3>2. o + 1 \in 1 .. Cardinality(table)
        BY <2>2, <2>3, <3>1 DEF n
      <3>3. PICK r \in table : Rank(r) = o + 1
        BY <2>1, <3>2, Ranks
      <3>4. r \in slice
        BY <2>2, <2>3, <3>3
      <3> QED
        BY <2>2, <2>3, <2>4, <2>6, <2>7, <3>4 DEF slice, c
    <2>8. CASE Index > c
      <3>1. n <= o
        <4>1. c = Index - 1 \/ c < Index - 1
          BY <2>3, <2>4, <2>8
        <4>2. c < Index - 1 => c * Size + Size <= (Index - 1) * Size
          BY <2>3, <2>4, ProductLess
        <4>3. c * Size \in Nat
          BY <2>3, <2>4
        <4> QED
          BY <2>2, <2>3, <2>4, <4>1, <4>2, <4>3
      <3> HIDE DEF o
      <3>2. slice = {}
        BY <2>2, <2>3, <2>5, <3>1
      <3> QED
        BY <2>2, <2>6, <2>8, <3>2 DEF slice, c
    <2> QED
      BY <2>3, <2>4, <2>7, <2>8
  <1> QED
    BY <1>1, PagesInvariance, PTL

(***************************************************************************)
(* No page holds more rows than asked for, and no walk overflows.          *)
(***************************************************************************)
THEOREM PagesAreBounded == Spec => []PageIsBounded
  <1>1. PagesInv => PageIsBounded
    BY DEF PagesInv, BoundInv, WalkInv, PageIsBounded, Size
  <1> QED
    BY <1>1, PagesInvariance, PTL

(***************************************************************************)
(* A walk by id shows every row that was there all the time, if none was   *)
(* deleted in front of it or inserted while the last page was read.        *)
(***************************************************************************)
THEOREM WalksMissNothing == Spec => []WalkMissesNothing
  <1>1. PagesInv => WalkMissesNothing
    BY DEF PagesInv, WalkInv, WalkMissesNothing
  <1> QED
    BY <1>1, PagesInvariance, PTL

(***************************************************************************)
(* A walk by id shows no row twice, if none was inserted in front of one   *)
(* it has shown.                                                           *)
(***************************************************************************)
THEOREM WalksRepeatNothing == Spec => []WalkRepeatsNothing
  <1>1. PagesInv => WalkRepeatsNothing
    BY DEF PagesInv, WalkInv, WalkRepeatsNothing
  <1> QED
    BY <1>1, PagesInvariance, PTL
=============================================================================
