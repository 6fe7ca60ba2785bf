---------------------------- MODULE PaginationProofs ----------------------------
(* Proofs about Pagination, for any table and any page size.  What is shown *)
(* under which page number is proved for tables whose key column is unique; *)
(* with repeated keys it does not hold.                                     *)
EXTENDS Pagination, FiniteSetTheorems, SequenceTheorems, TLAPS

-----------------------------------------------------------------------------
(* Least elements and intervals. *)

(* A nonempty set of natural numbers has a least element.                   *)
LEMMA LeastNatural ==
  ASSUME NEW T, T \subseteq Nat, T # {}
  PROVE  Min(T) \in T /\ \A n \in T : Min(T) <= n
<1> DEFINE R == {p \in Nat \X Nat : p[1] < p[2]}
<1>1. IsWellFoundedOn(R, Nat)
  BY NatLessThanWellFounded DEF OpToRel
<1>2. \A n, m \in Nat : n < m => <<n, m>> \in R
  OBVIOUS
<1> HIDE DEF R
<1>3. \E m \in T : \A n \in T : ~(<<n, m>> \in R)
  BY <1>1, WFMin
<1>4. PICK m \in T : \A n \in T : <<n, m>> \notin R
  BY <1>3
<1>5. \A n \in T : ~(n < m)
  BY <1>2, <1>4
<1>6. \A n \in T : m <= n
  BY <1>5
<1> QED
  BY <1>6 DEF Min

(* The ends of an interval of numbers.                                     *)
LEMMA EndsOfInterval ==
  ASSUME NEW a \in Nat, NEW b \in Nat, a <= b
  PROVE  Min(a .. b) = a /\ Max(a .. b) = b
  BY DEF Min, Max

USE PageSizeAssumption

(* What LIMIT leaves of consecutive rows, in ascending...                   *)
LEMMA LowestOfInterval ==
  ASSUME NEW a \in Nat, NEW b \in Nat, NEW n \in Nat
  PROVE  Lowest(a .. b, n) = {i \in a .. b : i < a + n}
<1> SUFFICES ASSUME NEW i \in a .. b
             PROVE  Cardinality({j \in a .. b : j <= i}) <= n <=> i < a + n
  BY DEF Lowest
<1> DEFINE S == {j \in a .. b : j <= i}
<1>1. S = a .. i
  OBVIOUS
<1> HIDE DEF S
<1>2. Cardinality(S) = i - a + 1
  BY <1>1, FS_Interval
<1>3. i - a + 1 \in Int /\ (Cardinality(S) <= n <=> i < a + n)
  BY <1>2
<1> QED
  BY <1>3 DEF S

(* ...and in descending order.                                              *)
LEMMA HighestOfInterval ==
  ASSUME NEW a \in Nat, NEW b \in Nat, NEW n \in Nat
  PROVE  Highest(a .. b, n) = {i \in a .. b : i > b - n}
<1> SUFFICES ASSUME NEW i \in a .. b
             PROVE  Cardinality({j \in a .. b : j >= i}) <= n <=> i > b - n
  BY DEF Highest
<1> DEFINE S == {j \in a .. b : j >= i}
<1>1. S = i .. b
  OBVIOUS
<1> HIDE DEF S
<1>2. Cardinality(S) = b - i + 1
  BY <1>1, FS_Interval
<1>3. b - i + 1 \in Int /\ (Cardinality(S) <= n <=> i > b - n)
  BY <1>2
<1> QED
  BY <1>3 DEF S

(* Either way consecutive rows are left, at most as many as the limit.      *)
LEMMA LowestPart ==
  ASSUME NEW a \in Nat \ {0}, NEW b \in Nat, NEW n \in Nat
  PROVE  \E c \in Nat : Lowest(a .. b, n) = a .. c /\ c < a + n
<1>1. Lowest(a .. b, n) = {i \in a .. b : i < a + n}
  BY LowestOfInterval
<1>2. CASE b < a + n
  <2>1. {i \in a .. b : i < a + n} = a .. b
    BY <1>2
  <2> QED
    BY <1>1, <1>2, <2>1
<1>3. CASE b >= a + n
  <2>1. {i \in a .. b : i < a + n} = a .. (a + n - 1)
    BY <1>3
  <2>2. a + n - 1 \in Nat /\ a + n - 1 < a + n
    OBVIOUS
  <2> QED
    BY <1>1, <2>1, <2>2
<1> QED
  BY <1>2, <1>3

(* The highest rows below a bound are again an interval.                   *)
LEMMA HighestPart ==
  ASSUME NEW b \in Nat, NEW n \in Nat
  PROVE  \E c \in Nat \ {0} : Highest(1 .. b, n) = c .. b /\ b < c + n
<1>1. Highest(1 .. b, n) = {i \in 1 .. b : i > b - n}
  BY HighestOfInterval
<1>2. CASE b < n
  <2>1. {i \in 1 .. b : i > b - n} = 1 .. b
    BY <1>2
  <2>2. 1 \in Nat \ {0} /\ b < 1 + n
    BY <1>2
  <2> QED
    BY <1>1, <2>1, <2>2
<1>3. CASE b >= n
  <2>1. {i \in 1 .. b : i > b - n} = (b - n + 1) .. b
    BY <1>3
  <2>2. b - n + 1 \in Nat \ {0} /\ b < (b - n + 1) + n
    BY <1>3
  <2> QED
    BY <1>1, <2>1, <2>2
<1> QED
  BY <1>2, <1>3

(* Rows are numbered from one, and their keys are sorted.                  *)
LEMMA PositionsType ==
  /\ Len(Keys) \in Nat /\ Positions = 1 .. Len(Keys)
  /\ \A i \in Positions : Keys[i] \in Nat \ {0}
  /\ \A i, j \in Positions : i <= j => Keys[i] <= Keys[j]
<1>1. Len(Keys) \in Nat /\ Positions = 1 .. Len(Keys)
  BY KeysAssumption, LenProperties DEF Positions
<1>2. \A i \in Positions : Keys[i] \in Nat \ {0}
  BY <1>1, KeysAssumption, ElementOfSeq
<1> QED
  BY <1>1, <1>2, KeysAssumption

(* The rows after a key, and those before it, are consecutive.              *)
LEMMA RowsAfterKey ==
  ASSUME NEW k \in Nat
  PROVE  \E a \in Nat \ {0} : {i \in Positions : Keys[i] > k} = a .. Len(Keys)
<1> DEFINE S == {i \in Positions : Keys[i] > k}
<1>1. CASE S = {}
  <2>1. (Len(Keys) + 1) .. Len(Keys) = {} /\ Len(Keys) + 1 \in Nat \ {0}
    BY PositionsType
  <2> QED
    BY <1>1, <2>1
<1>2. CASE S # {}
  <2>1. S \subseteq Nat
    BY PositionsType
  <2>2. Min(S) \in S /\ \A i \in S : Min(S) <= i
    <3> HIDE DEF S
    <3> QED
      BY <1>2, <2>1, LeastNatural
  <2> DEFINE a == Min(S)
  <2>3. a \in Positions /\ Keys[a] > k /\ \A i \in S : a <= i
    BY <2>2
  <2> HIDE DEF a
  <2>4. \A i \in a .. Len(Keys) : i \in S
    BY <2>3, PositionsType
  <2>5. a \in Nat \ {0} /\ S = a .. Len(Keys)
    BY <2>3, <2>4, PositionsType
  <2> QED
    BY <2>5
<1> QED
  BY <1>1, <1>2

(* In a sorted table the rows below a key come first.                      *)
LEMMA RowsBeforeKey ==
  ASSUME NEW k \in Nat
  PROVE  \E b \in Nat : b <= Len(Keys) /\ {i \in Positions : Keys[i] < k} = 1 .. b
<1> DEFINE S == {i \in Positions : Keys[i] >= k}
           B == {i \in Positions : Keys[i] < k}
<1>0. Positions = S \union B /\ S \intersect B = {}
  BY PositionsType
<1>1. CASE S = {}
  <2>1. B = 1 .. Len(Keys)
    BY <1>0, <1>1, PositionsType
  <2> QED
    BY <2>1, PositionsType
<1>2. CASE S # {}
  <2>1. S \subseteq Nat
    BY PositionsType
  <2>2. Min(S) \in S /\ \A i \in S : Min(S) <= i
    <3> HIDE DEF S
    <3> QED
      BY <1>2, <2>1, LeastNatural
  <2> DEFINE a == Min(S)
  <2>3. a \in Positions /\ Keys[a] >= k /\ \A i \in S : a <= i
    BY <2>2
  <2> HIDE DEF a
  <2>4. a \in 1 .. Len(Keys) /\ a - 1 \in Nat /\ a - 1 <= Len(Keys)
    BY <2>3, PositionsType
  <2>5. \A i \in Positions : i < a <=> Keys[i] < k
    BY <2>3, PositionsType
  <2>6. B = 1 .. (a - 1)
    BY <2>4, <2>5, PositionsType
  <2> QED
    BY <2>4, <2>6
<1> QED
  BY <1>1, <1>2

-----------------------------------------------------------------------------
(* Pages: consecutive rows, and no more of them than PREVIEW_PAGE_SIZE. *)

IsPage(S) ==
  /\ S \subseteq Positions
  /\ \E a \in Nat \ {0}, b \in Nat : S = a .. b /\ b < a + PageSize

(* A page holds at most PageSize rows.                                     *)
LEMMA PageSizes ==
  ASSUME NEW S, IsPage(S)
  PROVE  IsFiniteSet(S) /\ Cardinality(S) \in 0 .. PageSize
<1>1. PICK a \in Nat \ {0}, b \in Nat : S = a .. b /\ b < a + PageSize
  BY DEF IsPage
<1>2. IsFiniteSet(S) /\ Cardinality(S) = IF a > b THEN 0 ELSE b - a + 1
  BY <1>1, FS_Interval
<1> QED
  BY <1>1, <1>2

(* What arrived of a page before it was cancelled is a page.                *)
LEMMA PartOfPage ==
  ASSUME NEW S, IsPage(S), NEW n \in Nat
  PROVE  IsPage(Lowest(S, n)) /\ Lowest(S, n) \subseteq S
<1>1. PICK a \in Nat \ {0}, b \in Nat : S = a .. b /\ b < a + PageSize
  BY DEF IsPage
<1>2. Lowest(S, n) \subseteq S
  BY DEF Lowest
<1>3. PICK c \in Nat : Lowest(S, n) = a .. c
  BY <1>1, LowestPart
<1>4. Lowest(S, n) \subseteq Positions
  BY <1>2 DEF IsPage
<1>5. CASE c <= b
  BY <1>1, <1>2, <1>3, <1>4, <1>5 DEF IsPage
<1>6. CASE c > b
  <2>1. a > c \/ a > b
    <3>1. a > b \/ c \in a .. c
      BY <1>6
    <3>2. c \notin a .. b
      BY <1>6
    <3> QED
      BY <1>1, <1>2, <1>3, <1>6, <3>1, <3>2
  <2>2. Lowest(S, n) = {}
    <3>1. a > c => a .. c = {}
      OBVIOUS
    <3>2. a > b => a .. b = {}
      OBVIOUS
    <3> QED
      BY <1>1, <1>2, <1>3, <2>1, <3>1, <3>2
  <2>3. Lowest(S, n) = a .. 0
    BY <2>2
  <2>4. 0 < a + PageSize
    OBVIOUS
  <2> QED
    BY <1>2, <1>4, <2>3, <2>4 DEF IsPage
<1> QED
  BY <1>5, <1>6

(* The lowest rows of a page, as many as it has, are the page.             *)
LEMMA WholePage ==
  ASSUME NEW S, IsPage(S)
  PROVE  Lowest(S, Cardinality(S)) = S
<1>1. PICK a \in Nat \ {0}, b \in Nat : S = a .. b /\ b < a + PageSize
  BY DEF IsPage
<1>2. Cardinality(S) = IF a > b THEN 0 ELSE b - a + 1
  BY <1>1, FS_Interval
<1>3. Cardinality(S) \in Nat
  BY <1>2
<1>4. Lowest(S, Cardinality(S)) = {i \in a .. b : i < a + Cardinality(S)}
  BY <1>1, <1>3, LowestOfInterval
<1>5. \A i \in a .. b : i < a + Cardinality(S)
  BY <1>2
<1> QED
  BY <1>1, <1>4, <1>5

(* What a page statement selects by key is a page.                          *)
LEMMA LowestIsPage ==
  ASSUME NEW a \in Nat \ {0}, NEW b \in Nat, b <= Len(Keys)
  PROVE  IsPage(Lowest(a .. b, PageSize))
<1>1. PICK c \in Nat : Lowest(a .. b, PageSize) = a .. c /\ c < a + PageSize
  BY LowestPart
<1>2. Lowest(a .. b, PageSize) \subseteq a .. b
  BY DEF Lowest
<1>3. a .. b \subseteq Positions
  BY PositionsType
<1> QED
  BY <1>1, <1>2, <1>3 DEF IsPage

(* A statement that reads backwards asks for a page.                       *)
LEMMA HighestIsPage ==
  ASSUME NEW b \in Nat, b <= Len(Keys)
  PROVE  IsPage(Highest(1 .. b, PageSize))
<1>1. PICK c \in Nat \ {0} : Highest(1 .. b, PageSize) = c .. b /\ b < c + PageSize
  BY HighestPart
<1>2. Highest(1 .. b, PageSize) \subseteq 1 .. b
  BY DEF Highest
<1>3. 1 .. b \subseteq Positions
  BY PositionsType
<1> QED
  BY <1>1, <1>2, <1>3 DEF IsPage

(* The rows of a page by its offset.                                        *)
LEMMA OffsetPageRows ==
  ASSUME NEW index \in Nat
  PROVE  /\ index * PageSize \in Nat
         /\ OffsetPage(index) =
              {i \in Positions : index * PageSize < i /\ i <= index * PageSize + PageSize}
<1>1. index * PageSize \in Nat /\ (index + 1) * PageSize = index * PageSize + PageSize
  OBVIOUS
<1> QED
  BY <1>1 DEF OffsetPage

(* A statement with an offset asks for a page.                             *)
LEMMA OffsetPageIsPage ==
  ASSUME NEW index \in Nat
  PROVE  IsPage(OffsetPage(index))
<1> DEFINE x == index * PageSize
<1>1. x \in Nat /\ OffsetPage(index) = {i \in Positions : x < i /\ i <= x + PageSize}
  BY OffsetPageRows
<1> HIDE DEF x
<1>2. CASE Len(Keys) < x + PageSize
  <2>1. OffsetPage(index) = (x + 1) .. Len(Keys)
    BY <1>1, <1>2, PositionsType
  <2>2. x + 1 \in Nat \ {0} /\ Len(Keys) \in Nat /\ Len(Keys) < (x + 1) + PageSize
    BY <1>1, <1>2, PositionsType
  <2> QED
    BY <1>1, <2>1, <2>2 DEF IsPage
<1>3. CASE Len(Keys) >= x + PageSize
  <2>1. OffsetPage(index) = (x + 1) .. (x + PageSize)
    BY <1>1, <1>3, PositionsType
  <2>2. x + 1 \in Nat \ {0} /\ x + PageSize \in Nat /\ x + PageSize < (x + 1) + PageSize
    BY <1>1
  <2> QED
    BY <1>1, <2>1, <2>2 DEF IsPage
<1> QED
  BY <1>1, <1>2, <1>3, PositionsType

(* Both kinds of statement begin with the same page.                       *)
LEMMA FirstPage == KeysetFirstPage = OffsetPage(0)
<1>1. 0 * PageSize = 0 /\ 0 \in Nat
  OBVIOUS
<1>2. OffsetPage(0) = {i \in Positions : 0 < i /\ i <= 0 + PageSize}
  BY <1>1, OffsetPageRows
<1>3. KeysetFirstPage = {i \in 1 .. Len(Keys) : i < 1 + PageSize}
  BY PositionsType, LowestOfInterval DEF KeysetFirstPage
<1> QED
  BY <1>2, <1>3, PositionsType

-----------------------------------------------------------------------------
(* Statements and their pages, for any keys. *)

PageStates == PagesRecord({"keyset", "offset"})

Statements == {None} \union SUBSET (Positions \union OtherRows)

(* The statement of a pending page turn is still the one the panel turned   *)
(* to: nothing has failed since, and what it selects is a page.             *)
PendingInv ==
  pending # "none" =>
    /\ pages \in PageStates
    /\ inflight # None
    /\ lastFailed = None
    /\ inflight = IF pending = "reset" THEN OffsetPage(0) ELSE PageSql(pending)
    /\ pending # "reset" => HasSql(pending)
    /\ pending = "previous" => pages.index > 0
    /\ pending = "next" => pages.count >= PageSize

IInv == TypeOK /\ PendingInv

(* Whatever is turned to, the statement asks for a page.                   *)
LEMMA PageSqlIsPage ==
  ASSUME pages \in PageStates, NEW transition \in {"next", "previous"},
         transition = "previous" => pages.index > 0
  PROVE  IsPage(PageSql(transition))
<1>1. pages.index \in Nat /\ pages.first \in Nat /\ pages.last \in Nat
  BY DEF PageStates, PagesRecord
<1>2. CASE pages.plan = "keyset" /\ transition = "next"
  <2>1. PICK a \in Nat \ {0} : {i \in Positions : Keys[i] > pages.last} = a .. Len(Keys)
    BY <1>1, RowsAfterKey
  <2>2. IsPage(Lowest(a .. Len(Keys), PageSize))
    BY LowestIsPage, PositionsType
  <2> QED
    BY <1>2, <2>1, <2>2 DEF PageSql, KeysetNextPage
<1>3. CASE pages.plan = "keyset" /\ transition = "previous"
  <2>1. PICK b \in Nat : b <= Len(Keys)
                         /\ {i \in Positions : Keys[i] < pages.first} = 1 .. b
    BY <1>1, RowsBeforeKey
  <2>2. IsPage(Highest(1 .. b, PageSize))
    BY <2>1, HighestIsPage
  <2> QED
    BY <1>3, <2>1, <2>2 DEF PageSql, KeysetPreviousPage
<1>4. CASE pages.plan # "keyset" /\ transition = "next"
  BY <1>1, <1>4, OffsetPageIsPage DEF PageSql
<1>5. CASE pages.plan # "keyset" /\ transition = "previous"
  BY <1>1, <1>5, OffsetPageIsPage DEF PageSql
<1> QED
  BY <1>2, <1>3, <1>4, <1>5

(* A page is a statement, and not the absence of one.                      *)
LEMMA PageIsStatement ==
  ASSUME NEW S, IsPage(S)
  PROVE  S \subseteq Positions /\ S \in Statements /\ S # None
<1>1. S \subseteq Positions
  BY DEF IsPage
<1>2. 0 \notin S
  BY <1>1, PositionsType
<1> QED
  BY <1>1, <1>2 DEF Statements, None

(* The bounds of a page are keys, or none if it is empty.                   *)
LEMMA BoundsType ==
  ASSUME NEW S, IsPage(S)
  PROVE  /\ FirstKey(S) \in Nat /\ LastKey(S) \in Nat
         /\ S # {} => FirstKey(S) # NoKey /\ LastKey(S) # NoKey
         /\ S # {} => \E a \in Nat \ {0}, b \in Nat :
              S = a .. b /\ a <= b /\ FirstKey(S) = Keys[a] /\ LastKey(S) = Keys[b]
<1>1. PICK a \in Nat \ {0}, b \in Nat : S = a .. b /\ S \subseteq Positions
  BY DEF IsPage
<1>2. CASE S = {}
  BY <1>2 DEF FirstKey, LastKey, NoKey
<1>3. CASE S # {}
  <2>1. a <= b
    BY <1>1, <1>3
  <2>2. Min(S) = a /\ Max(S) = b
    BY <1>1, <2>1, EndsOfInterval
  <2>3. a \in Positions /\ b \in Positions
    BY <1>1, <2>1
  <2>4. FirstKey(S) = Keys[a] /\ LastKey(S) = Keys[b]
    BY <1>3, <2>2 DEF FirstKey, LastKey
  <2> QED
    BY <1>1, <2>1, <2>3, <2>4, PositionsType DEF NoKey
<1> QED
  BY <1>2, <1>3

(* A cancelled page is a page, and so is one that came whole.               *)
LEMMA AnswerOfPage ==
  ASSUME IsPage(inflight), NEW rows \in Answers
  PROVE  IsPage(rows) /\ \E n \in 0 .. PageSize : rows = Lowest(inflight, n)
<1>1. Cardinality(inflight) \in 0 .. PageSize
  BY PageSizes
<1>2. \E n \in 0 .. Cardinality(inflight) : rows = Lowest(inflight, n)
  <2>1. CASE cancel = "token"
    BY <2>1 DEF Answers
  <2>2. CASE cancel # "token"
    BY <1>1, <2>2, WholePage DEF Answers
  <2> QED
    BY <2>1, <2>2
<1>3. PICK n \in 0 .. Cardinality(inflight) : rows = Lowest(inflight, n)
  BY <1>2
<1>4. n \in 0 .. PageSize /\ n \in Nat
  BY <1>1, <1>3
<1> QED
  BY <1>3, <1>4, PartOfPage

(* While a transition is pending the statement in flight is a page.        *)
LEMMA PendingIsPage ==
  ASSUME PendingInv, pending \in {"reset", "next", "previous"}
  PROVE  IsPage(inflight)
<1>1. pages \in PageStates
  BY DEF PendingInv
<1>2. CASE pending = "reset"
  <2>1. IsPage(OffsetPage(0))
    BY OffsetPageIsPage
  <2> QED
    BY <1>2, <2>1 DEF PendingInv
<1>3. CASE pending # "reset"
  <2>1. pending \in {"next", "previous"} /\ (pending = "previous" => pages.index > 0)
        /\ inflight = PageSql(pending)
    BY <1>3 DEF PendingInv
  <2> QED
    BY <1>1, <2>1, PageSqlIsPage
<1> QED
  BY <1>2, <1>3

(* Finalizing a transition leaves a page state or none.                    *)
LEMMA FinalizedType ==
  ASSUME PendingInv, pages = NoPages \/ pages \in PageStates,
         pending \in {"none", "reset", "next", "previous"}, NEW rows \in Answers
  PROVE  Finalized(rows) = NoPages \/ Finalized(rows) \in PageStates
<1>1. CASE pending = "none" \/ pages = NoPages
  BY <1>1 DEF Finalized
<1>2. CASE ~(pending = "none" \/ pages = NoPages)
  <2>1. IsPage(rows)
    BY <1>2, PendingIsPage, AnswerOfPage
  <2>2. /\ pages \in PageStates /\ pages.index \in Nat /\ pages.first \in Nat
        /\ pages.last \in Nat /\ pages.plan \in {"keyset", "offset"}
    BY <1>2 DEF PageStates, PagesRecord
  <2>3. FirstKey(rows) \in Nat /\ LastKey(rows) \in Nat /\ Cardinality(rows) \in 0 .. PageSize
    BY <2>1, BoundsType, PageSizes
  <2>4. Turned(pending, rows) \in Nat
    <3>1. CASE pending = "reset"
      BY <3>1 DEF Turned
    <3>2. CASE pending = "next" /\ rows # {}
      BY <2>2, <3>2 DEF Turned
    <3>3. CASE pending = "previous" /\ rows # {}
      BY <2>2, <3>3 DEF Turned
    <3>4. CASE pending # "reset" /\ rows = {}
      BY <2>2, <3>4 DEF Turned
    <3> QED
      BY <1>2, <3>1, <3>2, <3>3, <3>4
  <2> QED
    BY <1>2, <2>2, <2>3, <2>4 DEF Finalized, PageStates, PagesRecord
<1> QED
  BY <1>1, <1>2

(* The invariant holds before the first preview.                           *)
LEMMA IInvInit == Init => IInv
  BY DEF Init, IInv, TypeOK, PendingInv

(* Types, with the statements by name.                                      *)
LEMMA TypeParts ==
  TypeOK <=>
    /\ pages = NoPages \/ pages \in PageStates
    /\ pending \in {"none", "reset", "next", "previous"}
    /\ results \subseteq Positions \union OtherRows
    /\ running \in BOOLEAN
    /\ inflight \in Statements /\ lastFailed \in Statements /\ parked \in Statements
    /\ cancel \in {"no", "asked", "token"}
    /\ panel \in {"none", "query", "connection"}
    /\ restarted \in BOOLEAN
  BY DEF TypeOK, PageStates, Statements

(* Every step preserves it.                                                *)
LEMMA IInvStep == IInv /\ [Next]_vars => IInv'
<1> SUFFICES ASSUME IInv, [Next]_vars PROVE IInv'
  OBVIOUS
<1>0. /\ pages = NoPages \/ pages \in PageStates
      /\ pending \in {"none", "reset", "next", "previous"}
      /\ results \subseteq Positions \union OtherRows
      /\ running \in BOOLEAN
      /\ inflight \in Statements /\ lastFailed \in Statements /\ parked \in Statements
      /\ cancel \in {"no", "asked", "token"}
      /\ panel \in {"none", "query", "connection"}
      /\ restarted \in BOOLEAN
      /\ PendingInv /\ None \in Statements /\ OtherRows \in Statements
  BY TypeParts DEF IInv, Statements
<1>1. ASSUME /\ pages' = NoPages \/ pages' \in PageStates
             /\ pending' \in {"none", "reset", "next", "previous"}
             /\ results' \subseteq Positions \union OtherRows
             /\ running' \in BOOLEAN
             /\ inflight' \in Statements /\ lastFailed' \in Statements /\ parked' \in Statements
             /\ cancel' \in {"no", "asked", "token"}
             /\ panel' \in {"none", "query", "connection"}
             /\ restarted' \in BOOLEAN
             /\ PendingInv'
      PROVE  IInv'
  BY <1>1 DEF IInv, TypeOK, PageStates, Statements
<1>2. ASSUME NEW plan \in {"keyset", "offset"}, PreviewTable(plan)
      PROVE  IInv'
  <2>1. pages' \in PageStates
    BY <1>2 DEF PreviewTable, PageStates, PagesRecord, NoKey
  <2>2. inflight' = OffsetPage(0) /\ inflight' \in Statements /\ inflight' # None
    <3>1. inflight' = OffsetPage(0)
      BY <1>2, FirstPage DEF PreviewTable, Start, Launch
    <3>2. IsPage(OffsetPage(0))
      BY OffsetPageIsPage
    <3> QED
      BY <3>1, <3>2, PageIsStatement
  <2>3. /\ pending' = "reset" /\ lastFailed' = None /\ parked' = None /\ results' = {}
        /\ running' = TRUE /\ cancel' = "no" /\ panel' = "none" /\ restarted' = FALSE
    BY <1>2 DEF PreviewTable, Start, Launch
  <2>4. PendingInv'
    BY <2>1, <2>2, <2>3 DEF PendingInv
  <2> QED
    BY <1>0, <1>1, <2>1, <2>2, <2>3, <2>4
<1>3. ASSUME NEW transition \in {"next", "previous"}, TurnPage(transition)
      PROVE  IInv'
  <2>1. /\ pages \in PageStates /\ pages' = pages /\ HasSql(transition)
        /\ (transition = "previous" => pages.index > 0)
        /\ (transition = "next" => pages.count >= PageSize)
    BY <1>0, <1>3 DEF TurnPage, CanPageNext, CanPagePrevious
  <2>2. IsPage(PageSql(transition))
    BY <2>1, PageSqlIsPage
  <2>3. inflight' = PageSql(transition) /\ inflight' \in Statements /\ inflight' # None
    BY <1>3, <2>2, PageIsStatement DEF TurnPage, Start, Launch
  <2>4. /\ pending' = transition /\ lastFailed' = None /\ parked' = None /\ results' = {}
        /\ running' = TRUE /\ cancel' = "no" /\ panel' = "none" /\ restarted' = FALSE
    BY <1>3 DEF TurnPage, Start, Launch
  <2>5. PendingInv'
    BY <2>1, <2>3, <2>4 DEF PendingInv, PageSql, HasSql
  <2> QED
    BY <1>0, <1>1, <2>1, <2>3, <2>4, <2>5
<1>4. CASE RunOther
  <2>1. pending' = "none"
    BY <1>4 DEF RunOther, ForgetPages
  <2> QED
    BY <1>0, <1>1, <1>4, <2>1 DEF RunOther, ForgetPages, Start, Launch, PendingInv
<1>5. CASE MoveSelection
  BY <1>0, <1>1, <1>5 DEF MoveSelection, ForgetPages, replayVars, PendingInv
<1>6. ASSUME UNCHANGED <<pages, pending, inflight, lastFailed>>
      PROVE  PendingInv'
  BY <1>0, <1>6 DEF PendingInv, PageSql, HasSql
<1>7. CASE CancelWorker \/ CancelAction
  BY <1>0, <1>1, <1>6, <1>7 DEF CancelWorker, CancelAction, pageVars, replayVars
<1>8. CASE RunHealthDiagnostics \/ DismissPanel
  BY <1>0, <1>1, <1>6, <1>8 DEF RunHealthDiagnostics, DismissPanel, pageVars, replayVars
<1>9. CASE RetryFromPanel
  <2>1. pending' = "none"
    BY <1>0, <1>9 DEF RetryFromPanel, PendingInv, pageVars
  <2> QED
    BY <1>0, <1>1, <1>9, <2>1 DEF RetryFromPanel, Start, Launch, pageVars, PendingInv
<1>10. CASE QuerySucceeded
  <2>1. PICK rows \in Answers : results' = rows /\ pages' = Finalized(rows)
    BY <1>10 DEF QuerySucceeded
  <2>2. rows \subseteq inflight
    BY DEF Answers, Lowest
  <2>3. rows \subseteq Positions \union OtherRows
    BY <1>0, <1>10, <2>2 DEF QuerySucceeded, Statements
  <2>4. pages' = NoPages \/ pages' \in PageStates
    BY <1>0, <2>1, FinalizedType
  <2> QED
    BY <1>0, <1>1, <1>10, <2>1, <2>3, <2>4 DEF QuerySucceeded, PendingInv
<1>11. CASE QueryRetried
  BY <1>0, <1>1, <1>11 DEF QueryRetried, TransitionAfterFailure, Launch, replayVars, PendingInv
<1>12. CASE QueryParked
  BY <1>0, <1>1, <1>12 DEF QueryParked, TransitionAfterFailure, PendingInv
<1>13. CASE QueryFailed
  BY <1>0, <1>1, <1>13 DEF QueryFailed, TransitionAfterFailure, PendingInv
<1>14. CASE ConnectSucceeded
  <2>1. CASE Start(parked) /\ restarted' = TRUE
    BY <1>0, <1>1, <1>14, <2>1 DEF ConnectSucceeded, ForgetPages, Start, Launch, PendingInv
  <2>2. CASE /\ panel' = "none"
             /\ UNCHANGED <<results, running, inflight, cancel, replayVars, restarted>>
    BY <1>0, <1>1, <1>14, <2>2 DEF ConnectSucceeded, ForgetPages, replayVars, PendingInv
  <2> QED
    BY <1>14, <2>1, <2>2 DEF ConnectSucceeded
<1>15. CASE ConnectFailed
  BY <1>0, <1>1, <1>6, <1>15 DEF ConnectFailed, pageVars
<1>16. CASE UNCHANGED vars
  BY <1>0, <1>1, <1>6, <1>16 DEF vars
<1> QED
  BY <1>2, <1>3, <1>4, <1>5, <1>7, <1>8, <1>9, <1>10, <1>11, <1>12, <1>13, <1>14, <1>15,
     <1>16 DEF Next

(* It holds throughout.                                                    *)
LEMMA Inductive == Spec => []IInv
  BY IInvInit, IInvStep, PTL DEF Spec

(* The typing invariant, for any keys and any page size: above all, no page *)
(* holds more rows than its size.                                           *)
THEOREM Typing == Spec => []TypeOK
<1>1. IInv => TypeOK
  BY DEF IInv
<1> QED
  BY <1>1, Inductive, PTL

(* No failure, cancel, retry or cursor move leaves a page transition to the *)
(* statement that runs next.                                                *)
THEOREM TransitionsHaveTheirStatement == Spec => []TransitionHasItsStatement
<1>1. \A p \in PageStates : p # NoPages
  BY DEF PageStates, PagesRecord, NoPages
<1>2. IInv => TransitionHasItsStatement
  BY <1>1 DEF IInv, PendingInv, TransitionHasItsStatement
<1> QED
  BY <1>2, Inductive, PTL

-----------------------------------------------------------------------------
(* What is shown, when keys are unique. *)

KeysAreUnique == \A i, j \in Positions : i < j => Keys[i] < Keys[j]

(* The keys a page is left by are its first and last row's, or there are    *)
(* none and it cannot be left by key.                                       *)
KeysMatch ==
  pages \in PageStates /\ pages.plan = "keyset" =>
    \/ pages.first = NoKey /\ pages.last = NoKey
    \/ /\ pages.count \in 1 .. PageSize
       /\ pages.index * PageSize + pages.count \in Positions
       /\ pages.first = Keys[pages.index * PageSize + 1]
       /\ pages.last = Keys[pages.index * PageSize + pages.count]

(* Rows are shown under the page they are from, unless a statement was      *)
(* started again; until a page turn's outcome there are none.               *)
ShownInv ==
  /\ inflight # None => results = {}
  /\ pages \in PageStates /\ inflight # None /\ ~restarted => pending # "none"
  /\ pages \in PageStates /\ results # {} /\ ~restarted =>
       /\ \E n \in 0 .. PageSize : results = Lowest(OffsetPage(pages.index), n)
       /\ pages.plan = "keyset" => pages.first # NoKey

(* With unique keys, the rows above the last key shown are the next page.  *)
LEMMA NextPageByKey ==
  ASSUME KeysAreUnique, NEW index \in Nat, index * PageSize + PageSize \in Positions
  PROVE  KeysetNextPage(Keys[index * PageSize + PageSize]) = OffsetPage(index + 1)
<1> DEFINE x == index * PageSize
           p == x + PageSize
           after == {i \in Positions : Keys[i] > Keys[p]}
<1>1. x \in Nat /\ p \in Nat /\ p \in Positions /\ (index + 1) * PageSize = p /\ index + 1 \in Nat
  OBVIOUS
<1> HIDE DEF x, p
<1>2. after = (p + 1) .. Len(Keys)
  <2>1. \A i \in Positions : Keys[i] > Keys[p] <=> i >= p + 1
    BY <1>1, PositionsType DEF KeysAreUnique
  <2> QED
    BY <1>1, <2>1, PositionsType
<1> HIDE DEF after
<1>3. Lowest(after, PageSize) = {i \in (p + 1) .. Len(Keys) : i < (p + 1) + PageSize}
  BY <1>1, <1>2, PositionsType, LowestOfInterval
<1>4. OffsetPage(index + 1) = {i \in Positions : p < i /\ i <= p + PageSize}
  BY <1>1, OffsetPageRows
<1>5. Lowest(after, PageSize) = OffsetPage(index + 1)
  BY <1>1, <1>3, <1>4, PositionsType
<1> QED
  BY <1>5 DEF KeysetNextPage, after, p, x

(* With unique keys, the rows below the first key shown are the page       *)
(* before.                                                                 *)
LEMMA PreviousPageByKey ==
  ASSUME KeysAreUnique, NEW index \in Nat \ {0}, index * PageSize + 1 \in Positions
  PROVE  KeysetPreviousPage(Keys[index * PageSize + 1]) = OffsetPage(index - 1)
<1> DEFINE x == index * PageSize
           q == x + 1
           before == {i \in Positions : Keys[i] < Keys[q]}
<1>1. x \in Nat /\ q \in Positions /\ (index - 1) * PageSize = x - PageSize /\ index - 1 \in Nat
      /\ q = x + 1
  OBVIOUS
<1> HIDE DEF x, q
<1>2. before = 1 .. x
  <2>1. \A i \in Positions : Keys[i] < Keys[q] <=> i <= x
    BY <1>1, PositionsType DEF KeysAreUnique
  <2> QED
    BY <1>1, <2>1, PositionsType
<1> HIDE DEF before
<1>3. Highest(before, PageSize) = {i \in 1 .. x : i > x - PageSize}
  BY <1>1, <1>2, HighestOfInterval
<1>4. OffsetPage(index - 1) =
        {i \in Positions : x - PageSize < i /\ i <= (x - PageSize) + PageSize}
  BY <1>1, OffsetPageRows
<1>5. Highest(before, PageSize) = OffsetPage(index - 1)
  BY <1>1, <1>3, <1>4, PositionsType
<1> QED
  BY <1>5 DEF KeysetPreviousPage, before, q, x

(* Turning by key shows the page that turning by offset would.              *)
LEMMA PageSqlIsOffsetPage ==
  ASSUME KeysAreUnique, pages \in PageStates, KeysMatch,
         NEW transition \in {"next", "previous"}, HasSql(transition),
         transition = "previous" => pages.index > 0,
         transition = "next" => pages.count >= PageSize
  PROVE  PageSql(transition) =
           OffsetPage(IF transition = "next" THEN pages.index + 1 ELSE pages.index - 1)
<1>1. /\ pages.index \in Nat /\ pages.count \in 0 .. PageSize
      /\ pages.first \in Nat /\ pages.last \in Nat
  BY DEF PageStates, PagesRecord
<1>2. CASE pages.plan # "keyset"
  BY <1>2 DEF PageSql
<1>3. CASE pages.plan = "keyset" /\ transition = "next"
  <2>1. pages.last # NoKey
    BY <1>3 DEF HasSql
  <2>2. /\ pages.index * PageSize + pages.count \in Positions
        /\ pages.last = Keys[pages.index * PageSize + pages.count]
    BY <1>3, <2>1 DEF KeysMatch
  <2>3. pages.count = PageSize
    BY <1>1, <1>3
  <2>4. KeysetNextPage(pages.last) = OffsetPage(pages.index + 1)
    BY <1>1, <2>2, <2>3, NextPageByKey
  <2> QED
    BY <1>3, <2>4 DEF PageSql
<1>4. CASE pages.plan = "keyset" /\ transition = "previous"
  <2>1. pages.first # NoKey
    BY <1>4 DEF HasSql
  <2>2. /\ pages.index * PageSize + pages.count \in Positions
        /\ pages.count \in 1 .. PageSize
        /\ pages.first = Keys[pages.index * PageSize + 1]
    BY <1>4, <2>1 DEF KeysMatch
  <2>3. pages.index * PageSize \in Nat
    BY <1>1
  <2>4. pages.index * PageSize + 1 \in Positions
    BY <2>2, <2>3, PositionsType
  <2>5. KeysetPreviousPage(pages.first) = OffsetPage(pages.index - 1)
    BY <1>1, <1>4, <2>2, <2>4, PreviousPageByKey
  <2> QED
    BY <1>4, <2>5 DEF PageSql
<1> QED
  BY <1>2, <1>3, <1>4

(* The bounds and the size of what arrived of a page.                       *)
LEMMA PartOfOffsetPage ==
  ASSUME NEW index \in Nat, NEW n \in 0 .. PageSize, NEW rows,
         rows = Lowest(OffsetPage(index), n), rows # {}
  PROVE  /\ Cardinality(rows) \in 1 .. PageSize
         /\ index * PageSize + Cardinality(rows) \in Positions
         /\ FirstKey(rows) = Keys[index * PageSize + 1]
         /\ LastKey(rows) = Keys[index * PageSize + Cardinality(rows)]
<1> DEFINE x == index * PageSize
<1>1. x \in Nat /\ OffsetPage(index) = {i \in Positions : x < i /\ i <= x + PageSize}
  BY OffsetPageRows
<1> HIDE DEF x
<1>2. PICK b \in Nat : OffsetPage(index) = (x + 1) .. b
  <2>1. CASE Len(Keys) < x + PageSize
    <3>1. OffsetPage(index) = (x + 1) .. Len(Keys)
      BY <1>1, <2>1, PositionsType
    <3> QED
      BY <3>1, PositionsType
  <2>2. CASE Len(Keys) >= x + PageSize
    <3>1. OffsetPage(index) = (x + 1) .. (x + PageSize) /\ x + PageSize \in Nat
      BY <1>1, <2>2, PositionsType
    <3> QED
      BY <3>1
  <2>3. Len(Keys) < x + PageSize \/ Len(Keys) >= x + PageSize
    BY <1>1, PositionsType
  <2> QED
    BY <2>1, <2>2, <2>3
<1>3. x + 1 \in Nat \ {0} /\ n \in Nat /\ n <= PageSize
  BY <1>1
<1>4. PICK c \in Nat : rows = (x + 1) .. c /\ c < (x + 1) + n
  BY <1>2, <1>3, LowestPart
<1>5. x + 1 <= c
  <2>1. c < x + 1 => (x + 1) .. c = {}
    BY <1>1
  <2>2. (x + 1) .. c # {}
    BY <1>4
  <2> QED
    BY <1>1, <2>1, <2>2
<1>6. Cardinality(rows) = c - x
  <2>1. Cardinality((x + 1) .. c) = c - (x + 1) + 1
    BY <1>1, <1>5, FS_Interval
  <2> QED
    BY <1>1, <1>4, <2>1
<1>7. c \in rows /\ rows \subseteq Positions
  <2>1. c \in (x + 1) .. c
    BY <1>1, <1>5
  <2>2. rows \subseteq OffsetPage(index)
    BY DEF Lowest
  <2>3. OffsetPage(index) \subseteq Positions
    BY DEF OffsetPage
  <2> QED
    BY <1>4, <2>1, <2>2, <2>3
<1>8. Min(rows) = x + 1 /\ Max(rows) = c
  BY <1>3, <1>4, <1>5, EndsOfInterval
<1>9. FirstKey(rows) = Keys[x + 1] /\ LastKey(rows) = Keys[c]
  BY <1>8 DEF FirstKey, LastKey
<1>10. x + Cardinality(rows) = c /\ Cardinality(rows) \in 1 .. PageSize
  BY <1>1, <1>3, <1>4, <1>5, <1>6
<1> QED
  BY <1>7, <1>9, <1>10 DEF x

(* At first nothing is shown.                                              *)
LEMMA ShownInit == Init => KeysMatch /\ ShownInv
<1>1. NoPages \notin PageStates
  BY DEF PageStates, PagesRecord, NoPages
<1> QED
  BY <1>1 DEF Init, KeysMatch, ShownInv

(* The outcome of a turn, whole, cut short or empty.                        *)
LEMMA ShownOutcome ==
  ASSUME KeysAreUnique, IInv, KeysMatch, ShownInv, QuerySucceeded
  PROVE  KeysMatch' /\ ShownInv'
<1>0. /\ TypeOK /\ PendingInv /\ inflight # None /\ inflight' = None /\ restarted' = restarted
      /\ pending' = "none"
      /\ pending \in {"none", "reset", "next", "previous"}
      /\ pages = NoPages \/ pages \in PageStates
  BY TypeParts DEF IInv, QuerySucceeded
<1>1. PICK rows \in Answers : results' = rows /\ pages' = Finalized(rows)
  BY DEF QuerySucceeded
<1>2. NoPages \notin PageStates
  BY DEF PageStates, PagesRecord, NoPages
<1>3. CASE pages = NoPages
  <2>1. pages' = NoPages
    BY <1>1, <1>3 DEF Finalized
  <2> QED
    BY <1>0, <1>2, <2>1 DEF KeysMatch, ShownInv
<1>4. CASE pages \in PageStates /\ pending = "none"
  <2>1. pages' = pages
    BY <1>1, <1>4 DEF Finalized
  <2>2. restarted
    BY <1>0, <1>4 DEF ShownInv
  <2>3. KeysMatch'
    BY <2>1 DEF KeysMatch
  <2> QED
    BY <1>0, <2>2, <2>3 DEF ShownInv
<1>5. CASE pages \in PageStates /\ pending # "none"
  <2>1. /\ pages.index \in Nat /\ pages.plan \in {"keyset", "offset"}
        /\ pages.first \in Nat /\ pages.last \in Nat /\ pages # NoPages
    BY <1>2, <1>5 DEF PageStates, PagesRecord
  <2> DEFINE shown == IF pending = "reset" THEN 0
                      ELSE IF pending = "next" THEN pages.index + 1 ELSE pages.index - 1
  <2>2. shown \in Nat /\ inflight = OffsetPage(shown)
    <3>1. CASE pending = "reset"
      BY <1>0, <3>1 DEF PendingInv
    <3>2. CASE pending \in {"next", "previous"}
      <4>1. /\ HasSql(pending) /\ inflight = PageSql(pending)
            /\ (pending = "previous" => pages.index > 0)
            /\ (pending = "next" => pages.count >= PageSize)
        BY <1>0, <3>2 DEF PendingInv
      <4>2. PageSql(pending) =
              OffsetPage(IF pending = "next" THEN pages.index + 1 ELSE pages.index - 1)
        BY <1>5, <3>2, <4>1, PageSqlIsOffsetPage
      <4> QED
        BY <2>1, <3>2, <4>1, <4>2
    <3> QED
      BY <1>0, <1>5, <3>1, <3>2
  <2>3. /\ pages'.plan = pages.plan /\ pages'.index = Turned(pending, rows)
        /\ pages'.count = Cardinality(rows)
        /\ pages'.first = IF pages.plan = "keyset" THEN FirstKey(rows) ELSE pages.first
        /\ pages'.last = IF pages.plan = "keyset" THEN LastKey(rows) ELSE pages.last
    BY <1>1, <1>5, <2>1 DEF Finalized
  <2>4. IsPage(rows) /\ \E n \in 0 .. PageSize : rows = Lowest(inflight, n)
    BY <1>0, <1>5, PendingIsPage, AnswerOfPage
  <2>5. CASE rows = {}
    <3>1. pages.plan = "keyset" => pages'.first = NoKey /\ pages'.last = NoKey
      BY <2>3, <2>5 DEF FirstKey, LastKey
    <3> QED
      BY <1>0, <1>1, <2>3, <2>5, <3>1 DEF KeysMatch, ShownInv
  <2>6. CASE rows # {}
    <3>1. pages'.index = shown
      <4>1. pending = "previous" => pages.index > 0
        BY <1>0 DEF PendingInv
      <4> QED
        BY <1>0, <1>5, <2>1, <2>3, <2>6, <4>1 DEF Turned
    <3>2. PICK n \in 0 .. PageSize : rows = Lowest(OffsetPage(shown), n)
      BY <2>2, <2>4
    <3> HIDE DEF shown
    <3>3. /\ Cardinality(rows) \in 1 .. PageSize
          /\ shown * PageSize + Cardinality(rows) \in Positions
          /\ FirstKey(rows) = Keys[shown * PageSize + 1]
          /\ LastKey(rows) = Keys[shown * PageSize + Cardinality(rows)]
      BY <2>2, <2>6, <3>2, PartOfOffsetPage
    <3>4. KeysMatch'
      BY <2>3, <3>1, <3>3 DEF KeysMatch
    <3>5. pages'.plan = "keyset" => pages'.first # NoKey
      BY <2>3, <2>4, <2>6, BoundsType
    <3>6. ShownInv'
      BY <1>0, <1>1, <3>1, <3>2, <3>5 DEF ShownInv
    <3> QED
      BY <3>4, <3>6
  <2> QED
    BY <2>5, <2>6
<1> QED
  BY <1>0, <1>3, <1>4, <1>5

(* Every step keeps what is shown with the number it is shown under.       *)
LEMMA ShownStep ==
  ASSUME KeysAreUnique, IInv, KeysMatch, ShownInv, [Next]_vars
  PROVE  KeysMatch' /\ ShownInv'
<1>0. NoPages \notin PageStates
  BY DEF PageStates, PagesRecord, NoPages
<1>1. ASSUME pages' = pages \/ pages' = NoPages
      PROVE  KeysMatch'
  BY <1>0, <1>1 DEF KeysMatch
<1>2. ASSUME NEW plan \in {"keyset", "offset"}, PreviewTable(plan)
      PROVE  KeysMatch' /\ ShownInv'
  BY <1>2 DEF PreviewTable, Start, Launch, KeysMatch, ShownInv
<1>3. ASSUME NEW transition \in {"next", "previous"}, TurnPage(transition)
      PROVE  KeysMatch' /\ ShownInv'
  <2>1. results' = {} /\ pending' # "none" /\ pages' = pages
    BY <1>3 DEF TurnPage, Start, Launch
  <2> QED
    BY <1>1, <2>1 DEF ShownInv
<1>4. CASE RunOther \/ MoveSelection \/ ConnectSucceeded
  <2>1. pages' = NoPages
    BY <1>4 DEF RunOther, MoveSelection, ConnectSucceeded, ForgetPages
  <2>2. inflight' # None => results' = {}
    BY <1>4 DEF RunOther, MoveSelection, ConnectSucceeded, Start, Launch, ShownInv
  <2> QED
    BY <1>0, <1>1, <2>1, <2>2 DEF ShownInv
<1>5. ASSUME UNCHANGED <<pageVars, results, inflight, restarted>>
      PROVE  KeysMatch' /\ ShownInv'
  BY <1>5 DEF pageVars, KeysMatch, ShownInv
<1>6. CASE \/ CancelWorker \/ CancelAction \/ RunHealthDiagnostics \/ DismissPanel
           \/ ConnectFailed
  BY <1>5, <1>6 DEF CancelWorker, CancelAction, RunHealthDiagnostics, DismissPanel, ConnectFailed
<1>7. CASE RetryFromPanel \/ QueryRetried
  <2>1. pages' = pages /\ results' = {} /\ restarted' = TRUE
    BY <1>7 DEF RetryFromPanel, QueryRetried, Start, Launch, pageVars
  <2> QED
    BY <1>1, <2>1 DEF ShownInv
<1>8. CASE QuerySucceeded
  BY <1>8, ShownOutcome
<1>9. CASE QueryParked \/ QueryFailed
  <2>1. pages' = pages /\ results' = results /\ inflight # None /\ inflight' = None
    BY <1>9 DEF QueryParked, QueryFailed
  <2> QED
    BY <1>1, <2>1 DEF ShownInv
<1>10. CASE UNCHANGED vars
  BY <1>5, <1>10 DEF vars, pageVars
<1> QED
  BY <1>2, <1>3, <1>4, <1>6, <1>7, <1>8, <1>9, <1>10 DEF Next

(* With unique keys, both invariants hold throughout.                      *)
LEMMA ShownInductive ==
  ASSUME KeysAreUnique
  PROVE  Spec => [](IInv /\ KeysMatch /\ ShownInv)
<1>1. IInv /\ KeysMatch /\ ShownInv /\ [Next]_vars => (KeysMatch /\ ShownInv)'
  BY ShownStep
<1> QED
  BY <1>1, ShownInit, IInvInit, IInvStep, PTL DEF Spec

(* With a unique key, the page the header names is the page shown, or the   *)
(* part of it that arrived before a cancel.                                 *)
THEOREM NamedPagesAreShown ==
  ASSUME KeysAreUnique
  PROVE  Spec => []NamedPageShown
<1>1. IInv /\ KeysMatch /\ ShownInv => NamedPageShown
  <2> SUFFICES ASSUME IInv, ShownInv, ~restarted, pages # NoPages
               PROVE  \E n \in 0 .. PageSize : results = Lowest(OffsetPage(pages.index), n)
    BY DEF NamedPageShown, ShowsNamedPage
  <2>1. pages \in PageStates /\ pages.index \in Nat
    BY TypeParts DEF IInv, PageStates, PagesRecord
  <2>2. CASE results # {}
    BY <2>1, <2>2 DEF ShownInv
  <2>3. CASE results = {}
    <3>1. PICK a \in Nat \ {0}, b \in Nat : OffsetPage(pages.index) = a .. b
      BY <2>1, OffsetPageIsPage DEF IsPage
    <3>2. Lowest(a .. b, 0) = {i \in a .. b : i < a + 0}
      BY LowestOfInterval
    <3>3. {i \in a .. b : i < a + 0} = {}
      OBVIOUS
    <3> QED
      BY <2>3, <3>1, <3>2, <3>3
  <2> QED
    BY <2>2, <2>3
<1> QED
  BY <1>1, ShownInductive, PTL

(* With a unique key, Next and Previous turn to the pages around the one    *)
(* shown, by key as by offset: no row is skipped and none is shown twice.   *)
THEOREM PagesTurnContiguously ==
  ASSUME KeysAreUnique
  PROVE  Spec => []TurnsAreContiguous
<1>1. IInv /\ KeysMatch /\ ShownInv => TurnsAreContiguous
  <2> SUFFICES ASSUME IInv, KeysMatch, ShownInv, results # {}, ~restarted, pages # NoPages
               PROVE  /\ CanPageNext =>
                           HasSql("next") /\ PageSql("next") = OffsetPage(pages.index + 1)
                      /\ CanPagePrevious =>
                           HasSql("previous") /\ PageSql("previous") = OffsetPage(pages.index - 1)
    BY DEF TurnsAreContiguous, CanPageNext, CanPagePrevious
  <2>1. pages \in PageStates
    BY TypeParts DEF IInv
  <2>2. pages.plan = "keyset" => pages.first # NoKey /\ pages.last # NoKey
    <3>1. pages.plan = "keyset" => pages.first # NoKey
      BY <2>1 DEF ShownInv
    <3>2. \A i \in Positions : Keys[i] # NoKey
      BY PositionsType DEF NoKey
    <3> QED
      BY <2>1, <3>1, <3>2 DEF KeysMatch
  <2>3. HasSql("next") /\ HasSql("previous")
    BY <2>2 DEF HasSql
  <2> QED
    BY <2>1, <2>3, PageSqlIsOffsetPage DEF CanPageNext, CanPagePrevious
<1> QED
  BY <1>1, ShownInductive, PTL
=============================================================================
