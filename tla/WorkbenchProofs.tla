---------------------------- MODULE WorkbenchProofs ----------------------------
(* Proofs about Workbench, for any fields, columns, rows and search texts.  *)
EXTENDS Workbench, SequenceTheorems, WellFoundedInduction, TLAPS

-----------------------------------------------------------------------------
(* Naturals. *)

(* A nonempty set of natural numbers has a least element.                   *)
LEMMA LeastNatural ==
  ASSUME NEW T, T \subseteq Nat, T # {}
  PROVE  Min(T) \in T /\ \A n \in T : Min(T) <= n
<1> DEFINE R == {p \in Nat \X Nat : p[1] < p[2]}
<1>1. IsWellFoundedOn(R, Nat)
  BY NatLessThanWellFounded DEF OpToRel
<1>2. \A n, m \in Nat : n < m => <<n, m>> \in R
  OBVIOUS
<1> HIDE DEF R
<1>3. \E m \in T : \A n \in T : ~(<<n, m>> \in R)
  BY <1>1, WFMin
<1>4. PICK m \in T : \A n \in T : <<n, m>> \notin R
  BY <1>3
<1>5. \A n \in T : ~(n < m)
  BY <1>2, <1>4
<1>6. \A n \in T : m <= n
  BY <1>5
<1> QED
  BY <1>6 DEF Min

(* A set that holds 0 and every successor of its members holds them all.    *)
LEMMA InductionOnSet ==
  ASSUME NEW S, 0 \in S, \A n \in Nat : n \in S => n + 1 \in S
  PROVE  Nat \subseteq S
<1> SUFFICES ASSUME Nat \ S # {} PROVE FALSE
  OBVIOUS
<1> DEFINE m == Min(Nat \ S)
<1>1. m \in Nat \ S /\ \A n \in Nat \ S : m <= n
  BY LeastNatural
<1> HIDE DEF m
<1>2. m # 0
  BY <1>1
<1>3. m - 1 \in Nat /\ m - 1 < m /\ (m - 1) + 1 = m
  BY <1>1, <1>2
<1>4. m - 1 \in S
  BY <1>1, <1>3
<1> QED
  BY <1>1, <1>3, <1>4

(* The smaller of two numbers.                                             *)
LEMMA MinOfTwo ==
  ASSUME NEW a \in Nat, NEW b \in Nat
  PROVE  Min({a, b}) = IF a <= b THEN a ELSE b
  BY DEF Min

(* The larger of two numbers.                                              *)
LEMMA MaxOfTwo ==
  ASSUME NEW a \in Nat, NEW b \in Nat
  PROVE  Max({a, b}) = IF a >= b THEN a ELSE b
  BY DEF Max

(* A value a sequence contains is found at one of its positions.            *)
LEMMA FoundInSeq ==
  ASSUME NEW S, NEW s \in Seq(S), NEW e, Contains(s, e)
  PROVE  LET i == SelectInSeq(s, LAMBDA x : x = e)
         IN i \in 1 .. Len(s) /\ s[i] = e
<1> DEFINE I == {i \in 1 .. Len(s) : s[i] = e}
<1>1. I # {} /\ I \subseteq Nat
  BY LenProperties DEF Contains
<1>2. Min(I) \in I
  <2> HIDE DEF I
  <2> QED BY <1>1, LeastNatural
<1>3. SelectInSeq(s, LAMBDA x : x = e) = Min(I)
  BY <1>1 DEF SelectInSeq
<1> QED
  BY <1>2, <1>3

-----------------------------------------------------------------------------
(* The results. *)

USE ViewAssumption, FieldsAssumption, ListingsAssumption

(* The rows a view can hold: what a statement or the demo returned.  Their  *)
(* rows are equally long, which is why a search may change the row without  *)
(* looking at the column.                                                   *)
RowSets == Answers \union {DemoRows, <<>>}

GoodView(v) == v \in Views /\ v.rows \in RowSets /\ CursorsOnCell(v)

(* The rows of an answer are equally long.                                 *)
LEMMA RowSetsType ==
  ASSUME NEW rows \in RowSets
  PROVE  /\ rows \in Seq(Seq(Values))
         /\ \A i \in DOMAIN rows : Len(rows[i]) = Len(rows[1])
<1>1. CASE rows = <<>>
  BY <1>1
<1>2. CASE rows \in Answers \union {DemoRows}
  BY <1>2
<1> QED
  BY <1>1, <1>2 DEF RowSets

(* The columns of a view, and the width of its current row, are numbers.    *)
LEMMA CountType ==
  ASSUME NEW v \in Views
  PROVE  /\ Len(v.headers) \in Nat /\ Width(v) \in Nat /\ ColumnCount(v) \in Nat
         /\ ColumnCount(v) >= Len(v.headers) /\ ColumnCount(v) >= Width(v)
<1>1. Len(v.headers) \in Nat
  BY LenProperties DEF Views
<1>2. Width(v) \in Nat
  <2>1. CASE v.cursor \in DOMAIN v.rows
    <3>1. v.rows[v.cursor] \in Seq(Values)
      BY <2>1, ElementOfSeq, LenProperties DEF Views
    <3> QED
      BY <2>1, <3>1, LenProperties DEF Width
  <2>2. CASE v.cursor \notin DOMAIN v.rows
    BY <2>2 DEF Width
  <2> QED
    BY <2>1, <2>2
<1>3. ColumnCount(v) = IF Len(v.headers) >= Width(v) THEN Len(v.headers) ELSE Width(v)
  BY <1>1, <1>2, MaxOfTwo DEF ColumnCount
<1> QED
  BY <1>1, <1>2, <1>3

(* sync_results_column_selection puts the column on a column that is there, *)
(* whatever it was, and touches nothing but column and selection.           *)
LEMMA SyncedView ==
  ASSUME NEW v \in Views
  PROVE  LET w == Synced(v) IN
         /\ w \in Views
         /\ w.rows = v.rows /\ w.headers = v.headers /\ w.cursor = v.cursor
         /\ w.searching = v.searching /\ w.has = v.has /\ w.needle = v.needle
         /\ w.column \in 1 .. Max({ColumnCount(w), 1})
<1>1. ColumnCount(v) \in Nat
  BY CountType
<1>2. CASE ColumnCount(v) = 0
  <2> DEFINE i == 1
             name == NoColumn
             w == [v EXCEPT !.column = i, !.selected = name]
  <2>1. Synced(v) = w
    BY <1>2 DEF Synced
  <2>2. i \in Nat \ {0} /\ name \in Columns \union {NoColumn, Unnamed}
    OBVIOUS
  <2> HIDE DEF i, name
  <2>3. w \in Views /\ w.rows = v.rows /\ w.headers = v.headers /\ w.cursor = v.cursor
        /\ w.searching = v.searching /\ w.has = v.has /\ w.needle = v.needle
        /\ w.column = i
    BY <2>2 DEF Views
  <2>4. ColumnCount(w) = 0
    BY <1>2, <2>3 DEF ColumnCount, Width
  <2>5. i \in 1 .. Max({ColumnCount(w), 1})
    <3>1. ColumnCount(w) \in Nat /\ 1 \in Nat
      BY <2>4
    <3>2. Max({ColumnCount(w), 1}) = IF ColumnCount(w) >= 1 THEN ColumnCount(w) ELSE 1
      BY <3>1, MaxOfTwo
    <3>3. Max({ColumnCount(w), 1}) = 1
      BY <2>4, <3>2
    <3> QED
      BY <3>3 DEF i
  <2> HIDE DEF w
  <2> QED
    BY <2>1, <2>3, <2>5
<1>3. CASE ColumnCount(v) # 0
  <2> DEFINE i == Min({v.column, ColumnCount(v)})
             w == [v EXCEPT !.column = i, !.selected = ColumnName(v, i)]
  <2>1. Synced(v) = w
    BY <1>3 DEF Synced
  <2>2. v.column \in Nat \ {0}
    BY DEF Views
  <2>3. i \in Nat \ {0} /\ i <= ColumnCount(v)
    BY <1>1, <1>3, <2>2, MinOfTwo
  <2>4. ColumnName(v, i) \in Columns \union {NoColumn, Unnamed}
    BY ElementOfSeq, LenProperties DEF ColumnName, Views
  <2> HIDE DEF i
  <2>5. w \in Views /\ w.rows = v.rows /\ w.headers = v.headers /\ w.cursor = v.cursor
        /\ w.searching = v.searching /\ w.has = v.has /\ w.needle = v.needle
        /\ w.column = i
    BY <2>3, <2>4 DEF Views
  <2>6. ColumnCount(w) = ColumnCount(v)
    BY <2>5 DEF ColumnCount, Width
  <2>7. Max({ColumnCount(v), 1}) >= ColumnCount(v) /\ Max({ColumnCount(v), 1}) \in Nat
    BY <1>1, MaxOfTwo
  <2> HIDE DEF w
  <2> QED
    BY <1>1, <2>1, <2>3, <2>5, <2>6, <2>7
<1> QED
  BY <1>2, <1>3

(* A view with a cursor on its rows, or without rows, is good once synced.  *)
LEMMA SyncedGood ==
  ASSUME NEW v \in Views, v.rows \in RowSets,
         v.rows # <<>> => v.cursor \in DOMAIN v.rows
  PROVE  GoodView(Synced(v))
  BY SyncedView DEF GoodView, CursorsOnCell

(* The same of reset_results_column_focus.                                  *)
LEMMA RefocusedGood ==
  ASSUME NEW v \in Views, v.rows \in RowSets,
         v.rows # <<>> => v.cursor \in DOMAIN v.rows
  PROVE  /\ GoodView(Refocused(v))
         /\ Refocused(v).rows = v.rows /\ Refocused(v).searching = v.searching
<1>1. CASE Contains(v.headers, v.selected)
  <2> DEFINE i == SelectInSeq(v.headers, LAMBDA c : c = v.selected)
             w == [v EXCEPT !.column = i]
  <2>1. v.headers \in Seq(Columns) /\ Len(v.headers) \in Nat
    BY LenProperties DEF Views
  <2>2. i \in 1 .. Len(v.headers)
    <3>1. LET j == SelectInSeq(v.headers, LAMBDA c : c = v.selected)
          IN j \in 1 .. Len(v.headers) /\ v.headers[j] = v.selected
      <4> DEFINE s == v.headers
                 e == v.selected
      <4>1. s \in Seq(Columns) /\ Contains(s, e)
        BY <1>1, <2>1
      <4> HIDE DEF s, e
      <4> LET j == SelectInSeq(s, LAMBDA c : c = e) IN j \in 1 .. Len(s) /\ s[j] = e
        BY <4>1, FoundInSeq
      <4> QED
        BY DEF s, e
    <3> QED
      BY <3>1
  <2> HIDE DEF i
  <2>2a. i \in Nat \ {0}
    BY <2>1, <2>2
  <2>3. w \in Views /\ w.rows = v.rows /\ w.cursor = v.cursor /\ w.searching = v.searching
    BY <2>2a DEF Views
  <2>4. Refocused(v) = Synced(w)
    BY <1>1 DEF Refocused, i
  <2> HIDE DEF w
  <2> QED
    BY <2>3, <2>4, SyncedGood, SyncedView
<1>2. CASE ~Contains(v.headers, v.selected)
  BY <1>2, SyncedGood, SyncedView DEF Refocused
<1> QED
  BY <1>1, <1>2

(* What leaves headers, rows and cursors alone leaves a good view good.     *)
LEMMA SameCells ==
  ASSUME NEW v, GoodView(v), NEW w \in Views,
         w.headers = v.headers, w.rows = v.rows, w.cursor = v.cursor, w.column = v.column
  PROVE  GoodView(w)
  BY DEF GoodView, CursorsOnCell, ColumnCount, Width

(* Opening or closing the search box leaves the cursors where they are.    *)
LEMMA SearchingSet ==
  ASSUME NEW v, GoodView(v), NEW on \in BOOLEAN
  PROVE  LET w == [v EXCEPT !.searching = on] IN
         GoodView(w) /\ w.rows = v.rows /\ w.searching = on
<1> DEFINE w == [v EXCEPT !.searching = on]
<1>1. w \in Views /\ w.headers = v.headers /\ w.rows = v.rows
      /\ w.cursor = v.cursor /\ w.column = v.column
  BY DEF GoodView, Views
<1>2. w.searching = on
  BY Zenon DEF GoodView, Views
<1> HIDE DEF w
<1>3. GoodView(w)
  BY <1>1, SameCells
<1> QED
  BY <1>1, <1>2, <1>3 DEF w

(* So does typing into it.                                                 *)
LEMMA NeedleSet ==
  ASSUME NEW v, GoodView(v), NEW needle \in Needles
  PROVE  LET w == [v EXCEPT !.needle = needle] IN
         GoodView(w) /\ w.rows = v.rows /\ w.searching = v.searching
<1> DEFINE w == [v EXCEPT !.needle = needle]
<1>1. w \in Views /\ w.headers = v.headers /\ w.rows = v.rows
      /\ w.cursor = v.cursor /\ w.column = v.column /\ w.searching = v.searching
  BY DEF GoodView, Views
<1> HIDE DEF w
<1>2. GoodView(w)
  BY <1>1, SameCells
<1> QED
  BY <1>1, <1>2 DEF w

(* Selecting a column puts the cursor on it.                               *)
LEMMA ReselectedGood ==
  ASSUME NEW v, GoodView(v), NEW name \in Columns \union {NoColumn}
  PROVE  /\ GoodView(Reselected(v, name))
         /\ Reselected(v, name).rows = v.rows /\ Reselected(v, name).searching = v.searching
<1> DEFINE w == [v EXCEPT !.selected = name]
<1>1. w \in Views /\ w.headers = v.headers /\ w.rows = v.rows
      /\ w.cursor = v.cursor /\ w.column = v.column /\ w.searching = v.searching
  BY DEF GoodView, Views
<1>2. Reselected(v, name) = w
  BY DEF Reselected
<1> HIDE DEF w
<1>3. GoodView(w)
  BY <1>1, SameCells
<1> QED
  BY <1>1, <1>2, <1>3

(* set_active_pane: the search does not survive a move out of the results.  *)
LEMMA EnteredGood ==
  ASSUME NEW v, GoodView(v), NEW p
  PROVE  /\ GoodView(Entered(v, p)) /\ Entered(v, p).rows = v.rows
         /\ Entered(v, p).searching => v.searching /\ (p = pane \/ p = "results")
<1>1. CASE p # pane /\ p # "results"
  BY <1>1, SearchingSet DEF Entered
<1>2. CASE ~(p # pane /\ p # "results")
  BY <1>2 DEF Entered
<1> QED
  BY <1>1, <1>2

(* Ending a search changes nothing else.                                   *)
LEMMA SearchEndedType ==
  ASSUME NEW v \in Views
  PROVE  LET w == SearchEnded(v) IN
         /\ w \in Views /\ w.searching = FALSE
         /\ w.headers = v.headers /\ w.rows = v.rows
         /\ w.cursor = v.cursor /\ w.column = v.column
<1> DEFINE w == SearchEnded(v)
<1>1. w.searching = FALSE
  BY Zenon DEF SearchEnded, Views
<1>2. w \in Views /\ w.headers = v.headers /\ w.rows = v.rows
      /\ w.cursor = v.cursor /\ w.column = v.column
  BY DEF SearchEnded, Views
<1> QED
  BY <1>1, <1>2

(* start_query_internal, with and without a worker.                         *)
LEMMA BegunGood ==
  ASSUME NEW v, GoodView(v), NEW worker \in BOOLEAN
  PROVE  GoodView(Begun(v, worker)) /\ Begun(v, worker).searching = FALSE
<1> DEFINE u == SearchEnded(v)
           rows == IF worker THEN <<>> ELSE v.rows
           w == [u EXCEPT !.has = FALSE, !.rows = rows]
<1>1. u \in Views /\ u.searching = FALSE /\ u.headers = v.headers
      /\ u.rows = v.rows /\ u.cursor = v.cursor /\ u.column = v.column
  BY SearchEndedType DEF GoodView
<1>2. Begun(v, worker) = w
  BY <1>1 DEF Begun
<1>3. rows \in RowSets /\ rows \in Seq(Seq(Values))
  <2>1. rows \in RowSets
    BY DEF GoodView, RowSets
  <2> QED
    BY <2>1, RowSetsType
<1>4. CASE worker
  <2>1. rows = <<>>
    BY <1>4
  <2> HIDE DEF u, rows
  <2>2. w \in Views /\ w.rows = rows
    BY <1>1, <1>3 DEF Views
  <2>3. w.searching = FALSE
    BY <1>1, Zenon DEF Views
  <2>4. GoodView(w)
    BY <1>3, <2>1, <2>2 DEF GoodView, CursorsOnCell
  <2> QED
    BY <1>2, <2>3, <2>4
<1>5. CASE ~worker
  <2>1. rows = v.rows
    BY <1>5
  <2> HIDE DEF u, rows
  <2>2. w \in Views /\ w.headers = v.headers /\ w.rows = v.rows
        /\ w.cursor = v.cursor /\ w.column = v.column
    BY <1>1, <1>3, <2>1 DEF Views
  <2>3. w.searching = FALSE
    BY <1>1, Zenon DEF Views
  <2> HIDE DEF w
  <2>4. GoodView(w)
    BY <2>2, SameCells
  <2> QED
    BY <1>2, <2>3, <2>4
<1> QED
  BY <1>4, <1>5

(* A failure keeps the rows that arrived before it.                         *)
LEMMA FailedGood ==
  ASSUME NEW v, GoodView(v)
  PROVE  GoodView(Failed(v)) /\ Failed(v).searching = FALSE
<1> DEFINE u == SearchEnded(v)
           has == v.rows # <<>>
           w == [u EXCEPT !.has = has]
<1>1. u \in Views /\ u.searching = FALSE /\ u.headers = v.headers
      /\ u.rows = v.rows /\ u.cursor = v.cursor /\ u.column = v.column
  BY SearchEndedType DEF GoodView
<1>2. Failed(v) = w
  BY DEF Failed
<1>3. has \in BOOLEAN
  OBVIOUS
<1> HIDE DEF u, has
<1>4. w \in Views /\ w.headers = v.headers /\ w.rows = v.rows
      /\ w.cursor = v.cursor /\ w.column = v.column
  BY <1>1, <1>3 DEF Views
<1>5. w.searching = FALSE
  BY <1>1, Zenon DEF Views
<1> HIDE DEF w
<1>6. GoodView(w)
  BY <1>4, SameCells
<1> QED
  BY <1>2, <1>5, <1>6

(* The rows of a statement, and the cursors back at their beginning.        *)
LEMMA ReceivedGood ==
  ASSUME NEW v, GoodView(v), NEW rows \in Answers
  PROVE  GoodView(Received(v, rows)) /\ Received(v, rows).searching = FALSE
<1> DEFINE u == SearchEnded(v)
           has == rows # <<>>
           one == 1
           w == [u EXCEPT !.rows = rows, !.has = has, !.cursor = one, !.column = one]
<1>1. u \in Views /\ u.searching = FALSE
  BY SearchEndedType DEF GoodView
<1>2. Received(v, rows) = Refocused(w)
  BY DEF Received
<1>3. has \in BOOLEAN /\ one \in Nat \ {0} /\ rows \in RowSets /\ rows \in Seq(Seq(Values))
  BY DEF RowSets
<1>4. rows # <<>> => one \in DOMAIN rows
  BY LenProperties, EmptySeq
<1> HIDE DEF u, has, one
<1>5. w \in Views /\ w.rows = rows /\ w.cursor = one
  BY <1>1, <1>3 DEF Views
<1>6. w.searching = FALSE
  BY <1>1, Zenon DEF Views
<1> HIDE DEF w
<1> QED
  BY <1>2, <1>3, <1>4, <1>5, <1>6, RefocusedGood

(* The rows of the demo query come with a cursor on them.                  *)
LEMMA DemoReceivedGood ==
  ASSUME NEW v, GoodView(v)
  PROVE  GoodView(DemoReceived(v)) /\ DemoReceived(v).searching = FALSE
<1> DEFINE u == SearchEnded(v)
           yes == TRUE
           one == 1
           w == [u EXCEPT !.rows = DemoRows, !.headers = DemoHeaders, !.has = yes,
                          !.cursor = one, !.column = DemoColumn]
<1>1. u \in Views /\ u.searching = FALSE
  BY SearchEndedType DEF GoodView
<1>2. DemoReceived(v) = Synced(w)
  BY DEF DemoReceived
<1>3. /\ yes \in BOOLEAN /\ one \in Nat \ {0} /\ DemoHeaders \in Seq(Columns)
      /\ DemoRows \in RowSets /\ DemoRows \in Seq(Seq(Values))
  BY DEF RowSets
<1>4. DemoColumn \in Nat \ {0}
  BY LenProperties
<1>5. one \in DOMAIN DemoRows
  BY LenProperties, EmptySeq
<1> HIDE DEF u, yes, one
<1>6. w \in Views /\ w.rows = DemoRows /\ w.cursor = one
  BY <1>1, <1>3, <1>4 DEF Views
<1>7. w.searching = FALSE
  BY <1>1, Zenon DEF Views
<1> HIDE DEF w
<1> QED
  BY <1>2, <1>3, <1>5, <1>6, <1>7, SyncedGood, SyncedView

(* A preview's headers over the rows that are still there.                  *)
LEMMA HeadedGood ==
  ASSUME NEW v, GoodView(v), NEW listed \in Listings
  PROVE  GoodView(Headed(v, listed))
<1>1. CASE listed = <<>>
  BY <1>1 DEF Headed
<1>2. CASE listed # <<>>
  <2> DEFINE w == [v EXCEPT !.headers = listed]
  <2>1. listed \in Seq(Columns)
    OBVIOUS
  <2>2. w \in Views /\ w.rows = v.rows /\ w.cursor = v.cursor
    BY <2>1 DEF GoodView, Views
  <2>3. Headed(v, listed) = Refocused(w)
    BY <1>2 DEF Headed
  <2> HIDE DEF w
  <2> QED
    BY <2>2, <2>3, RefocusedGood DEF GoodView, CursorsOnCell
<1> QED
  BY <1>1, <1>2

(* The arrows keep both cursors on the rows they find.                      *)
LEMMA MovedGood ==
  ASSUME NEW v, GoodView(v), v.rows # <<>>, NEW w \in MovedViews(v)
  PROVE  GoodView(w) /\ w.rows = v.rows /\ w.searching = v.searching
<1>1. /\ v \in Views /\ v.rows \in RowSets /\ v.rows \in Seq(Seq(Values))
      /\ v.cursor \in DOMAIN v.rows /\ v.column \in Nat \ {0}
  BY RowSetsType DEF GoodView, CursorsOnCell, Views
<1>2. v.cursor \in 1 .. Len(v.rows) /\ Len(v.rows) \in Nat /\ DOMAIN v.rows = 1 .. Len(v.rows)
  BY <1>1, LenProperties
<1>3. ASSUME NEW i \in DOMAIN v.rows, w = Synced([v EXCEPT !.cursor = i])
      PROVE  GoodView(w) /\ w.rows = v.rows /\ w.searching = v.searching
  <2> DEFINE u == [v EXCEPT !.cursor = i]
  <2>1. i \in Nat \ {0}
    BY <1>2
  <2>2. u \in Views /\ u.rows = v.rows /\ u.cursor = i /\ u.searching = v.searching
    BY <1>1, <2>1 DEF Views
  <2>3. w = Synced(u)
    BY <1>3
  <2> HIDE DEF u
  <2> QED
    BY <1>1, <1>3, <2>2, <2>3, SyncedGood, SyncedView
<1>4. ASSUME NEW i \in Nat \ {0}, w = Synced([v EXCEPT !.column = i])
      PROVE  GoodView(w) /\ w.rows = v.rows /\ w.searching = v.searching
  <2> DEFINE u == [v EXCEPT !.column = i]
  <2>1. u \in Views /\ u.rows = v.rows /\ u.cursor = v.cursor /\ u.searching = v.searching
    BY <1>1 DEF Views
  <2>2. w = Synced(u)
    BY <1>4
  <2> HIDE DEF u
  <2> QED
    BY <1>1, <2>1, <2>2, SyncedGood, SyncedView
<1>5. CASE w = Synced([v EXCEPT !.cursor = Max({@ - 1, 1})])
  <2> DEFINE i == Max({v.cursor - 1, 1})
  <2>1. i \in DOMAIN v.rows
    <3> DEFINE c == v.cursor - 1
    <3>1. c \in Nat /\ 1 \in Nat /\ c < Len(v.rows) /\ Len(v.rows) \in Nat
      BY <1>2
    <3> HIDE DEF c
    <3>2. Max({c, 1}) = IF c >= 1 THEN c ELSE 1
      BY <3>1, MaxOfTwo
    <3>3. Max({c, 1}) \in 1 .. Len(v.rows)
      BY <3>1, <3>2
    <3> QED
      BY <1>2, <3>3 DEF c
  <2>2. w = Synced([v EXCEPT !.cursor = i])
    BY <1>5
  <2> QED
    BY <1>3, <2>1, <2>2
<1>6. CASE w = Synced([v EXCEPT !.cursor = Min({@ + 1, Len(v.rows)})])
  <2> DEFINE i == Min({v.cursor + 1, Len(v.rows)})
  <2>1. i \in DOMAIN v.rows
    <3> DEFINE c == v.cursor + 1
               n == Len(v.rows)
    <3>1. c \in Nat /\ n \in Nat /\ c >= 1 /\ n >= 1
      BY <1>2
    <3> HIDE DEF c, n
    <3>2. Min({c, n}) = IF c <= n THEN c ELSE n
      BY <3>1, MinOfTwo
    <3>3. Min({c, n}) \in 1 .. n
      BY <3>1, <3>2
    <3> QED
      BY <1>2, <3>3 DEF c, n
  <2>2. w = Synced([v EXCEPT !.cursor = i])
    BY <1>6
  <2> QED
    BY <1>3, <2>1, <2>2
<1>7. CASE w = Synced([v EXCEPT !.column = Max({@ - 1, 1})])
  <2> DEFINE i == Max({v.column - 1, 1})
  <2>1. i \in Nat \ {0}
    <3> DEFINE c == v.column - 1
    <3>1. c \in Nat /\ 1 \in Nat
      BY <1>1
    <3> HIDE DEF c
    <3>2. Max({c, 1}) = IF c >= 1 THEN c ELSE 1
      BY <3>1, MaxOfTwo
    <3>3. Max({c, 1}) \in Nat \ {0}
      BY <3>1, <3>2
    <3> QED
      BY <3>3 DEF c
  <2>2. w = Synced([v EXCEPT !.column = i])
    BY <1>7
  <2> QED
    BY <1>4, <2>1, <2>2
<1>8. CASE w = Synced([v EXCEPT !.column = Max({Min({@ + 1, ColumnCount(v)}), 1})])
  <2> DEFINE j == Min({v.column + 1, ColumnCount(v)})
             i == Max({j, 1})
  <2>1. ColumnCount(v) \in Nat
    BY <1>1, CountType
  <2>2. j \in Nat
    <3> DEFINE c == v.column + 1
               n == ColumnCount(v)
    <3>1. c \in Nat /\ n \in Nat
      BY <1>1, <2>1
    <3> HIDE DEF c, n
    <3>2. Min({c, n}) = IF c <= n THEN c ELSE n
      BY <3>1, MinOfTwo
    <3>3. Min({c, n}) \in Nat
      BY <3>1, <3>2
    <3> QED
      BY <3>3 DEF c, n
  <2> HIDE DEF j
  <2>3. i \in Nat \ {0}
    BY <2>2, MaxOfTwo
  <2>4. w = Synced([v EXCEPT !.column = i])
    BY <1>8 DEF j
  <2> QED
    BY <1>4, <2>3, <2>4
<1> QED
  BY <1>5, <1>6, <1>7, <1>8 DEF MovedViews

(* How many rows the search has to go from c to h, around the end of n.     *)
Gap(c, h, n) == IF h > c THEN h - c ELSE h - c + n

(* The next hit is the one looked for or nearer to it: none is passed over. *)
LEMMA FirstFromNears ==
  ASSUME NEW n \in Nat, NEW H \in SUBSET (1 .. n), NEW c \in 1 .. n, NEW h \in H
  PROVE  LET i == FirstFrom(H, (c % n) + 1)
         IN  i \in H /\ (i = h \/ Gap(i, h, n) < Gap(c, h, n))
<1> DEFINE from == (c % n) + 1
           i    == FirstFrom(H, from)
           S    == {j \in H : j >= from}
<1>1. n >= 1 /\ c \in Nat /\ h \in 1 .. n /\ H \subseteq Nat
  OBVIOUS
<1>2. from = IF c < n THEN c + 1 ELSE 1
  <2>1. c < n => c % n = c
    BY <1>1
  <2>2. c = n => c % n = 0
    BY <1>1
  <2> QED
    BY <1>1, <2>1, <2>2
<1> HIDE DEF from
<1>3. CASE S # {}
  <2>1. S \subseteq Nat
    BY <1>1
  <2>2. i = Min(S)
    BY <1>3 DEF FirstFrom
  <2>3. Min(S) \in S /\ \A j \in S : Min(S) <= j
    <3> HIDE DEF S
    <3> QED
      BY <1>3, <2>1, LeastNatural
  <2> HIDE DEF i
  <2>4. i \in H /\ i >= from /\ (h >= from => i <= h) /\ i \in 1 .. n
    BY <2>2, <2>3
  <2>5. i = h \/ Gap(i, h, n) < Gap(c, h, n)
    BY <1>1, <1>2, <2>4 DEF Gap
  <2> QED
    BY <2>4, <2>5 DEF i, from
<1>4. CASE S = {}
  <2>1. ~\E j \in H : j >= from
    BY <1>4
  <2>2. i = Min(H)
    BY <2>1 DEF FirstFrom
  <2>3. Min(H) \in H /\ \A j \in H : Min(H) <= j
    BY <1>1, LeastNatural
  <2> HIDE DEF i
  <2>4. i \in H /\ i <= h /\ i \in 1 .. n /\ ~(h >= from)
    BY <2>1, <2>2, <2>3
  <2>5. i = h \/ Gap(i, h, n) < Gap(c, h, n)
    BY <1>1, <1>2, <2>4 DEF Gap
  <2> QED
    BY <2>4, <2>5 DEF i, from
<1> QED
  BY <1>3, <1>4

(* A hit of the search is a row, and no narrower than the one before.       *)
LEMMA SearchedGood ==
  ASSUME NEW v, GoodView(v), NEW next \in BOOLEAN
  PROVE  /\ GoodView(Searched(v, next))
         /\ Searched(v, next).rows = v.rows /\ Searched(v, next).searching = v.searching
<1>1. CASE v.needle = Values \/ Hits(v) = {}
  BY <1>1 DEF Searched
<1>2. CASE ~(v.needle = Values \/ Hits(v) = {})
  <2> DEFINE from == IF next THEN (v.cursor % Len(v.rows)) + 1 ELSE 1
             i == FirstFrom(Hits(v), from)
             w == [v EXCEPT !.cursor = i]
  <2>1. /\ v \in Views /\ v.rows \in RowSets /\ v.rows \in Seq(Seq(Values))
        /\ DOMAIN v.rows = 1 .. Len(v.rows) /\ Len(v.rows) \in Nat
    BY RowSetsType, LenProperties DEF GoodView
  <2>2. Hits(v) \subseteq DOMAIN v.rows /\ Hits(v) # {}
    BY <1>2 DEF Hits
  <2>3. v.rows # <<>>
    BY <2>2
  <2>4. v.cursor \in DOMAIN v.rows /\ v.column \in 1 .. Max({ColumnCount(v), 1})
    BY <2>3 DEF GoodView, CursorsOnCell
  <2>5. Searched(v, next) = w
    BY <1>2 DEF Searched
  <2> HIDE DEF from
  <2>6. i \in Hits(v)
    <3>1. Hits(v) \subseteq Nat
      BY <2>1, <2>2
    <3>2. CASE \E j \in Hits(v) : j >= from
      <4> DEFINE S == {j \in Hits(v) : j >= from}
      <4>1. S \subseteq Nat /\ S # {}
        BY <3>1, <3>2
      <4>2. i = Min(S)
        BY <3>2 DEF FirstFrom
      <4>3. Min(S) \in S
        <5> HIDE DEF S, i
        <5> QED BY <4>1, LeastNatural
      <4> QED
        BY <4>2, <4>3
    <3>3. CASE ~\E j \in Hits(v) : j >= from
      BY <2>2, <3>1, <3>3, LeastNatural DEF FirstFrom
    <3> QED
      BY <3>2, <3>3
  <2> HIDE DEF i
  <2>7. i \in DOMAIN v.rows /\ i \in Nat \ {0}
    BY <2>1, <2>2, <2>6
  <2>8. w \in Views /\ w.rows = v.rows /\ w.cursor = i /\ w.headers = v.headers
        /\ w.column = v.column /\ w.searching = v.searching
    BY <2>1, <2>7 DEF Views
  <2>9. Width(w) = Width(v)
    BY <2>1, <2>4, <2>7, <2>8, RowSetsType DEF Width
  <2>10. ColumnCount(w) = ColumnCount(v)
    BY <2>8, <2>9 DEF ColumnCount
  <2> HIDE DEF w
  <2> QED
    BY <2>1, <2>4, <2>5, <2>7, <2>8, <2>10 DEF GoodView, CursorsOnCell
<1> QED
  BY <1>1, <1>2

-----------------------------------------------------------------------------
(* Enter in the search goes to a hit, and passes none over.                 *)
LEMMA NextHit ==
  ASSUME NEW v, GoodView(v), v.needle # Values, NEW h \in Hits(v)
  PROVE  LET w == Searched(v, TRUE)
             n == Len(v.rows)
         IN  /\ GoodView(w) /\ w.rows = v.rows /\ w.needle = v.needle
             /\ n \in Nat /\ v.cursor \in 1 .. n /\ h \in 1 .. n
             /\ w.cursor = h \/ Gap(w.cursor, h, n) < Gap(v.cursor, h, n)
<1> DEFINE w == Searched(v, TRUE)
           n == Len(v.rows)
           i == FirstFrom(Hits(v), (v.cursor % n) + 1)
<1>1. GoodView(w) /\ w.rows = v.rows
  BY SearchedGood
<1>2. /\ v \in Views /\ v.rows \in Seq(Seq(Values))
      /\ DOMAIN v.rows = 1 .. n /\ n \in Nat
  BY RowSetsType, LenProperties DEF GoodView
<1>3. Hits(v) \in SUBSET (1 .. n) /\ h \in 1 .. n
  BY <1>2 DEF Hits
<1>4. v.rows # <<>>
  BY <1>2, <1>3
<1>5. v.cursor \in 1 .. n
  BY <1>2, <1>4 DEF GoodView, CursorsOnCell
<1>6. w = [v EXCEPT !.cursor = i]
  BY DEF Searched
<1>7. w.cursor = i /\ w.needle = v.needle
  <2> HIDE DEF i, w
  <2> QED
    BY <1>2, <1>6 DEF Views
<1>8. i = h \/ Gap(i, h, n) < Gap(v.cursor, h, n)
  <2> HIDE DEF n
  <2> QED
    BY <1>2, <1>3, <1>5, FirstFromNears
<1> HIDE DEF w, i, n
<1>9. w.cursor = h \/ Gap(w.cursor, h, n) < Gap(v.cursor, h, n)
  BY <1>7, <1>8
<1> QED
  BY <1>1, <1>2, <1>3, <1>5, <1>7, <1>9 DEF w, n

(* Pressing Enter in the search as often as there are rows visits every row *)
(* that matches, wherever the cursor was (apply_results_search,             *)
(* results_navigation.rs:54-83).                                            *)
THEOREM SearchVisitsEveryHit ==
  ASSUME NEW v, GoodView(v), v.needle # Values, NEW h \in Hits(v),
         NEW f, f[0] = v, \A k \in Nat : f[k + 1] = Searched(f[k], TRUE)
  PROVE  \E k \in 1 .. Len(v.rows) : f[k].cursor = h
<1> DEFINE n       == Len(v.rows)
           Seen(k) == \E j \in 1 .. k : f[j].cursor = h
           Same(k) == GoodView(f[k]) /\ f[k].rows = v.rows /\ f[k].needle = v.needle
           A       == {k \in Nat : Same(k) /\ (Seen(k) \/ Gap(f[k].cursor, h, n) <= n - k)}
<1>1. n \in Nat /\ h \in 1 .. n
  BY NextHit
<1>2. ASSUME NEW k \in Nat, Same(k)
      PROVE  /\ Same(k + 1) /\ f[k].cursor \in 1 .. n
             /\ \/ f[k + 1].cursor = h
                \/ Gap(f[k + 1].cursor, h, n) < Gap(f[k].cursor, h, n)
  <2> DEFINE u == f[k]
             w == f[k + 1]
  <2>1. GoodView(u) /\ u.rows = v.rows /\ u.needle = v.needle /\ w = Searched(u, TRUE)
    BY <1>2
  <2>2. h \in Hits(u)
    BY <2>1 DEF Hits
  <2> HIDE DEF u, w
  <2>3. /\ GoodView(w) /\ w.rows = u.rows /\ w.needle = u.needle
        /\ u.cursor \in 1 .. Len(u.rows)
        /\ w.cursor = h \/ Gap(w.cursor, h, Len(u.rows)) < Gap(u.cursor, h, Len(u.rows))
    BY <2>1, <2>2, NextHit
  <2> QED
    BY <2>1, <2>3 DEF u, w
<1>3. ASSUME NEW c \in 1 .. n PROVE Gap(c, h, n) \in 1 .. n
  BY <1>1 DEF Gap
<1>4. Same(0)
  OBVIOUS
<1> HIDE DEF Same, n
<1>5. 0 \in A
  <2>1. f[0].cursor \in 1 .. n
    BY <1>2, <1>4
  <2>2. Gap(f[0].cursor, h, n) \in 1 .. n
    BY <1>3, <2>1
  <2>3. Gap(f[0].cursor, h, n) <= n - 0
    BY <1>1, <2>2
  <2> QED
    BY <1>4, <2>3
<1>6. ASSUME NEW k \in Nat, k \in A PROVE k + 1 \in A
  <2>1. /\ Same(k) /\ Same(k + 1) /\ f[k].cursor \in 1 .. n /\ f[k + 1].cursor \in 1 .. n
        /\ f[k + 1].cursor = h \/ Gap(f[k + 1].cursor, h, n) < Gap(f[k].cursor, h, n)
    BY <1>2, <1>6
  <2>2. /\ Gap(f[k].cursor, h, n) \in 1 .. n
        /\ Gap(f[k + 1].cursor, h, n) \in 1 .. n
    BY <1>3, <2>1
  <2>3. Seen(k) => Seen(k + 1)
    OBVIOUS
  <2>4. f[k + 1].cursor = h => Seen(k + 1)
    OBVIOUS
  <2> HIDE DEF Seen
  <2>5. Seen(k) \/ Gap(f[k].cursor, h, n) <= n - k
    BY <1>6
  <2>6. Seen(k + 1) \/ Gap(f[k + 1].cursor, h, n) <= n - (k + 1)
    BY <1>1, <2>1, <2>2, <2>3, <2>4, <2>5
  <2> QED
    BY <2>1, <2>6
<1> HIDE DEF A
<1>7. Nat \subseteq A
  BY <1>5, <1>6, InductionOnSet
<1>8. Same(n) /\ (Seen(n) \/ Gap(f[n].cursor, h, n) <= n - n)
  BY <1>1, <1>7 DEF A
<1>9. Gap(f[n].cursor, h, n) \in 1 .. n
  BY <1>1, <1>2, <1>3, <1>8
<1>10. Seen(n)
  <2> HIDE DEF Seen
  <2> QED
    BY <1>1, <1>8, <1>9
<1> QED
  BY <1>10 DEF n

(* The form of the wizard. *)

Forms == [field : AllField, editing : BOOLEAN, buffer : AllField \union {NoField}]

FormOwnsBuffer(form) == form.buffer = IF form.editing THEN form.field ELSE NoField

(* The wizard moves from field to field.                                   *)
LEMMA FieldAfterType ==
  ASSUME wizard \in Forms, NEW step \in Nat
  PROVE  FieldAfter(step) \in AllField
<1> DEFINE n == Len(Fields)
           i == SelectInSeq(Fields, LAMBDA f : f = wizard.field)
           j == ((i - 1 + step) % n) + 1
<1>1. n \in Nat /\ n >= 1 /\ DOMAIN Fields = 1 .. n
  BY LenProperties, EmptySeq
<1>2. Contains(Fields, wizard.field)
  BY <1>1 DEF Contains, Forms, AllField, ToSet
<1>3. i \in 1 .. n
  <2> DEFINE e == wizard.field
  <2>1. Contains(Fields, e) /\ Fields \in Seq(STRING)
    BY <1>2
  <2> HIDE DEF e
  <2>2. LET k == SelectInSeq(Fields, LAMBDA f : f = e) IN k \in 1 .. Len(Fields) /\ Fields[k] = e
    BY <2>1, FoundInSeq
  <2> QED
    BY <2>2 DEF e
<1> HIDE DEF n, i
<1>4. i - 1 + step \in Nat
  BY <1>1, <1>3
<1>5. (i - 1 + step) % n \in 0 .. n - 1
  BY <1>1, <1>4
<1>6. j \in DOMAIN Fields
  BY <1>1, <1>5
<1>7. FieldAfter(step) = Fields[j]
  BY DEF FieldAfter, n, i
<1> QED
  BY <1>6, <1>7 DEF AllField, ToSet

(* What any step does to the form.                                          *)
LEMMA FormStep ==
  ASSUME wizard \in Forms, FormOwnsBuffer(wizard), [Next]_vars
  PROVE  wizard' \in Forms /\ FormOwnsBuffer(wizard')
<1>1. ASSUME wizard' = wizard
      PROVE  wizard' \in Forms /\ FormOwnsBuffer(wizard')
  BY <1>1
<1>2. ASSUME wizard' = FreshForm
      PROVE  wizard' \in Forms /\ FormOwnsBuffer(wizard')
  <2>1. Fields[1] \in AllField
    BY LenProperties, EmptySeq DEF AllField, ToSet
  <2> QED
    BY <1>2, <2>1 DEF FreshForm, Forms, FormOwnsBuffer
<1>3. ASSUME wizard' = EditEnded
      PROVE  wizard' \in Forms /\ FormOwnsBuffer(wizard')
  <2>1. wizard' \in Forms /\ wizard'.buffer = NoField
    BY <1>3 DEF EditEnded, Forms
  <2>2. wizard'.editing = FALSE
    BY <1>3, Zenon DEF EditEnded, Forms
  <2> QED
    BY <2>1, <2>2 DEF FormOwnsBuffer
<1>4. ASSUME wizard' = EditStarted
      PROVE  wizard' \in Forms /\ FormOwnsBuffer(wizard')
  <2>1. wizard' \in Forms /\ wizard'.buffer = wizard.field /\ wizard'.field = wizard.field
    BY <1>4 DEF EditStarted, Forms
  <2>2. wizard'.editing = TRUE
    BY <1>4, Zenon DEF EditStarted, Forms
  <2> QED
    BY <2>1, <2>2 DEF FormOwnsBuffer
<1>5. ASSUME NEW field \in AllField, ~wizard.editing,
             wizard' = [wizard EXCEPT !.field = field]
      PROVE  wizard' \in Forms /\ FormOwnsBuffer(wizard')
  <2>1. wizard' \in Forms /\ wizard'.buffer = wizard.buffer /\ wizard'.editing = wizard.editing
    BY <1>5 DEF Forms
  <2> QED
    BY <1>5, <2>1 DEF FormOwnsBuffer
<1>6. CASE EditField
  BY <1>3, <1>4, <1>6 DEF EditField
<1>7. CASE SelectField
  <2>1. Len(Fields) - 1 \in Nat
    BY LenProperties, EmptySeq
  <2>2. FieldAfter(1) \in AllField /\ FieldAfter(Len(Fields) - 1) \in AllField
    BY <2>1, FieldAfterType
  <2> QED
    BY <1>5, <1>7, <2>2 DEF SelectField
<1>8. CASE Escape
  BY <1>1, <1>3, <1>8 DEF Escape
<1>9. CASE ToWizard \/ ConnectFromWizard
  BY <1>1, <1>3, <1>9 DEF ToWizard, ConnectFromWizard
<1>10. CASE OpenProfile \/ ConnectSucceeds
  BY <1>2, <1>10 DEF OpenProfile, ConnectSucceeds
<1>11. CASE \/ AskExit \/ CancelDemo \/ PanelRetries \/ PanelReconnects \/ PanelToWizard
            \/ Search \/ ToManager \/ ToggleHelp \/ SwitchPane \/ ConnectFromManager
            \/ NavigateResults \/ NavigateSchema \/ SubmitQuery
            \/ StartRename \/ CommitRename \/ OpenBookmark \/ Invoke
  BY <1>1, <1>11
     DEF AskExit, CancelDemo, PanelRetries, PanelReconnects, PanelToWizard, Search,
         ToManager, ToggleHelp, SwitchPane, ConnectFromManager, NavigateResults,
         NavigateSchema, SubmitQuery, StartRename, CommitRename, OpenBookmark, Invoke, edits
<1>12. CASE \/ QuerySucceeds \/ QueryRetried \/ QueryParked \/ QueryFails
            \/ DemoEnds \/ ConnectFails
  BY <1>1, <1>12
     DEF QuerySucceeds, QueryRetried, QueryParked, QueryFails, DemoEnds, ConnectFails, edits
<1>13. CASE UNCHANGED vars
  BY <1>1, <1>13 DEF vars
<1> QED
  BY <1>6, <1>7, <1>8, <1>9, <1>10, <1>11, <1>12, <1>13 DEF Next

-----------------------------------------------------------------------------
(* The cursors and the search. *)

ViewInv == GoodView(view) /\ SearchOnlyOverResults

(* The results pane is empty at the start.                                 *)
LEMMA ViewInit == Init => ViewInv
<1> SUFFICES ASSUME Init PROVE ViewInv
  OBVIOUS
<1>1. PICK name \in Columns : view = InitialView(name)
  BY DEF Init
<1>2. DemoHeaders \in Seq(Columns) /\ <<>> \in Seq(Seq(Values)) /\ 1 \in Nat \ {0}
      /\ 2 \in Nat \ {0} /\ Values \in Needles
  BY EmptySeq
<1>3. view \in Views /\ view.rows = <<>>
  BY <1>1, <1>2 DEF InitialView, Views
<1>4. ~view.searching
  BY <1>1 DEF InitialView
<1> QED
  BY <1>3, <1>4 DEF ViewInv, GoodView, CursorsOnCell, RowSets, SearchOnlyOverResults

(* With the search box closed only the view itself matters.                *)
LEMMA UnsearchedView ==
  ASSUME GoodView(view'), ~view'.searching
  PROVE  ViewInv'
  BY DEF ViewInv, SearchOnlyOverResults, GoodView, CursorsOnCell, ColumnCount, Width

(* A step that stays in the pane and does not open the box preserves the   *)
(* invariant.                                                              *)
LEMMA SameView ==
  ASSUME ViewInv, GoodView(view'), view'.searching => view.searching, view'.rows = view.rows,
         pane' = pane, palette' = palette
  PROVE  ViewInv'
  BY DEF ViewInv, SearchOnlyOverResults, GoodView, CursorsOnCell, ColumnCount, Width

(* So does one that enters a pane,                                         *)
LEMMA EnteredView ==
  ASSUME ViewInv, NEW p, NEW v, GoodView(v),
         v.rows = Entered(view, p).rows, v.searching = Entered(view, p).searching,
         view' = v, pane' = p, palette' \in {palette, FALSE}
  PROVE  ViewInv'
<1>1. GoodView(view') /\ view'.rows = view.rows
      /\ (view'.searching => view.searching /\ (p = pane \/ p = "results"))
  BY EnteredGood DEF ViewInv
<1>2. ~palette => ~palette'
  BY Zenon
<1>3. SearchOnlyOverResults'
  BY <1>1, <1>2 DEF ViewInv, SearchOnlyOverResults
<1> QED
  BY <1>1, <1>3 DEF ViewInv, GoodView, CursorsOnCell, ColumnCount, Width

(* goes to one,                                                            *)
LEMMA GotoView ==
  ASSUME ViewInv, NEW p, Goto(p), palette' \in {palette, FALSE}
  PROVE  ViewInv'
  BY EnteredView, EnteredGood DEF ViewInv, Goto

(* or begins a statement.                                                  *)
LEMMA BeginView ==
  ASSUME NEW v, GoodView(v), NEW worker \in BOOLEAN, Begin(v, worker)
  PROVE  ViewInv'
  BY BegunGood, UnsearchedView DEF Begin

(* Every step preserves the invariant of the view.                         *)
LEMMA ViewStep ==
  ASSUME ViewInv, {connected, palette} \subseteq BOOLEAN, [Next]_vars
  PROVE  ViewInv'
<1>1. GoodView(view) /\ connected \in BOOLEAN /\ palette \in BOOLEAN
  BY DEF ViewInv
<1>2. CASE Escape
  <2>1. CASE Topmost = "search"
    <3>1. view' = [view EXCEPT !.searching = FALSE]
      BY <1>2, <2>1 DEF Escape
    <3>2. GoodView(view') /\ view'.searching = FALSE
      BY <1>1, <3>1, SearchingSet
    <3> QED
      BY <3>2, UnsearchedView
  <2>2. CASE Topmost = "palette"
    <3>1. ~view.searching
      BY <2>2 DEF Topmost
    <3>2. view' = view
      BY <1>2, <2>2 DEF Escape
    <3> QED
      BY <1>1, <3>1, <3>2, UnsearchedView
  <2>3. CASE Topmost \notin {"search", "palette"}
    BY <1>1, <1>2, <2>3, SameView DEF Escape
  <2> QED
    BY <2>1, <2>2, <2>3
<1>3. CASE AskExit \/ CancelDemo \/ PanelReconnects
  BY <1>1, <1>3, SameView DEF AskExit, CancelDemo, PanelReconnects, modes
<1>4. CASE PanelRetries
  BY <1>1, <1>4, BeginView DEF PanelRetries, Start
<1>5. CASE PanelToWizard
  BY <1>5, GotoView DEF PanelToWizard, modes
<1>6. CASE Search
  <2>1. pane' = pane /\ palette' = palette
    BY <1>6 DEF Search, modes
  <2>2. ASSUME NEW needle \in Needles,
               view' = Searched([view EXCEPT !.needle = needle], FALSE)
        PROVE  ViewInv'
    <3> DEFINE v == [view EXCEPT !.needle = needle]
    <3>1. GoodView(v) /\ v.rows = view.rows /\ v.searching = view.searching
      BY <1>1, NeedleSet
    <3>2. view' = Searched(v, FALSE)
      BY <2>2
    <3> HIDE DEF v
    <3> QED
      BY <2>1, <3>1, <3>2, SearchedGood, SameView
  <2>3. ASSUME view' = Searched(view, TRUE)
        PROVE  ViewInv'
    BY <1>1, <2>1, <2>3, SearchedGood, SameView
  <2> QED
    BY <1>6, <2>2, <2>3 DEF Search
<1>7. CASE ToWizard
  BY <1>7, GotoView DEF ToWizard, modes
<1>8. CASE ToManager
  BY <1>8, GotoView DEF ToManager, modes
<1>9. CASE ToggleHelp
  BY <1>1, <1>9, SameView DEF ToggleHelp
<1>10. CASE SwitchPane
  BY <1>10, GotoView DEF SwitchPane, modes
<1>11. CASE ConnectFromWizard \/ ConnectFromManager \/ EditField \/ SelectField
  BY <1>1, <1>11, SameView
     DEF ConnectFromWizard, ConnectFromManager, EditField, SelectField, modes
<1>12. CASE NavigateResults
  BY <1>1, <1>12, MovedGood, SameView DEF NavigateResults, modes
<1>13. CASE NavigateSchema
  <2>1. PICK name \in Columns \union {NoColumn} : view' = Reselected(view, name)
    BY <1>13 DEF NavigateSchema
  <2> QED
    BY <1>1, <1>13, <2>1, ReselectedGood, SameView DEF NavigateSchema, modes
<1>14. CASE SubmitQuery
  <2>1. CASE Start(view)
    BY <1>1, <2>1, BeginView DEF Start
  <2>2. CASE Ask
    BY <1>14, <2>2, GotoView DEF SubmitQuery, Ask, modes
  <2> QED
    BY <1>14, <2>1, <2>2 DEF SubmitQuery
<1>15. CASE StartRename \/ CommitRename
  BY <1>1, <1>15, SameView DEF StartRename, CommitRename, modes
<1>16. CASE OpenProfile
  BY <1>16, GotoView DEF OpenProfile, modes
<1>17. ASSUME Bookmarked, palette' \in {palette, FALSE}
       PROVE  ViewInv'
  <2>1. PICK name \in Columns \union {NoColumn}, p \in {"editor", "schema"} :
             pane' = p /\ view' = Reselected(Entered(view, p), name)
    BY <1>17 DEF Bookmarked
  <2>2. GoodView(Entered(view, p))
    BY <1>1, EnteredGood
  <2> QED
    BY <1>17, <2>1, <2>2, ReselectedGood, EnteredView
<1>18. CASE OpenBookmark
  BY <1>17, <1>18 DEF OpenBookmark, modes
<1>19. CASE Invoke
  <2>1. palette' \in {palette, FALSE} /\ (palette' = palette \/ palette' = FALSE) /\ ~palette'
    <3>1. ~palette'
      BY <1>19, Zenon DEF Invoke
    <3> QED
      BY <1>19, <3>1 DEF Invoke
  <2>2. CASE RunGenerated
    <3>1. PICK listed \in Listings : Start(Headed(view, listed))
      BY <2>2 DEF RunGenerated
    <3> QED
      BY <1>1, <3>1, HeadedGood, BeginView DEF Start
  <2>3. CASE RunCurrent
    <3>1. CASE Start(view)
      BY <1>1, <3>1, BeginView DEF Start
    <3>2. CASE Ask
      BY <2>1, <3>2, GotoView DEF Ask
    <3> QED
      BY <2>3, <3>1, <3>2 DEF RunCurrent
  <2>4. CASE ShowEditor
    BY <2>1, <2>4, GotoView DEF ShowEditor
  <2>5. CASE CancelAction \/ DiagnosticsFail
    <3>1. pane' = pane /\ view' = view
      BY <2>5 DEF CancelAction, DiagnosticsFail
    <3> QED
      BY <1>1, <2>1, <3>1 DEF ViewInv, SearchOnlyOverResults, GoodView, CursorsOnCell, ColumnCount, Width
  <2>6. CASE StartSearch
    <3>1. CASE view.rows = <<>>
      <4>1. view' = [view EXCEPT !.searching = FALSE]
        BY <2>6, <3>1 DEF StartSearch
      <4>2. GoodView(view') /\ view'.searching = FALSE
        BY <1>1, <4>1, SearchingSet
      <4> QED
        BY <4>2, UnsearchedView
    <3>2. CASE view.rows # <<>>
      <4> DEFINE v == [view EXCEPT !.searching = TRUE]
      <4>1. GoodView(v) /\ v.rows = view.rows
        BY <1>1, SearchingSet
      <4>2. view' = Searched(v, FALSE) /\ pane' = "results"
        BY <2>6, <3>2 DEF StartSearch
      <4> HIDE DEF v
      <4>3. GoodView(view') /\ view'.rows = view.rows
        BY <4>1, <4>2, SearchedGood
      <4> QED
        BY <2>1, <3>2, <4>2, <4>3
           DEF ViewInv, SearchOnlyOverResults, GoodView, CursorsOnCell, ColumnCount, Width
    <3> QED
      BY <3>1, <3>2
  <2>7. CASE Bookmarked
    BY <1>17, <2>1, <2>7
  <2>8. CASE Jump
    <3>1. PICK name \in Columns : pane' = "schema" /\ view' = Reselected(Entered(view, "schema"), name)
      BY <2>8 DEF Jump
    <3>2. GoodView(Entered(view, "schema"))
      BY <1>1, EnteredGood
    <3> QED
      BY <2>1, <3>1, <3>2, ReselectedGood, EnteredView
  <2> QED
    BY <1>19, <2>2, <2>3, <2>4, <2>5, <2>6, <2>7, <2>8 DEF Invoke
<1>20. CASE QuerySucceeds
  BY <1>1, <1>20, ReceivedGood, UnsearchedView DEF QuerySucceeds
<1>21. CASE QueryRetried
  BY <1>1, <1>21, FailedGood, BeginView DEF QueryRetried, Start
<1>22. CASE QueryParked \/ QueryFails
  BY <1>1, <1>22, FailedGood, UnsearchedView DEF QueryParked, QueryFails
<1>23. CASE DemoEnds
  BY <1>1, <1>23, DemoReceivedGood, UnsearchedView DEF DemoEnds
<1>24. CASE ConnectSucceeds
  <2>1. PICK name \in Columns \union {NoColumn} :
          LET v == Reselected(Entered(view, "schema"), name) IN
          \/ pane' = "schema" /\ view' = v
          \/ Begin(v, TRUE)
    BY <1>24 DEF ConnectSucceeds
  <2> DEFINE v == Reselected(Entered(view, "schema"), name)
  <2>2. GoodView(Entered(view, "schema"))
    BY <1>1, EnteredGood
  <2>3. GoodView(v) /\ v.rows = Entered(view, "schema").rows
        /\ v.searching = Entered(view, "schema").searching
    BY <2>2, ReselectedGood
  <2>4. palette' = palette
    BY <1>24 DEF ConnectSucceeds, modes
  <2>5. CASE pane' = "schema" /\ view' = v
    <3> HIDE DEF v
    <3> QED
      BY <2>3, <2>4, <2>5, EnteredView
  <2>6. CASE Begin(v, TRUE)
    <3> HIDE DEF v
    <3> QED
      BY <2>3, <2>6, BeginView
  <2> QED
    BY <2>1, <2>5, <2>6
<1>25. CASE ConnectFails
  BY <1>1, <1>25, SameView DEF ConnectFails, modes
<1>26. CASE UNCHANGED vars
  BY <1>1, <1>26, SameView DEF vars
<1> QED
  BY <1>2, <1>3, <1>4, <1>5, <1>6, <1>7, <1>8, <1>9, <1>10, <1>11, <1>12, <1>13, <1>14,
     <1>15, <1>16, <1>18, <1>19, <1>20, <1>21, <1>22, <1>23, <1>24, <1>25, <1>26 DEF Next

-----------------------------------------------------------------------------
(* Panes, panels, flags and connects. *)

ModesOK ==
  /\ pane \in Panes
  /\ {palette, help, exiting, renaming, running, receiver, connected} \subseteq BOOLEAN
  /\ connecting \in {"no", "manual", "auto"}
  /\ panel \in {"none", "query", "connection"}

(* Every step keeps the modes apart.                                       *)
LEMMA ModesStep ==
  ASSUME ModesOK, [Next]_vars
  PROVE  ModesOK'
<1>1. /\ palette \in BOOLEAN /\ help \in BOOLEAN /\ exiting \in BOOLEAN /\ renaming \in BOOLEAN
      /\ running \in BOOLEAN /\ receiver \in BOOLEAN /\ connected \in BOOLEAN
  BY DEF ModesOK
<1>2. palette' \in BOOLEAN /\ help' \in BOOLEAN /\ exiting' \in BOOLEAN
  <2>1. CASE Invoke
    BY <1>1, <2>1 DEF Invoke
  <2>2. CASE Escape
    BY <1>1, <2>2 DEF Escape
  <2>3. CASE ToggleHelp \/ AskExit
    BY <1>1, <2>3 DEF ToggleHelp, AskExit
  <2>4. CASE UNCHANGED modes
    BY <1>1, <2>4 DEF modes
  <2>5. CASE UNCHANGED vars
    BY <1>1, <2>5 DEF vars
  <2> QED
    BY <2>1, <2>2, <2>3, <2>4, <2>5
       DEF Next, CancelDemo, PanelRetries, PanelReconnects, PanelToWizard, Search, ToWizard,
           ToManager, SwitchPane, ConnectFromWizard, ConnectFromManager, EditField,
           SelectField, NavigateResults, NavigateSchema, SubmitQuery, StartRename,
           CommitRename, OpenProfile, OpenBookmark, QuerySucceeds, QueryRetried, QueryParked,
           QueryFails, DemoEnds, ConnectSucceeds, ConnectFails
<1>3. renaming' \in BOOLEAN
  <2>1. CASE Escape \/ StartRename \/ CommitRename \/ ToManager
    BY <1>1, <2>1 DEF Escape, StartRename, CommitRename, ToManager
  <2>2. CASE renaming' = renaming
    BY <1>1, <2>2
  <2> QED
    BY <2>1, <2>2
       DEF Next, vars, edits, AskExit, CancelDemo, PanelRetries, PanelReconnects,
           PanelToWizard, Search, ToWizard, ToggleHelp, SwitchPane, ConnectFromWizard,
           ConnectFromManager, EditField, SelectField, NavigateResults, NavigateSchema,
           SubmitQuery, OpenProfile, OpenBookmark, Invoke, QuerySucceeds, QueryRetried,
           QueryParked, QueryFails, DemoEnds, ConnectSucceeds, ConnectFails
<1>4. connected' \in BOOLEAN /\ connecting' \in {"no", "manual", "auto"}
  <2>1. CASE ConnectSucceeds \/ ConnectFails \/ QueryParked \/ PanelReconnects
             \/ ConnectFromWizard \/ ConnectFromManager
    BY <1>1, <2>1
       DEF ModesOK, ConnectSucceeds, ConnectFails, QueryParked, PanelReconnects,
           ConnectFromWizard, ConnectFromManager, ConnectStarts
  <2>2. CASE UNCHANGED links \/ UNCHANGED vars
    BY <1>1, <2>2 DEF ModesOK, links, vars
  <2> QED
    BY <2>1, <2>2
       DEF Next, Escape, AskExit, CancelDemo, PanelRetries, PanelToWizard, Search, ToWizard,
           ToManager, ToggleHelp, SwitchPane, EditField, SelectField, NavigateResults,
           NavigateSchema, SubmitQuery, StartRename, CommitRename, OpenProfile,
           OpenBookmark, Invoke, QuerySucceeds, QueryRetried, QueryFails, DemoEnds
<1>5. ASSUME NEW v, NEW worker \in BOOLEAN, Begin(v, worker)
      PROVE  /\ running' \in BOOLEAN /\ receiver' \in BOOLEAN
             /\ pane' \in Panes /\ panel' \in {"none", "query", "connection"}
  BY <1>5 DEF Begin, Panes
<1>6. ASSUME NEW v, Start(v)
      PROVE  /\ running' \in BOOLEAN /\ receiver' \in BOOLEAN
             /\ pane' \in Panes /\ panel' \in {"none", "query", "connection"}
  BY <1>1, <1>5, <1>6 DEF Start
<1>7. ASSUME pane' \in Panes, panel' \in {"none", "query", "connection"},
             running' \in {running, FALSE}, receiver' \in {receiver, FALSE}
      PROVE  /\ running' \in BOOLEAN /\ receiver' \in BOOLEAN
             /\ pane' \in Panes /\ panel' \in {"none", "query", "connection"}
  <2>1. running' \in BOOLEAN /\ receiver' \in BOOLEAN
    BY <1>1, <1>7, Zenon
  <2> QED
    BY <1>7, <2>1
<1>8. pane \in Panes /\ panel \in {"none", "query", "connection"}
  BY DEF ModesOK
<1>9. /\ running' \in BOOLEAN /\ receiver' \in BOOLEAN
      /\ pane' \in Panes /\ panel' \in {"none", "query", "connection"}
  <2>1. CASE PanelRetries
    BY <1>6, <2>1 DEF PanelRetries
  <2>2. CASE SubmitQuery
    BY <1>6, <1>7, <1>8, <2>2 DEF SubmitQuery, Ask, Goto, statements, Panes
  <2>3. CASE QueryRetried
    BY <1>6, <2>3 DEF QueryRetried
  <2>4. CASE Invoke
    <3>1. CASE RunGenerated
      BY <1>6, <3>1 DEF RunGenerated
    <3>2. CASE RunCurrent
      BY <1>6, <1>7, <1>8, <3>2 DEF RunCurrent, Ask, Goto, statements, Panes
    <3>3. CASE ShowEditor \/ Bookmarked
      BY <1>7, <1>8, <3>3 DEF ShowEditor, Goto, Bookmarked, statements, Panes
    <3>4. CASE CancelAction
      BY <1>7, <1>8, <3>4 DEF CancelAction
    <3>5. CASE DiagnosticsFail
      BY <1>7, <1>8, <3>5 DEF DiagnosticsFail, statements
    <3>6. CASE StartSearch \/ Jump
      BY <1>7, <1>8, <3>6 DEF StartSearch, Jump, statements, Panes
    <3> QED
      BY <2>4, <3>1, <3>2, <3>3, <3>4, <3>5, <3>6 DEF Invoke
  <2>5. CASE ConnectSucceeds
    <3>1. CASE pane' = "schema" /\ panel' = "none" /\ UNCHANGED statements
      BY <1>7, <3>1 DEF Panes, statements
    <3>2. CASE \E v : Begin(v, TRUE)
      BY <1>5, <3>2
    <3> QED
      BY <2>5, <3>1, <3>2 DEF ConnectSucceeds
  <2>6. CASE QuerySucceeds \/ QueryParked \/ QueryFails \/ DemoEnds \/ CancelDemo
    BY <1>7, <1>8, <2>6
       DEF QuerySucceeds, QueryParked, QueryFails, DemoEnds, CancelDemo, ConnectStarts
  <2>7. CASE PanelToWizard \/ ToWizard \/ ToManager \/ OpenProfile
    BY <1>7, <1>8, <2>7
       DEF PanelToWizard, ToWizard, ToManager, OpenProfile, Goto, statements, Panes
  <2>8. CASE SwitchPane
    <3>1. NextPane[pane] \in Panes
      BY <1>8 DEF NextPane, Panes
    <3> QED
      BY <1>7, <1>8, <2>8, <3>1 DEF SwitchPane, Goto, statements
  <2>9. CASE OpenBookmark
    BY <1>7, <1>8, <2>9 DEF OpenBookmark, Bookmarked, statements, Panes
  <2>10. CASE Escape \/ ConnectFails \/ PanelReconnects \/ ConnectFromWizard \/ ConnectFromManager
    BY <1>7, <1>8, <2>10
       DEF Escape, ConnectFails, PanelReconnects, ConnectFromWizard, ConnectFromManager,
           ConnectStarts, statements
  <2>11. CASE UNCHANGED <<pane, panel, statements>> \/ UNCHANGED vars
    BY <1>7, <1>8, <2>11 DEF statements, vars
  <2> QED
    BY <2>1, <2>2, <2>3, <2>4, <2>5, <2>6, <2>7, <2>8, <2>9, <2>10, <2>11
       DEF Next, statements, AskExit, Search, ToggleHelp, EditField, SelectField,
           NavigateResults, NavigateSchema, StartRename, CommitRename
<1> QED
  BY <1>2, <1>3, <1>4, <1>9 DEF ModesOK

-----------------------------------------------------------------------------
(* The inductive invariant: the form and the search as the properties have  *)
(* them, and rows that are known to be equally long.                        *)
IInv == ModesOK /\ wizard \in Forms /\ FormOwnsBuffer(wizard) /\ ViewInv

(* All three invariants hold throughout.                                   *)
LEMMA Inductive == Spec => []IInv
<1>1. Init => IInv
  <2> SUFFICES ASSUME Init PROVE IInv
    OBVIOUS
  <2>1. ModesOK
    BY DEF Init, ModesOK, Panes
  <2>2. Fields[1] \in AllField
    BY LenProperties, EmptySeq DEF AllField, ToSet
  <2>3. wizard \in Forms /\ FormOwnsBuffer(wizard)
    BY <2>2 DEF Init, FreshForm, Forms, FormOwnsBuffer
  <2> QED
    BY <2>1, <2>3, ViewInit DEF IInv
<1>2. IInv /\ [Next]_vars => IInv'
  <2> SUFFICES ASSUME IInv, [Next]_vars PROVE IInv'
    OBVIOUS
  <2>1. ModesOK'
    BY ModesStep DEF IInv
  <2>2. wizard' \in Forms /\ FormOwnsBuffer(wizard')
    BY FormStep DEF IInv
  <2>3. ViewInv'
    BY ViewStep DEF IInv, ModesOK
  <2> QED
    BY <2>1, <2>2, <2>3 DEF IInv, FormOwnsBuffer
<1> QED
  BY <1>1, <1>2, PTL DEF Spec

(* The typing invariant, for any fields, columns, rows and search texts.    *)
THEOREM Typing == Spec => []TypeOK
<1>1. IInv => TypeOK
  BY DEF IInv, TypeOK, ModesOK, Forms, ViewInv, GoodView
<1> QED
  BY <1>1, Inductive, PTL

(* Whatever statements return, and whatever replaces rows or headers in     *)
(* between, the cursors of the results stay on cells that exist.            *)
THEOREM CursorsStayOnCells == Spec => []CursorsOnCells
<1>1. IInv => CursorsOnCells
  BY DEF IInv, ViewInv, GoodView, CursorsOnCells
<1> QED
  BY <1>1, Inductive, PTL

(* The search box is only open over rows, in the results pane and without   *)
(* the palette: nothing else waits for the keys it captures.                *)
THEOREM SearchStaysOverResults == Spec => []SearchOnlyOverResults
<1>1. IInv => SearchOnlyOverResults
  BY DEF IInv, ViewInv
<1> QED
  BY <1>1, Inductive, PTL

(* A field's text is only ever saved to the field it was loaded from.       *)
THEOREM EditsBelongToFields == Spec => []EditBelongsToField
<1>1. IInv => EditBelongsToField
  BY DEF IInv, FormOwnsBuffer, EditBelongsToField
<1> QED
  BY <1>1, Inductive, PTL
=============================================================================
