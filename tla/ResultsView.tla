------------------------------ MODULE ResultsView ------------------------------
(***************************************************************************)
(* The results pane: the buffered rows, the headers they are shown under,  *)
(* a row and a column cursor, and the search.                              *)
(*                                                                         *)
(* A view is a record; the operators here are what the handlers do to it   *)
(* and Workbench says when.  Rows are sequences of values.  A search text  *)
(* is the set of values it occurs in; Values stands for the empty text.    *)
(* Cursors count from 1.                                                   *)
(***************************************************************************)
EXTENDS Naturals, Sequences, SequencesExt, FiniteSetsExt

CONSTANTS
  Values,      \* what a cell may hold
  Columns,     \* the names a header may have
  Answers,     \* the rows statements return
  Needles,     \* the search texts
  DemoRows,    \* what a demo query returns,
  DemoHeaders, \* its headers,
  DemoColumn   \* and the one that gets selected

ASSUME ViewAssumption ==
  /\ Values \in Needles /\ Needles \subseteq SUBSET Values
  /\ \A rows \in Answers \union {DemoRows} :
       /\ rows \in Seq(Seq(Values))
       /\ \A i \in DOMAIN rows : Len(rows[i]) = Len(rows[1])
  /\ DemoRows # <<>> /\ DemoHeaders \in Seq(Columns) \ {<<>>}
  /\ DemoColumn \in DOMAIN DemoHeaders

NoColumn == "none"  \* selection.column = None
Unnamed  == "col"   \* "col4": a column beyond the headers

Views == [headers   : Seq(Columns),                     \* result_columns
          rows      : Seq(Seq(Values)),                 \* results
          cursor    : Nat \ {0},                        \* results_cursor + 1
          column    : Nat \ {0},                        \* results_column_cursor + 1
          has       : BOOLEAN,                          \* has_results
          searching : BOOLEAN,                          \* results_search_mode
          needle    : Needles,                          \* results_search_query
          selected  : Columns \union {NoColumn, Unnamed}] \* selection.column

InitialView(selected) ==
  [headers |-> DemoHeaders, rows |-> <<>>, cursor |-> 1, column |-> 2, has |-> FALSE,
   searching |-> FALSE, needle |-> Values, selected |-> selected]

-----------------------------------------------------------------------------
(* Columns. *)

Width(v) == IF v.cursor \in DOMAIN v.rows THEN Len(v.rows[v.cursor]) ELSE 0

ColumnCount(v) == Max({Len(v.headers), Width(v)})

ColumnName(v, i) == IF i \in DOMAIN v.headers THEN v.headers[i] ELSE Unnamed

(* sync_results_column_selection *)
Synced(v) ==
  IF ColumnCount(v) = 0 THEN [v EXCEPT !.column = 1, !.selected = NoColumn]
  ELSE LET i == Min({v.column, ColumnCount(v)})
       IN [v EXCEPT !.column = i, !.selected = ColumnName(v, i)]

(* reset_results_column_focus: the column keeps its name if it can. *)
Refocused(v) ==
  IF Contains(v.headers, v.selected)
  THEN Synced([v EXCEPT !.column = SelectInSeq(v.headers, LAMBDA c : c = v.selected)])
  ELSE Synced(v)

(* A preview or a page turn shows its rows under the table's listed        *)
(* columns, from before its statement is even admitted.                    *)
Headed(v, listed) ==
  IF listed = <<>> THEN v ELSE Refocused([v EXCEPT !.headers = listed])

-----------------------------------------------------------------------------
(* Statements. *)

SearchEnded(v) == [v EXCEPT !.searching = FALSE, !.needle = Values]

(* start_query_internal.  A worker delivers into a new buffer; the demo    *)
(* leaves the rows in place until its countdown ends.                      *)
Begun(v, worker) ==
  [SearchEnded(v) EXCEPT !.has = FALSE, !.rows = IF worker THEN <<>> ELSE @]

(* Seeded fault: the row cursor stays where it was.                        *)
ReceivedAtCursor(v, rows) ==
  Refocused([SearchEnded(v) EXCEPT !.rows = rows, !.has = rows # <<>>, !.column = 1])

Received(v, rows) ==
  Refocused([SearchEnded(v) EXCEPT !.rows = rows, !.has = rows # <<>>,
                                   !.cursor = 1, !.column = 1])

Failed(v) == [SearchEnded(v) EXCEPT !.has = v.rows # <<>>]

DemoReceived(v) ==
  Synced([SearchEnded(v) EXCEPT !.rows = DemoRows, !.headers = DemoHeaders, !.has = TRUE,
                                !.cursor = 1, !.column = DemoColumn])

-----------------------------------------------------------------------------
(* Moving and searching. *)

(* Seeded fault: the column cursor is not kept off the left border.        *)
MovedViewsUnclamped(v) ==
  {Synced([v EXCEPT !.cursor = Max({@ - 1, 1})]),
   Synced([v EXCEPT !.cursor = Min({@ + 1, Len(v.rows)})]),
   Synced([v EXCEPT !.column = @ - 1]),
   Synced([v EXCEPT !.column = Min({@ + 1, ColumnCount(v)})])}

(* Up, Down, Left and Right. *)
MovedViews(v) ==
  {Synced([v EXCEPT !.cursor = Max({@ - 1, 1})]),
   Synced([v EXCEPT !.cursor = Min({@ + 1, Len(v.rows)})]),
   Synced([v EXCEPT !.column = Max({@ - 1, 1})]),
   Synced([v EXCEPT !.column = Max({Min({@ + 1, ColumnCount(v)}), 1})])}

Hits(v) == {i \in DOMAIN v.rows : ToSet(v.rows[i]) \intersect v.needle # {}}

FirstFrom(hits, i) ==
  IF \E j \in hits : j >= i THEN Min({j \in hits : j >= i}) ELSE Min(hits)

(* apply_results_search *)
Searched(v, next) ==
  IF v.needle = Values \/ Hits(v) = {} THEN v
  ELSE [v EXCEPT !.cursor = FirstFrom(Hits(v), IF next THEN (@ % Len(v.rows)) + 1 ELSE 1)]

(* Once there are rows both cursors are on one of their cells or headers,  *)
(* whatever replaced the rows, the headers or both since the cursors were  *)
(* moved.                                                                  *)
CursorsOnCell(v) ==
  v.rows # <<>> => v.cursor \in DOMAIN v.rows /\ v.column \in 1 .. Max({ColumnCount(v), 1})
=============================================================================
