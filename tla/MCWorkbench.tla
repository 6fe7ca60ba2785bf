------------------------------ MODULE MCWorkbench ------------------------------
(* Statements return nothing, a row of one column or two rows of two; the  *)
(* demo's row has three columns.                                           *)
EXTENDS Workbench

Cells        == {"a", "b"}
TextNeedles  == {{"a", "b"}, {"b"}, {}}
AnswerRows   == {<<>>, <<<<"b">>>>, <<<<"a", "a">>, <<"a", "b">>>>}
RowsOfDemo   == <<<<"a", "a", "b">>>>
HeadersOfDemo == <<"id", "value", "observed_at">>
ColumnNames  == {"id", "value", "observed_at"}
WizardFields == <<"profile", "host">>
ListedColumns == {<<>>, <<"value">>, <<"id", "value">>}
=============================================================================
