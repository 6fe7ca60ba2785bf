--------------------------- MODULE MCSchemaExplorer ---------------------------
(* Schemas for TLC: app.users and app.orders, which references users, with *)
(* a second database; the same after a migration dropped users and a       *)
(* column; and the demo.  Databases are 1 and 2, tables 3 and 4, columns   *)
(* 6 and 7.                                                                *)
EXTENDS SchemaExplorer

Key(column, database, table, references) ==
  [column |-> column, database |-> database, table |-> table, references |-> references]
Table(name, columns, keys) == [name |-> name, columns |-> columns, keys |-> keys]

Before ==
  <<[name |-> 1, tables |-> <<Table(3, <<6, 7>>, {Key(7, 1, 4, 6)}), Table(4, <<6>>, {})>>],
    [name |-> 2, tables |-> <<Table(4, <<6, 7>>, {})>>]>>
After ==
  <<[name |-> 1, tables |-> <<Table(3, <<7>>, {Key(7, 2, 4, 6)})>>],
    [name |-> 2, tables |-> <<Table(4, <<6>>, {})>>]>>
Schemas == {Before, After}

DemoSchema ==
  <<[name |-> 1, tables |-> <<Table(4, <<6, 7>>, {}), Table(3, <<6, 7>>, {Key(7, 1, 4, 6)})>>]>>

TypedNeedles ==
  [databases |-> {Names, {2}}, tables |-> {Names, {4}}, columns |-> {Names, {7}}]
SavedBookmarks ==
  {[databases |-> 2, tables |-> 4, columns |-> 7],
   [databases |-> 0, tables |-> 4, columns |-> 0],
   [databases |-> 1, tables |-> 0, columns |-> 0]}
=============================================================================
