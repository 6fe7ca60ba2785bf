---------------------------- MODULE SchemaExplorer ----------------------------
(***************************************************************************)
(* The schema explorer: three lanes of names (databases, the tables of the *)
(* active database, the columns of the selected table), each with a cursor *)
(* and a filter, the relationships of the selected table, and everything   *)
(* that moves them: keys, jumps along a foreign key, bookmarks, connects.  *)
(*                                                                         *)
(* A handler reloads the lanes it invalidates by separate calls of the     *)
(* schema cache.  Its time to live may run out and the server may change   *)
(* between any two calls, so each call is answered by some catalog, and a  *)
(* call that fails by none: its list is empty.  Names stand for strings in *)
(* the order the code sorts them in.  A filter is the set of names its     *)
(* text occurs in.  The preview that most handlers end by writing into the *)
(* query editor is QueryEditor's ReplaceText.                              *)
(***************************************************************************)
EXTENDS Naturals, Sequences, SequencesExt, FiniteSets, FiniteSetsExt

CONSTANTS
  Catalogs,   \* what the server's schema may be
  Demo,       \* the schema shown before the first connect: one database
  Needles,    \* for each lane, the filters that are typed
  Bookmarks   \* the saved bookmarks that are opened

Lanes  == {"databases", "tables", "columns"}
NoName == 0

Fetches == Catalogs \union {<<>>}  \* a call's answer; <<>> when it fails

Known   == Catalogs \union {Demo}

Identifier       == Nat \ {NoName}
ForeignKeySchema == [column : Identifier, database : Identifier, table : Identifier,
                     references : Identifier]
TableSchema      == [name : Identifier, columns : Seq(Identifier),
                     keys : SUBSET ForeignKeySchema]
DatabaseSchema   == [name : Identifier, tables : Seq(TableSchema)]

NamesOf(s) == [i \in DOMAIN s |-> s[i].name]

(* The names that occur, in a list or only as what a key references.        *)
AllTables   == UNION {UNION {ToSet(d.tables) : d \in ToSet(c)} : c \in Known}
AllKeys     == UNION {t.keys : t \in AllTables}
Databases   == {k.database : k \in AllKeys} \union UNION {ToSet(NamesOf(c)) : c \in Known}
Tables      == {t.name : t \in AllTables} \union {k.table : k \in AllKeys}
ColumnNames == {k.column : k \in AllKeys} \union {k.references : k \in AllKeys}
                 \union UNION {ToSet(t.columns) : t \in AllTables}
Names       == Databases \union Tables \union ColumnNames

ASSUME CatalogsAssumption ==
  /\ Known \subseteq Seq(DatabaseSchema)
  /\ \A t \in AllTables : IsFiniteSet(t.keys)
  /\ \A c \in Catalogs : c # <<>> /\ IsInjective(NamesOf(c))
ASSUME DemoAssumption ==
  /\ Len(Demo) = 1 /\ Demo[1].tables # <<>> /\ Demo[1].tables[1].columns # <<>>
  /\ \A i, j \in DOMAIN Demo[1].tables : Demo[1].tables[i].columns = Demo[1].tables[j].columns
ASSUME NeedlesAssumption ==
  \A lane \in Lanes : Names \in Needles[lane] /\ Needles[lane] \subseteq SUBSET Names
ASSUME BookmarksAssumption ==
  Bookmarks \subseteq [databases : Databases \union {NoName}, tables : Tables \union {NoName},
                       columns : ColumnNames \union {NoName}]

VARIABLES
  ui,        \* the lanes and what belongs to them, as below
  lane,      \* schema_lane
  connected, \* schema_cache.is_some()
  pages      \* the database and table of pagination_state

vars == <<ui, lane, connected, pages>>

NoPages == <<>>

Relationship == [databases : Databases, tables : Tables, columns : ColumnNames]

TypeOK ==
  /\ ui.list \in [Lanes -> Seq(Names)]                 \* schema_databases, ...
  /\ ui.cursor \in [Lanes -> Nat \ {0}]                \* selected_database_index + 1, ...
  /\ ui.selected \in [Lanes -> Names \union {NoName}]  \* selection
  /\ \A l \in Lanes : ui.filter[l] \in Needles[l]      \* schema_database_filter, ...
  /\ ui.active \in Databases \union {NoName}           \* active_database
  /\ ui.relations \in Seq(Relationship)                \* schema_relationships
  /\ ui.relation \in Nat \ {0}                         \* selected_relationship_index + 1
  /\ lane \in Lanes
  /\ connected \in BOOLEAN
  /\ pages \in {NoPages} \union ((Databases \union {NoName}) \X Tables)

-----------------------------------------------------------------------------
(* What a catalog says: the schema cache's list_tables, list_columns and   *)
(* list_related_tables.                                                    *)

Find(s, n) == {i \in DOMAIN s : s[i].name = n}

TablesIn(c, d) == LET found == Find(c, d) IN
  IF found = {} THEN <<>> ELSE c[Min(found)].tables

ColumnsIn(c, d, t) == LET tables == TablesIn(c, d)  found == Find(tables, t) IN
  IF found = {} THEN <<>> ELSE tables[Min(found)].columns

(* A foreign key is listed with its table and, if it stays within the      *)
(* database, with the table it references.  Keys that differ in their      *)
(* constraint's name only are one relationship.                            *)
Outbound(c, d, t) == LET tables == TablesIn(c, d)  found == Find(tables, t) IN
  IF found = {} THEN {} ELSE
    {[databases |-> k.database, tables |-> k.table, columns |-> k.references]
       : k \in tables[Min(found)].keys}

Inbound(c, d, t) ==
  UNION {{[databases |-> d, tables |-> u.name, columns |-> k.column]
            : k \in {k \in u.keys : k.table = t /\ k.database = d}}
         : u \in ToSet(TablesIn(c, d))}

Precedes(r, s) ==
  \/ r.databases < s.databases
  \/ r.databases = s.databases /\ r.tables < s.tables
  \/ r.databases = s.databases /\ r.tables = s.tables /\ r.columns < s.columns

(* The relationships in that order: each comes after as many as precede it. *)
Sorted(S) ==
  [i \in 1 .. Cardinality(S) |->
     CHOOSE r \in S : Cardinality({q \in S : Precedes(q, r)}) = i - 1]

RelationshipsIn(c, d, t) == Sorted(Outbound(c, d, t) \union Inbound(c, d, t))

-----------------------------------------------------------------------------
(* Lists, filters and cursors. *)

Filtered(list, needle) == {i \in DOMAIN list : list[i] \in needle}

At(list, i) == IF i \in DOMAIN list THEN list[i] ELSE NoName

Position(list, n) == SelectInSeq(list, LAMBDA m : m = n)

(* previous_filtered_index and next_filtered_index: a cursor that is not   *)
(* on a match counts as being on the first one.                            *)
PreviousMatch(matches, i) ==
  LET from == IF i \in matches THEN i ELSE Min(matches)
      before == {j \in matches : j < from}
  IN IF before = {} THEN from ELSE Max(before)

NextMatch(matches, i) ==
  LET from == IF i \in matches THEN i ELSE Min(matches)
      after == {j \in matches : j > from}
  IN IF after = {} THEN from ELSE Min(after)

(* Seeded fault: a list without a match has no cursor.                     *)
FillWithoutCursor(s, l, list) ==
  LET i == Position(list, At(SelectSeq(list, LAMBDA n : n \in s.filter[l]), 1))
  IN [s EXCEPT !.list[l] = list, !.cursor[l] = i, !.selected[l] = At(list, i)]

(* A lane is given a new list: its cursor goes to the first match of its   *)
(* filter, and to the first entry when there is none.                      *)
Fill(s, l, list) ==
  LET matches == Filtered(list, s.filter[l])
      i == IF matches = {} THEN 1 ELSE Min(matches)
  IN [s EXCEPT !.list[l] = list, !.cursor[l] = i, !.selected[l] = At(list, i)]

(* Seeded fault: the cursor stays where it was.                            *)
GotoWithoutCursor(s, l, n) == [s EXCEPT !.selected[l] = n]

(* A lane is sent to a name that may not be in its list.                   *)
Goto(s, l, n) ==
  [s EXCEPT !.selected[l] = n,
            !.cursor[l] = IF Contains(s.list[l], n) THEN Position(s.list[l], n) ELSE @]

GotoDatabase(s, n) == [Goto(s, "databases", n) EXCEPT !.active = n]

-----------------------------------------------------------------------------
(* Reloading.  Each of these is the set of states a handler may find the   *)
(* explorer in after the calls it made.                                    *)

DemoTables  == NamesOf(Demo[1].tables)
DemoColumns == Demo[1].tables[1].columns

DemoRelationships(d, t) ==
  LET rs == RelationshipsIn(Demo, Demo[1].name, t)
  IN [i \in DOMAIN rs |-> [rs[i] EXCEPT !.databases = d]]

TableLists(s, backed) ==
  IF s.active = NoName THEN {<<>>}
  ELSE IF backed THEN {NamesOf(TablesIn(c, s.active)) : c \in Fetches}
  ELSE {IF s.list["tables"] = <<>> THEN DemoTables ELSE s.list["tables"]}

ColumnLists(s, backed) ==
  IF ~backed THEN {DemoColumns}
  ELSE IF s.active = NoName THEN {<<>>}
  ELSE {ColumnsIn(c, s.active, s.selected["tables"]) : c \in Fetches}

RelationLists(s, backed) ==
  IF ~backed THEN {DemoRelationships(s.active, s.selected["tables"])}
  ELSE IF s.active = NoName THEN {<<>>}
  ELSE {RelationshipsIn(c, s.active, s.selected["tables"]) : c \in Fetches}

WithRelations(s, rs) == [s EXCEPT !.relations = rs, !.relation = 1]

(* Seeded fault: without a table the columns before are kept.              *)
ReloadColumnsOfTable(s, backed) ==
  IF s.selected["tables"] = NoName THEN {s}
  ELSE {WithRelations(Fill(s, "columns", columns), rs) :
          columns \in ColumnLists(s, backed), rs \in RelationLists(s, backed)}

ReloadColumns(s, backed) ==
  IF s.selected["tables"] = NoName
  THEN {WithRelations(Fill(s, "columns", <<>>), <<>>)}
  ELSE {WithRelations(Fill(s, "columns", columns), rs) :
          columns \in ColumnLists(s, backed), rs \in RelationLists(s, backed)}

ReloadTables(s, backed) ==
  UNION {ReloadColumns(Fill(s, "tables", list), backed) : list \in TableLists(s, backed)}

(* Seeded fault: the page state survives.                                  *)
MovedToWithPages(s) ==
  /\ ui' = s
  /\ pages' = pages

(* A handler has moved the explorer: the page state is dropped.           *)
MovedTo(s) ==
  /\ ui' = s
  /\ pages' = NoPages

-----------------------------------------------------------------------------
Init ==
  /\ LET s == [list     |-> [databases |-> <<Demo[1].name>>, tables |-> DemoTables,
                             columns |-> DemoColumns],
               cursor   |-> [l \in Lanes |-> 1],
               selected |-> [databases |-> Demo[1].name, tables |-> DemoTables[1],
                             columns |-> DemoColumns[1]],
               filter   |-> [l \in Lanes |-> Names],
               active   |-> Demo[1].name,
               relations |-> DemoRelationships(Demo[1].name, DemoTables[1]),
               relation  |-> 1]
     IN ui = s
  /\ lane = "tables"
  /\ connected = FALSE
  /\ pages = NoPages

(* The cursor of the current lane goes to entry i of its list.             *)
Select(s, i) ==
  LET n == s.list[lane][i]
      t == [s EXCEPT !.cursor[lane] = i, !.selected[lane] = n]
  IN \/ /\ lane = "databases"
        /\ \E r \in ReloadTables([t EXCEPT !.active = n], connected) : MovedTo(r)
     \/ /\ lane = "tables"
        /\ \E r \in ReloadColumns(t, connected) : MovedTo(r)

SelectColumn(s, i) ==
  /\ lane = "columns"
  /\ ui' = [s EXCEPT !.cursor[lane] = i, !.selected[lane] = s.list[lane][i]]

(* Up and Down.                                                            *)
Navigate ==
  LET matches == Filtered(ui.list[lane], ui.filter[lane]) IN
  /\ matches # {}
  /\ \E i \in {PreviousMatch(matches, ui.cursor[lane]), NextMatch(matches, ui.cursor[lane])} :
       \/ Select(ui, i)
       \/ SelectColumn(ui, i) /\ UNCHANGED pages
  /\ UNCHANGED <<lane, connected>>

(* Left and Right.                                                         *)
SwitchLane ==
  /\ lane' \in Lanes \ {lane}
  /\ UNCHANGED <<ui, connected, pages>>

(* A filter is edited: with a match the cursor goes to the first one, even *)
(* if it was on another.                                                   *)
Refilter(needle) ==
  LET s == [ui EXCEPT !.filter[lane] = needle]
      matches == Filtered(s.list[lane], needle)
  IN /\ \/ matches = {} /\ ui' = s /\ UNCHANGED pages
        \/ matches # {} /\ Select(s, Min(matches))
        \/ matches # {} /\ SelectColumn(s, Min(matches)) /\ pages' = NoPages
     /\ UNCHANGED <<lane, connected>>

AppendFilterChar == \E needle \in Needles[lane] :
  needle \subseteq ui.filter[lane] /\ Refilter(needle)
BackspaceFilter == \E needle \in Needles[lane] :
  ui.filter[lane] \subseteq needle /\ Refilter(needle)
ClearFilter == Refilter(Names)

(* jump_to_next_related_table.  The target need not be listed: a list may  *)
(* come from another catalog than the relationship.                        *)
JumpToRelatedTable ==
  /\ ui.relations # <<>>
  /\ LET index == Min({ui.relation, Len(ui.relations)})
         target == ui.relations[index]
         departing == [ui EXCEPT !.relation = (index % Len(ui.relations)) + 1]
     IN \E s \in ReloadTables(GotoDatabase(departing, target.databases), connected) :
        \E t \in ReloadColumns(Goto(s, "tables", target.tables), connected) :
          MovedTo(Goto(t, "columns", target.columns))
  /\ UNCHANGED <<lane, connected>>

(* apply_bookmark: what the bookmark does not name stays as it is.         *)
OpenBookmark(b) ==
  /\ \E s \in IF b.databases = NoName THEN {ui}
              ELSE ReloadTables(GotoDatabase(ui, b.databases), connected) :
     \E t \in IF b.tables = NoName THEN {s}
              ELSE ReloadColumns(Goto(s, "tables", b.tables), connected) :
       MovedTo(IF b.columns = NoName THEN t ELSE Goto(t, "columns", b.columns))
  /\ UNCHANGED <<lane, connected>>

(* apply_connected_profile, for a profile with this default database and a *)
(* worker that listed these databases: everything is filled anew, and the  *)
(* database need not be listed.                                            *)
Connect(database, listed) ==
  LET active == IF database # NoName THEN database ELSE At(listed, 1)
      cleared == [ui EXCEPT !.filter = [l \in Lanes |-> Names],
                            !.list["databases"] = listed, !.cursor["databases"] = 1,
                            !.list["tables"] = <<>>]
  IN \E s \in ReloadTables(GotoDatabase(cleared, active), TRUE) :
       /\ MovedTo(s)
       /\ lane' = IF s.list["tables"] = <<>> THEN "databases" ELSE "tables"
       /\ connected' = TRUE

Connected == \E database \in Databases \union {NoName}, c \in Fetches :
  Connect(database, NamesOf(c))

(* sync_results_column_selection: moving in the results, or receiving new  *)
(* ones, selects the column named by a result header, or none.             *)
SelectResultColumn(n) ==
  /\ ui' = [ui EXCEPT !.selected["columns"] = n]
  /\ UNCHANGED <<lane, connected, pages>>

(* start_preview_paged_query: paging starts at the selected table, and the *)
(* result headers become the listed columns.                               *)
PreviewTable ==
  /\ ui.selected["tables"] # NoName
  /\ pages' = <<ui.selected["databases"], ui.selected["tables"]>>
  /\ LET columns == ToSet(ui.list["columns"]) IN
     \/ columns = {} /\ UNCHANGED ui
     \/ \E n \in columns :
          /\ ui.selected["columns"] \in columns => n = ui.selected["columns"]
          /\ ui' = [ui EXCEPT !.selected["columns"] = n]
  /\ UNCHANGED <<lane, connected>>

Next ==
  \/ Navigate
  \/ SwitchLane
  \/ AppendFilterChar
  \/ BackspaceFilter
  \/ ClearFilter
  \/ JumpToRelatedTable
  \/ \E b \in Bookmarks : OpenBookmark(b)
  \/ Connected
  \/ \E n \in ColumnNames \union {NoName} : SelectResultColumn(n)
  \/ PreviewTable

Spec == Init /\ [][Next]_vars

-----------------------------------------------------------------------------
(* While the selected database or table is in the list on screen, the      *)
(* lane's cursor is on it: what the explorer highlights is what previews   *)
(* and bookmarks use.  Only a jump, a bookmark or a connect can select a   *)
(* name that is not listed.                                                *)
CursorOnSelection ==
  \A l \in {"databases", "tables"} :
    Contains(ui.list[l], ui.selected[l]) => ui.list[l][ui.cursor[l]] = ui.selected[l]

(* The lists are those of the selection: whatever catalogs answered, and   *)
(* whichever calls failed, no list is left over from another database or   *)
(* table.  build_preview_pagination_state picks the key column of a table  *)
(* from the listed columns.                                                *)
ListsDescribeSelection ==
  LET s == ui.selected IN
  /\ s["databases"] = ui.active
  /\ s["tables"] = NoName => ui.list["columns"] = <<>> /\ ui.relations = <<>>
  /\ connected => \E c \in Fetches :
       ui.list["tables"] = NamesOf(TablesIn(c, ui.active))
  /\ connected => \E c \in Fetches :
       ui.list["columns"] = ColumnsIn(c, ui.active, s["tables"])
  /\ connected => \E c \in Fetches :
       ui.relations = RelationshipsIn(c, ui.active, s["tables"])

(* Turning a page never fetches rows of a table that is no longer the      *)
(* selected one.                                                           *)
PagesFollowSelection ==
  pages # NoPages => pages = <<ui.selected["databases"], ui.selected["tables"]>>
=============================================================================
