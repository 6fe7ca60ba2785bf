------------------------------- MODULE Workbench -------------------------------
(***************************************************************************)
(* The keyboard's side of the UI: which handler a key reaches.  A message  *)
(* passes the exit confirmation, the error panel and the results search    *)
(* before it is routed by pane, palette and open edits; meanwhile          *)
(* statements and connects end and move panes by themselves.               *)
(*                                                                         *)
(* Session says which statements run and when connects end, SchemaExplorer *)
(* what the explorer selects, QueryEditor what the editor holds and        *)
(* ProfileManager what a rename does; here any of these may happen         *)
(* whenever a key or a tick can cause it.  The end of the program is the   *)
(* end of the behaviour.                                                   *)
(***************************************************************************)
EXTENDS ResultsView

CONSTANTS
  Fields,  \* the wizard's fields, from top to bottom
  Listings \* what schema_columns may list

ASSUME FieldsAssumption == Fields \in Seq(STRING) \ {<<>>} /\ IsInjective(Fields)
ASSUME ListingsAssumption == \A listed \in Listings : listed \in Seq(Columns)

VARIABLES
  pane,      \* pane
  palette,   \* show_palette
  help,      \* show_help
  exiting,   \* exit_confirmation
  panel,     \* the kind of the open error panel
  wizard,    \* wizard_form: its active field, and what is being edited
  renaming,  \* manager_rename_mode
  running,   \* query_running
  receiver,  \* query_result_rx.is_some(): a worker's outcome will be polled
  connected, \* data_backend.is_some()
  connecting,\* connect_requested, and with which intent
  view       \* the results, as ResultsView has them

vars == <<pane, palette, help, exiting, panel, wizard, renaming, running, receiver,
          connected, connecting, view>>

modes      == <<palette, help, exiting>>
edits      == <<wizard, renaming>>
statements == <<running, receiver>>
links      == <<connected, connecting>>

Panes    == {"wizard", "schema", "results", "editor", "bookmarks"}
NoField  == "none"
AllField == ToSet(Fields)

TypeOK ==
  /\ pane \in Panes
  /\ {palette, help, exiting, renaming, running, receiver, connected} \subseteq BOOLEAN
  /\ connecting \in {"no", "manual", "auto"}
  /\ panel \in {"none", "query", "connection"}
  /\ wizard \in [field : AllField, editing : BOOLEAN, buffer : AllField \union {NoField}]
  /\ view \in Views

-----------------------------------------------------------------------------
(* Panes. *)

NextPane ==
  [wizard |-> "schema", schema |-> "results", results |-> "editor",
   editor |-> "bookmarks", bookmarks |-> "schema"]

(* Seeded fault: leaving the results keeps the search open.                *)
EnteredSearching(v, p) == v

(* set_active_pane: leaving the results ends the search. *)
Entered(v, p) ==
  IF p # pane /\ p # "results" THEN [v EXCEPT !.searching = FALSE] ELSE v

Goto(p) == pane' = p /\ view' = Entered(view, p)

(* Schema navigation selects another column. *)
Reselected(v, name) == [v EXCEPT !.selected = name]

(* A form loaded from a profile is not being edited.  Its edit buffer is   *)
(* known by the field it was loaded from.                                  *)
FreshForm == [field |-> Fields[1], editing |-> FALSE, buffer |-> NoField]

EditStarted == [wizard EXCEPT !.editing = TRUE, !.buffer = wizard.field]
EditEnded   == [wizard EXCEPT !.editing = FALSE, !.buffer = NoField]

-----------------------------------------------------------------------------
(* Statements. *)

(* start_query_internal, over the given view.  Before the first connection *)
(* there is no worker: a countdown ends in demo rows.                      *)
Begin(v, worker) ==
  /\ pane' = "results"
  /\ panel' = "none"
  /\ running' = TRUE
  /\ receiver' = worker
  /\ view' = Begun(v, worker)

Start(v) == Begin(v, connected)

(* Safe mode wants the statement confirmed: it is put into the editor.     *)
Ask ==
  /\ Goto("editor")
  /\ UNCHANGED <<panel, statements>>

(* start_connect_with_profile *)
ConnectStarts(intent) == connecting' = intent /\ panel' = "none"

Init ==
  /\ pane = "wizard"
  /\ palette = FALSE /\ help = FALSE /\ exiting = FALSE
  /\ panel = "none"
  /\ wizard = FreshForm
  /\ renaming = FALSE
  /\ running = FALSE /\ receiver = FALSE
  /\ connected = FALSE /\ connecting = "no"
  /\ \E name \in Columns : view = InitialView(name)

-----------------------------------------------------------------------------
(* Keys.  With the exit confirmation open only Esc, Ctrl+C and F10 pass.   *)

Key      == ~exiting /\ panel = "none"
PanelKey == ~exiting /\ panel # "none"

Editing  == pane = "wizard" /\ wizard.editing
Renaming == pane = "bookmarks" /\ renaming

(* What Esc and Ctrl+P close: the first that is open. *)
Topmost ==
  CASE panel # "none"  -> "panel"
    [] view.searching  -> "search"
    [] exiting         -> "exit"
    [] help            -> "help"
    [] Editing         -> "edit"
    [] Renaming        -> "rename"
    [] OTHER           -> "palette"

(* Esc or Ctrl+P. *)
Escape ==
  /\ panel' = IF Topmost = "panel" THEN "none" ELSE panel
  /\ view' = IF Topmost = "search" THEN [view EXCEPT !.searching = FALSE] ELSE view
  /\ exiting' = (exiting /\ Topmost # "exit")
  /\ help' = (help /\ Topmost # "help")
  /\ wizard' = IF Topmost = "edit" THEN EditEnded ELSE wizard
  /\ renaming' = (renaming /\ Topmost # "rename")
  /\ palette' = IF Topmost = "palette" THEN ~palette ELSE palette
  /\ UNCHANGED <<pane, statements, links>>

(* Ctrl+C over an idle UI asks for the exit.  (Over a worker it raises the *)
(* worker's token, and the second one quits: nothing else changes here.)   *)
AskExit ==
  /\ panel = "none" /\ ~running /\ ~exiting
  /\ exiting' = TRUE
  /\ UNCHANGED <<pane, palette, help, panel, edits, statements, view, links>>

CancelDemo ==
  /\ panel = "none" /\ running /\ ~receiver
  /\ running' = FALSE
  /\ UNCHANGED <<pane, modes, panel, edits, receiver, view, links>>

(* The error panel: 1 or Enter, F5, F6.  A retry starts a statement, a     *)
(* reconnect closes the panel.                                             *)
PanelRetries ==
  /\ PanelKey /\ panel = "query"
  /\ Start(view)
  /\ UNCHANGED <<modes, edits, links>>

PanelReconnects ==
  /\ PanelKey /\ connecting = "no"
  /\ ConnectStarts("manual")
  /\ UNCHANGED <<pane, modes, edits, statements, connected, view>>

PanelToWizard ==
  /\ PanelKey
  /\ panel' = "none"
  /\ Goto("wizard")
  /\ UNCHANGED <<modes, edits, statements, links>>

(* The search box: typing and deleting search from the top, Enter from     *)
(* below the cursor.                                                       *)
Search ==
  /\ Key /\ view.searching
  /\ \/ \E needle \in Needles : view' = Searched([view EXCEPT !.needle = needle], FALSE)
     \/ view' = Searched(view, TRUE)
  /\ UNCHANGED <<pane, modes, panel, edits, statements, links>>

(* F6 and F7. *)
ToWizard ==
  /\ Key
  /\ Goto("wizard")
  /\ wizard' = IF wizard.editing THEN EditEnded ELSE wizard
  /\ UNCHANGED <<modes, panel, renaming, statements, links>>

ToManager ==
  /\ Key
  /\ Goto("bookmarks")
  /\ renaming' = FALSE
  /\ UNCHANGED <<modes, panel, wizard, statements, links>>

ToggleHelp ==
  /\ Key
  /\ help' = ~help
  /\ UNCHANGED <<pane, palette, exiting, panel, edits, statements, view, links>>

(* Tab. *)
SwitchPane ==
  /\ Key /\ ~Editing
  /\ Goto(NextPane[pane])
  /\ UNCHANGED <<modes, panel, edits, statements, links>>

(* F5 in the wizard saves the field that is being edited and connects,     *)
(* unless the form makes no profile or a connect is underway.              *)
ConnectFromWizard ==
  /\ Key /\ pane = "wizard"
  /\ wizard' = IF wizard.editing THEN EditEnded ELSE wizard
  /\ \/ connecting = "no" /\ ConnectStarts("manual")
     \/ UNCHANGED <<panel, connecting>>
  /\ UNCHANGED <<pane, modes, renaming, statements, connected, view>>

(* F5 in the manager. *)
ConnectFromManager ==
  /\ Key /\ pane = "bookmarks" /\ ~renaming /\ connecting = "no"
  /\ ConnectStarts("manual")
  /\ UNCHANGED <<pane, modes, edits, statements, connected, view>>

-----------------------------------------------------------------------------
(* Keys that depend on the pane.  While searching, typing and Enter do not *)
(* get here.                                                               *)

Routed == Key /\ ~palette

(* Enter or e, and Enter again.  What is typed in between, even 1 to 7 with *)
(* the palette open, changes the buffer and not the field it belongs to.   *)
EditField ==
  /\ Routed /\ pane = "wizard"
  /\ wizard' = IF wizard.editing THEN EditEnded ELSE EditStarted
  /\ UNCHANGED <<pane, modes, panel, renaming, statements, view, links>>

FieldAfter(step) ==
  LET n == Len(Fields)
      i == SelectInSeq(Fields, LAMBDA f : f = wizard.field)
  IN Fields[((i - 1 + step) % n) + 1]

(* Seeded fault: the arrows move while a field is being edited.            *)
SelectFieldAnyway ==
  /\ Routed /\ pane = "wizard"
  /\ wizard' \in {[wizard EXCEPT !.field = FieldAfter(1)],
                  [wizard EXCEPT !.field = FieldAfter(Len(Fields) - 1)]}
  /\ UNCHANGED <<pane, modes, panel, renaming, statements, view, links>>

SelectField ==
  /\ Routed /\ pane = "wizard" /\ ~wizard.editing
  /\ wizard' \in {[wizard EXCEPT !.field = FieldAfter(1)],
                  [wizard EXCEPT !.field = FieldAfter(Len(Fields) - 1)]}
  /\ UNCHANGED <<pane, modes, panel, renaming, statements, view, links>>

NavigateResults ==
  /\ Routed /\ pane = "results" /\ view.rows # <<>>
  /\ view' \in MovedViews(view)
  /\ UNCHANGED <<pane, modes, panel, edits, statements, links>>

NavigateSchema ==
  /\ Routed /\ pane = "schema"
  /\ \E name \in Columns \union {NoColumn} : view' = Reselected(view, name)
  /\ UNCHANGED <<pane, modes, panel, edits, statements, links>>

(* Enter in the editor: a confirmed statement starts even over a running   *)
(* one.                                                                    *)
SubmitQuery ==
  /\ Routed /\ pane = "editor"
  /\ Start(view) \/ (~running /\ Ask)
  /\ UNCHANGED <<modes, edits, links>>

(* r, Enter and the list's keys in the manager.                            *)
StartRename ==
  /\ Routed /\ pane = "bookmarks" /\ ~renaming
  /\ renaming' = TRUE
  /\ UNCHANGED <<pane, modes, panel, wizard, statements, view, links>>

CommitRename ==
  /\ Routed /\ Renaming
  /\ renaming' = FALSE
  /\ UNCHANGED <<pane, modes, panel, wizard, statements, view, links>>

OpenProfile ==
  /\ Routed /\ pane = "bookmarks" /\ ~renaming
  /\ wizard' = FreshForm
  /\ Goto("wizard")
  /\ UNCHANGED <<modes, panel, renaming, statements, links>>

(* apply_bookmark, from the manager's list or from the action. *)
Bookmarked ==
  /\ \E name \in Columns \union {NoColumn}, p \in {"editor", "schema"} :
       pane' = p /\ view' = Reselected(Entered(view, p), name)
  /\ UNCHANGED <<panel, statements>>

OpenBookmark ==
  /\ Routed /\ pane = "bookmarks" /\ ~renaming
  /\ Bookmarked
  /\ UNCHANGED <<modes, edits, links>>

-----------------------------------------------------------------------------
(* Actions, by 1 to 7 of the footer or chosen in the palette.  The footer  *)
(* is not reachable in the wizard, and neither are the palette's digits;   *)
(* the palette closes behind its action.                                   *)

(* A statement the action generates is read-only and runs unasked; a       *)
(* preview or a page turn puts the listed columns over the results.        *)
RunGenerated ==
  /\ ~running
  /\ \E listed \in Listings : Start(Headed(view, listed))

(* RunCurrentQuery. *)
RunCurrent == ~running /\ pane = "editor" /\ (Start(view) \/ Ask)

(* Actions that write into the editor, and the one that only goes there.   *)
ShowEditor == Goto("editor") /\ UNCHANGED <<panel, statements>>

(* CancelRunningQuery leaves the worker and its receiver alone.            *)
CancelAction ==
  /\ running
  /\ running' = FALSE
  /\ UNCHANGED <<pane, panel, receiver, view>>

(* RunHealthDiagnostics, when a check fails. *)
DiagnosticsFail ==
  /\ ~running
  /\ panel' \in {"connection"} \union (IF connected THEN {"query"} ELSE {})
  /\ UNCHANGED <<pane, statements, view>>

(* start_results_search: the text of the search before is searched again.  *)
StartSearch ==
  /\ view.has
  /\ pane' = IF view.rows = <<>> THEN pane ELSE "results"
  /\ view' = IF view.rows = <<>> THEN [view EXCEPT !.searching = FALSE]
             ELSE Searched([view EXCEPT !.searching = TRUE], FALSE)
  /\ UNCHANGED <<panel, statements>>

(* JumpToRelatedTable selects the related column and goes to the explorer. *)
Jump ==
  /\ ~running
  /\ pane' = "schema"
  /\ \E name \in Columns : view' = Reselected(Entered(view, "schema"), name)
  /\ UNCHANGED <<panel, statements>>

Invoke ==
  /\ Key
  /\ \/ ~palette /\ pane # "wizard" /\ UNCHANGED palette
     \/ palette /\ palette' = FALSE
  /\ \/ RunGenerated
     \/ RunCurrent
     \/ ShowEditor
     \/ CancelAction
     \/ DiagnosticsFail
     \/ StartSearch
     \/ ~running /\ Bookmarked
     \/ Jump
  /\ UNCHANGED <<help, exiting, edits, links>>

-----------------------------------------------------------------------------
(* A tick finds that something ended. *)

QuerySucceeds ==
  /\ receiver
  /\ \E rows \in Answers : view' = Received(view, rows)
  /\ running' = FALSE /\ receiver' = FALSE
  /\ UNCHANGED <<pane, modes, panel, edits, links>>

(* A failure is retried at once, or parked behind a reconnect, or reported. *)
QueryRetried ==
  /\ receiver
  /\ Start(Failed(view))
  /\ UNCHANGED <<modes, edits, links>>

QueryParked ==
  /\ receiver
  /\ view' = Failed(view)
  /\ ConnectStarts("auto")
  /\ running' = FALSE /\ receiver' = FALSE
  /\ UNCHANGED <<pane, modes, edits, connected>>

QueryFails ==
  /\ receiver
  /\ view' = Failed(view)
  /\ panel' = "query"
  /\ running' = FALSE /\ receiver' = FALSE
  /\ UNCHANGED <<pane, modes, edits, links>>

DemoEnds ==
  /\ running /\ ~connected
  /\ view' = DemoReceived(view)
  /\ running' = FALSE
  /\ UNCHANGED <<pane, modes, panel, edits, receiver, links>>

(* apply_connected_profile, and the replay of a statement that is still    *)
(* parked.                                                                 *)
ConnectSucceeds ==
  /\ connecting # "no"
  /\ connecting' = "no" /\ connected' = TRUE
  /\ wizard' = FreshForm
  /\ \E name \in Columns \union {NoColumn} :
       LET v == Reselected(Entered(view, "schema"), name) IN
       \/ /\ pane' = "schema" /\ view' = v /\ panel' = "none"
          /\ UNCHANGED statements
       \/ connecting = "auto" /\ Begin(v, TRUE)
  /\ UNCHANGED <<modes, renaming>>

(* The last reconnect of a row is reported, the ones before try again.     *)
ConnectFails ==
  /\ connecting # "no"
  /\ \/ connecting' = "no" /\ panel' = "connection"
     \/ connecting = "auto" /\ ConnectStarts("auto")
  /\ UNCHANGED <<pane, modes, edits, statements, connected, view>>

Next ==
  \/ Escape \/ AskExit \/ CancelDemo
  \/ PanelRetries \/ PanelReconnects \/ PanelToWizard
  \/ Search
  \/ ToWizard \/ ToManager \/ ToggleHelp \/ SwitchPane
  \/ ConnectFromWizard \/ ConnectFromManager
  \/ EditField \/ SelectField
  \/ NavigateResults \/ NavigateSchema
  \/ SubmitQuery
  \/ StartRename \/ CommitRename \/ OpenProfile \/ OpenBookmark
  \/ Invoke
  \/ QuerySucceeds \/ QueryRetried \/ QueryParked \/ QueryFails \/ DemoEnds
  \/ ConnectSucceeds \/ ConnectFails

Spec == Init /\ [][Next]_vars

-----------------------------------------------------------------------------
(* Whatever replaces the rows, the headers or both, and whenever, both     *)
(* cursors stay on a cell or header that exists.                           *)
CursorsOnCells == CursorsOnCell(view)

(* The search box captures letters, Backspace, Ctrl+U, Enter and Esc before *)
(* any pane does.  It is open in the results pane alone, over rows, and     *)
(* never together with the palette, so no other input waits for those keys. *)
(* It leaves 1 to 7 and ? alone: with the box open they still invoke footer *)
(* actions and toggle the help, and every action, statement, pane change    *)
(* and outcome that takes the results away has to close it.                 *)
SearchOnlyOverResults == view.searching => pane = "results" /\ view.rows # <<>> /\ ~palette

(* What Enter or F5 saves is saved to the field it was loaded from,        *)
(* although panes, panels and connects come and go while it is edited.     *)
EditBelongsToField ==
  wizard.buffer = IF wizard.editing THEN wizard.field ELSE NoField
=============================================================================
