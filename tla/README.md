# Verification of myr

myr is a terminal client for MySQL: one UI thread with an event loop, one
worker thread per connect and per statement, a MySQL adapter, and four small
files (profiles, bookmarks, audit trail, exports). This directory holds its
TLA+ models, the TLC configurations that check them, and TLAPS proofs about
them. Paths below are relative to `src/`; `tui/`, `core/` and `adapters/` stand
for `src/crates/tui/src/`, `src/crates/core/src/` and
`src/crates/adapters/src/`.

## 1. Inventory

| Component | State it keeps | Operations | Talks to | Hard part | What makes it correct |
|---|---|---|---|---|---|
| TUI runtime (`tui/app_logic/runtime`, `query_actions`) | the fields of `TuiApp`: connection, current statement, worker channels, retry and reconnect counters, confirmation, error panel | keys, `Tick` polls of both workers, demo countdown | workers by channel, guard, audit trail, profile store | outcomes arrive between any two keys; statements are re-run by itself after timeouts and lost connections; a cancel may come at any time | only consented statements execute; outcomes go to the right statement; audit records match runs; a cancel is final; everything comes to rest |
| Safe mode guard (`core/safe_mode.rs`) | pending tokens, nonce | evaluate, confirm, switch | runtime | a token outlives the question it was made for; splitting text into statements | a token confirms one text once; no risk is overlooked |
| Query runner, result buffer, row stream (`core/query_runner.rs`, `core/results_buffer.rs`, `adapters/mysql.rs`) | buffer, rows seen, stream | start, pull, cancel, push | MySQL, UI thread by token | the token races the rows; a silent server; eviction | the outcome is the last rows, a cancel stops within a row, the worker ends |
| Pagination (`tui/app_logic/query_actions/pagination.rs`) | plan, page index, key boundaries, pending transition | preview, next, previous, finalize | runtime, SQL generator | the transition waits for an outcome that may be a failure, a retry or a part | the page named is the page shown; turns are contiguous |
| Connection manager (`core/connection_manager.rs`) | active handle, latency | connect, ping, disconnect | adapter | partial failure between connect and ping | status agrees with the handle |
| Profile store (`core/profiles.rs`) | list in memory, `profiles.toml` | load with migration, upsert, mark, delete, persist | manager, runtime | writes that fail or are cut short | memory equals file; each marker on one profile |
| Bookmark store (`core/bookmarks.rs`) | the same for bookmarks | load, upsert, delete, persist | manager | the same | the same |
| Audit trail (`core/audit_trail.rs`) | `audit.ndjson` and its archives | append with rotation | runtime | any file operation may fail; crash in between | a log that forgets only its oldest records, within its size |
| Schema cache (`core/schema_cache`) | catalog, age | list, refresh, invalidate | adapter, explorer | time to live between calls; failing fetch | never older than its time to live |
| Schema explorer (`tui/app_logic/navigation/schema_*.rs`) | lanes, filters, indices, selection | cursor moves, filters, reloads | schema cache, pagination | index and selection against filtered and reloaded lists | the selection is what the cursor shows |
| Profile and bookmark manager (`tui/app_logic/navigation/manager_interactions.rs`) | lane, cursors, rename mode | move, rename, mark, delete, open, connect | both stores, runtime | the list changes under the cursor | the operation hits the entry that was chosen |
| Editor, history, input modes (`tui/app_logic/input.rs`, `runtime/handle.rs`) | text, cursor, history, flags of the modes | keys | runtime | mode flags that overlap; history cap | cursor on a character boundary, no mode without a way out |
| Results navigation (`tui/app_logic/navigation/results_navigation.rs`) | cursors, search | moves, search | result buffer | the buffer is replaced | cursors within the buffer |
| Actions engine (`core/actions_engine`) | catalog, usage | enable, rank, invoke | runtime | context against state | what is offered can be done |
| SQL generation (`core/sql_generator.rs`) | none | statement texts | pagination | quoting | see pagination |
| Export, command line, benchmark, rendering | files, arguments, frame | one-shot | stores, adapter | I/O | not modelled, see section 6 |

The hazards these parts are exposed to are listed, each at its line, in
`PROJECT.json`.

## 2. Plan

Order of work, the most important behaviour first:

1. **Session**: the event loop with its workers. Proved in `SessionProofs`. *Done.*
2. **QueryStream**, shown to implement **QueryContract**. Proved in `StatementProofs`. *Done.*
3. **Pagination** on top of the outcomes of Session. Proved in `PaginationProofs`. *Done.*
4. **AuditTrail**, shown to implement **AuditLog**. Proved in `AuditTrailProofs`. *Done.*
5. **ProfileManager**: profile store, manager pane and the save on connect. Proved in
   `ProfileManagerProofs`. *Done.*
6. **SafeMode**: the splitter against a definition by lexemes, and the guard's tokens.
   Proved in `StatementProofs`. *Done.*
7. **SchemaExplorer** over a cache whose catalog may change at every call. Proved in
   `SchemaExplorerProofs`. *Done.*
8. **Workbench** over **ResultsView**: key routing, panes and modes, and what
   outcomes do to the results pane. Proved in `WorkbenchProofs`. *Done.*
9. **QueryEditor**: text, cursor and history. Proved in `QueryEditorProofs`. *Done.*

Left: the bookmarks lane of the manager and its store, the connection manager,
the ranking of actions and the command line's choice of a profile; section 6
says why they come last.

Every invariant, action property and refinement that a passing run checks is
also proved for all values of the constants; liveness stays with the model checker.
Section 5 gives the arguments and the reasons. No module declares a RECURSIVE operator.

How the modules divide the UI thread: Session decides which statements run and
when connects end and forgets panes; Workbench keeps panes and modes and lets
statements and connects end whenever a worker exists; Pagination, SchemaExplorer,
QueryEditor, SafeMode and ProfileManager each take one handler's data and let the
others happen at any time. ResultsView is a module of operators without variables
that Workbench extends. QueryStream is inside one worker, AuditTrail inside one
call.

## 3. The models and the code

**Session** (`Session.tla`). The UI thread owns all fields of `TuiApp`; a key is
one step, and a `Tick` is the three steps in which `on_tick` polls the connect
channel, polls the query channel and counts the demo query down (`phase`),
because a worker may deliver between two of them. `connect` and `worker` are the
threads behind the two channels; `orphans` are threads whose receiver was
dropped by a later start. A statement is a value that is or is not read-only for
`assess_sql_safety`. Panes, palettes and modes are abstracted to "the handler
can be reached", with the error panel taking all keys while it is open. Histories
(`consented`, `ledger`, `bypassed`) record what the user let through, the audit
records of each statement, and whether a run was started over or disowned by the
cancel action.

**QueryStream** (`QueryStream.tla`). One worker from `run_query_worker` down to
the row stream: start, look at the token, pull, push, end. The timeout fires
where the worker awaits the server; the token is raised by the UI at any moment.
Rows are numbered as they arrive. **QueryContract** is what the event loop
assumes of a worker, and the refinement maps the rows that arrived and the
outcome.

**Pagination** (`Pagination.tla`, table in `MCPagination.tla`). A statement is
the set of row positions the server answers it with, built from the plan exactly
as `sql_generator.rs` bounds it: above the last key ascending, below the first
key descending, or by offset. Outcomes are those of Session, except that a
failure may be retried, parked or shown in any state in which some value of
Session's counters allows it. A raised token lets any prefix through. The table does not change
and OFFSET statements have a stable order.

**AuditTrail** (`AuditTrail.tla`). `append` one system call at a time: size
check, removal of the oldest archive, one step per rename, open, text, newline.
`Fail` is a failing call or the end of the program; either way the append is
over. Files have an identity, so that a descriptor survives a rename. A record's
text is two bytes, both its number, and is written in two steps, so that an append
can end inside the text or between it and the newline; the next append then goes
on with the line left open. `Read` is a file read line by line, as the test in
`audit_trail.rs:309` and docs/manual-testing.md:422 read it: a line is a record
if it is one record's text and nothing else. The trail is the records of all files, from the
oldest archive to the current file. **AuditLog** is what a reader is promised:
acknowledged records come in at the end and are forgotten from the start; an append
that ends early leaves its line open, and the record that closes that line is
acknowledged but not kept, unless the file was put away first.

**ProfileManager** (`ProfileManager.tla`). `profile_store` and the file, the
profiles lane of the manager, and the connects that save their profile when the
worker is done. Names stand for strings in sort order; a profile is a set of
flags: the two markers and "hidden", all the options that the wizard has no field
for. A persist succeeds, is refused before the file is touched, or is cut short,
after which the file holds a readable prefix or cannot be parsed. `Restart` loads
again from whatever the file is, a legacy file included.

**SafeMode** (`SafeMode.tla`). A text is a sequence of characters in which a word
is one character. `Scanned` is one turn of the loop of `split_statements`, its
five flags folded into a mode and the character it reads ahead into `skip`;
`Statements` is what it has after the last character. `Blocked`, `Allowed` and `Asked` are
`execute_sql_with_guard` with `evaluate` inlined, `Confirm` is Enter, with
`confirm`. The definition it is compared with knows no modes: it finds the quoted
texts, comments and single characters a text consists of (`Lexemes`), cuts at the
semicolons among them and drops the comments (`Pieces`). Fingerprints are the normalized texts.

**SchemaExplorer** (`SchemaExplorer.tla`). Lanes, filters, selection, the active
database, relationships and the page state that must not outlive a selection.
`ReloadTables` and `ReloadColumns` are sets of states: each call of the schema
cache inside them is answered by any catalog the server had or by none, which
covers every expiry, refresh, migration and failure between two calls. A handler
that reloads twice (a jump, a bookmark) draws twice. Before the first connect the
demo schema answers.

**ResultsView** and **Workbench** (`ResultsView.tla`, `Workbench.tla`). A view
is the record of rows, headers, both cursors and the search, with one operator
per function of `results_navigation.rs` and per way a statement changes it.
Workbench routes keys to it and to the wizard, the manager, the palette, the
panel and the exit question: `Key`, `PanelKey`, `Routed`, `Topmost` are the early
returns of `handle`, `handle_input_char` and `submit`. Outcomes and connects are
steps of their own, so that they fall between any two keys. The wizard's edit
buffer is represented by the field it was loaded from, which is what saving it
into another field would get wrong.

**QueryEditor** (`QueryEditor.tla`). A text is its UTF-8 bytes, because
`query_cursor` counts bytes, and `Texts` are the sequences in which a character
starts at the first byte and after each blank. Every writer of the text is an action: keys,
history, a statement that starts, is asked about or retried, and the previews and
bookmarks that replace it.

## 4. The runs

| Run | Question | Bounds |
|---|---|---|
| session | consent, attribution of outcomes, audit, single execution, parking, panel, finality of a cancel | one read-only and one risky statement, one profile, one retry and two reconnects as in the code, a demo countdown of no ticks: 2.1 M states |
| session_live | does everything come to rest; what the guard admits on a read-only profile | one read-only and one risky statement, one read-only profile (a second gives 16 M states; the guard looks at what is current, not at how it became so), one retry, one reconnect, demo countdown of one tick; 0.5 M states, fairness below |
| query_stream | indices, latency of a cancel, termination, contract | buffer of 4, up to 12 rows: the buffer is overwritten twice over |
| pagination | is the page shown the one named, are turns contiguous, does a transition reach its statement only | six keys, pages of two: the last page is exactly full, so that next runs into an empty page; 1 006 states |
| audit_trail | log, size, archives | files of up to seven bytes: two records, or a torn line, the record it swallows and a good one; two archives and seven records: an archive is renamed through both places and purged; 59 375 states |
| profiles | memory against file, markers, the connected profile, the cursor | two names, one marker (the two are treated alike and do not interact) and the hidden options; 0.5 M states |
| safe_mode | is a text cut where it should be, can the open question be answered | all 4681 texts of up to four characters over both words, newline, quote, semicolon, dash, slash and star: an opening and a closing mark of any kind, or two that overlap, fit; tokens repeat from the second on; 146 k states |
| schema | cursors against selection, lists against catalogs, page state against selection | two databases, a schema before and after a migration that drops a table and a column, a foreign key within and one across databases, one filter per lane, three bookmarks; 16 344 states, each with all answers of up to six calls |
| workbench | cursors within the results, where the search box may be open, which field an edit is saved to | answers of none, one and two rows and of one and two columns under headers of none to three: fewer and more headers than columns; two wizard fields; 1.0 M states |
| editor | cursor on a character, history within its cap | a character of one byte, one of two and a blank, texts of up to three typed bytes, a history of two: it overflows while an index into it is held; 154 k states |
| session_read_only, profile_options | two places where the code does not do what a document says; each run ends in a violation of the documented property | smallest instance that shows it |

`CHECK_DEADLOCK FALSE` is set for QueryStream, whose worker ends, and for
AuditTrail, which stops when the bound on records is reached.

### What the failing runs show

* *session_read_only*: a confirmation asked for on one profile can be given when
  a read-only profile is current, and retries and replays skip the check
  (README.md:59).
* *profile_options*: opening a stored profile in the wizard and connecting
  removes its TLS and keyring options from the file (README.md:91).

### Known disagreements that no run shows

Met while reading the code for the models; the models do what the code does.

* The cancel action clears `query_running` but never raises the worker's token
  (docs/architecture.md:162-163 says that it does; action_dispatch.rs:42-55).
  `AuditExact` and `OneExecutionAtATime` exempt the runs it disowns.
* The success of a reconnect resets the counter that is to bound reconnects
  (docs/architecture.md:142; connect.rs:127, query_execution.rs:41-44): a server
  that accepts connections and loses each statement is reconnected to forever.
  `Settles` exempts it.
* After a page without rows "Previous page" is offered (catalog.rs:121-122) and
  fails for want of a key boundary (pagination.rs:84-86, 176-177, 192).
* The digits 1 to 7 invoke actions and cannot be typed into the editor, although
  the manual test types `LIMIT 5;` (docs/manual-testing.md:228; lib_helpers.rs:431-437).
  Nor can they, or `?`, be typed into the search box of the results: the box does not
  capture them (handle.rs:20-48), so with the box open they invoke footer actions
  and toggle the help (lib_helpers.rs:414, 431-437). `SearchOnlyOverResults` says
  where the box may be open, not that it gets every key.
* After an append that ended inside a line, the record appended next is on the same
  line of `audit.ndjson`: `append` returns Ok for a record that no reader of
  "JSON-line records" (docs/manual-testing.md:422) gets back (audit_trail.rs:172-183).
* Only previews and page turns set the headers (pagination.rs:19, 47): the rows
  of a statement typed by hand are exported under the headers of the preview
  before, and their cells beyond the last header are left out (export.rs:72,
  166-175), although the action exports "current results" (catalog.rs:187, 192).
* Jumping to related tables does not cycle, as docs/manual-testing.md:303-304
  has it: the jump reloads the relationships, which resets the index it has just
  advanced (schema_traversal.rs:388, 417).
* The error panel swallows Ctrl+C: it neither cancels nor asks for the exit
  (handle.rs:188).

### What passing properties exempt, and why

* `Settles` exempts a demo query during whose countdown a connection comes up:
  it is left running with nothing to end it (`Stranded`).
* `AuditExact` and `OneExecutionAtATime` exempt runs that were started over a
  live one or disowned by the cancel action (`bypassed`), where the code drops
  receivers and audits twice.
* `NamedPageShown` and `TurnsAreContiguous` exempt pages whose statement was
  started again after a failure, which are shown under the number of the page
  before; and the tables have unique keys, because with a `*_id` column that
  repeats across a page boundary the next page skips rows.
* `CursorOnSelection` speaks of selected names that are listed: a jump, a bookmark
  or a default database may select one that a fresher catalog no longer has.
* SplitsAtSeparators is about the grammar the splitter implements. MySQL itself
  wants a blank behind `--` and knows backslashes and `/*!`; that difference is
  in the definition as in the code.
* `MarkersStayExclusive` exempts a connect to a profile that was renamed or
  deleted since it was asked for: saving it brings it and its marker back.
* `CursorStaysOnChosen` exempts the end of a connect that adds its profile while a
  rename is being typed: Enter then renames its neighbour. It and `StaysAttached`
  exempt a step whose change of the list could not be saved (`Unsaved`), and nothing
  else that a failed write leaves behind.
* `ImplementsLog` allows the record appended right after a torn one to be lost with
  it, and no other acknowledged record. `ArchivesContiguous` is about runs in
  which no call failed: a rotation cut short leaves a gap for good.
* SchemaExplorer does not tell apart two relationships of a table that differ only
  in their source column. No property depends on it.
* AuditTrail has one writer. Two instances of the program can each rotate and
  remove an archive that is not the oldest.

### Fairness

`run_loop` ticks for as long as it runs, so `Tick` is weakly fair; connect and
query workers are bounded by CONNECT_TIMEOUT and QUERY_TIMEOUT, so their ends are.
The disconnect that ends a connect worker has no timeout; that it returns is an
assumption. No key is ever assumed. In QueryStream the worker's own steps and the
timer are fair; a server need never answer, and nobody need cancel.

## 5. What is proved

The theorems hold for all values of the constants under the named assumptions
that the modules make of them, which TLC evaluates on every run; two of them
add a hypothesis, and say so below. Each proof module extends the module, or
the two, it is about. The properties of a specification are proved from an
inductive invariant, called `IInv` where there is one for all of them; two
theorems, `SplitterIsDefinition` and `SearchVisitsEveryHit`, are about what an
operator computes for every input. Most properties are not inductive alone; what
had to be added is what a reader of the code should know, and is described here.

**SessionProofs** (any statements, profiles and limits):

* `TypeCorrect`. One step per action; in particular both counters stay within
  their limits.
* `ParkedNotForgotten`. The invariant needs that a connect worker that is not
  idle has a profile and that a parked statement has one (`ConnectInv`).
* `ConsentHolds`, `OutcomesAttributed`, `AuditHolds`, `NoSecondExecution`,
  `PanelMeansIdle`, `CancelFinal`. None is inductive alone: that a retry runs a
  consented statement depends on `inflight` being what the worker ran, that on
  which steps may end a run, and that on whether the panel is open. `RunInv` is
  their conjunction with the shape of a run (`RunShape`) and with the statement
  that every field a statement can be restarted from holds one that was let
  through (`OnlyLetThrough`). The lemma `StepKinds` sorts the actions by what
  they do to a run, so that each conjunct is proved per kind and not per action.
* `GuardHolds` needs no invariant: only a statement that is executed, Enter on the
  open question and the safe mode switch touch what is asked or consented to
  (`GuardSteps`), and a statement is blocked when the current profile is read-only.

**StatementProofs** (any text; any capacity and number of rows) is about the two
modules a statement passes through, the guard and the worker.

* `SplitterIsDefinition`: `Statements(t) = Pieces(t)` for every text, and
  `TextIsSplitAtSeparators`, the property of the run. The argument has three parts.
  The scanner, started outside of quotes and comments, goes through one lexeme and
  is outside again right behind it and nowhere within (`LexemeTraversed`, with one
  lemma per kind of lexeme; this is where the character read ahead and the
  comment that a star must not close at once are settled). The positions where it
  is outside therefore satisfy the definition of `Lexemes`, which at most one set
  does (`LexemesAreTraversed`). So each character ends a statement, is passed over
  or is taken, as it is a separator, part of a comment or neither (`TurnsFit`), and
  the state after i characters is what the definition makes of them: the current
  statement is what is kept since the last separator, the statements are the
  pieces before it (`Agrees`, by induction on i).
* `QuestionStaysLive`. That the open question's token is in the guard's map, under
  the question's own text, is inductive as it stands, for any texts and any nonce
  limit. Session takes it for granted: its Enter never fails.
* `StreamTyping`, `StopSoon`, `IndicesRight` and the refinement `KeepsContract`, of
  QueryStream. The invariant `StreamInv` says that the buffer is always the last
  Capacity rows (`BufferIsLast`), which rests on `PushKeepsLast`: pushing into the
  last rows gives the last rows of the longer sequence.

**AuditTrailProofs** (any file size, number of archives and of records):

* `Typing`. The names stand for different files, an append creates one file at
  most and writes to the one called `audit.ndjson`, and a rename finds its new
  name free, so that no file is ever overwritten (`IInv`).
* `SizesAreBounded`. Between the size check and the last write the current file
  needs room for what is still to come: a whole record, its second half or its newline
  (`RoomLeft`).
* `ArchivesStayContiguous`. During a rotation there is a gap, and it is where the
  loop is: `DenseAroundGap` while it renames, `DenseArchives` until the file is
  opened again. A failing call leaves the gap for good, which the property exempts.
* `KeepsLog`, the refinement of AuditLog, failing calls and crashes included.
  The first write begins its record on the open line, the newline acknowledges it,
  `PurgeOldest` forgets the records of the oldest file, which are the first of the
  trail, the rename of the current file puts its open line away, and the other steps
  leave the log as it is. Three things make it inductive: bytes come into the files
  in the order in which records were made, so that neither the log nor the open line
  has a record before it is written (`InOrder`); until the newline, the open line is
  whatever an earlier append left there followed by the bytes of this one (`LineInv`);
  so, when the newline is written, the line is the record's text exactly if nothing
  was left there (`Closing`). The rest is lemmas on reading by lines (what one more
  byte does to what was read, `ReadAppend`) and on strung-together sequences: of one
  that gets a piece more, loses its first, or has a piece moved over an empty one.
* `NothingIsMissing`, which the refinement does not say: unless a call failed, the
  trail is the consecutive records up to the last one acknowledged
  (`NothingMissing`). It rests on `WholeLines`: until a call fails every append finds
  the line closed. After a failed call it need not hold: the record of that append
  and the one after it may be missing.

**PaginationProofs** (any sorted keys, any page size):

* `Typing` and `TransitionsHaveTheirStatement`. While a page turn is pending the
  statement in flight is the one of that turn and nothing has failed since
  (`PendingInv`): whatever may start another statement clears the turn first.
* `NamedPagesAreShown` and `PagesTurnContiguously`, under the further hypothesis
  `KeysAreUnique`, without which both are false: of equal keys across a page
  boundary the next page skips the second. That is the hazard listed for
  `lib_helpers.rs:313`, and the run's table has unique keys. `KeysMatch` says that
  the stored boundaries are the keys of the first and last row of the page named,
  `ShownInv` that the rows shown are of the page named and that there are none
  while a turn is pending. `NextPageByKey` and `PreviousPageByKey` are the reason that
  keyset and offset plans show the same pages.

**ProfileManagerProofs** (any finite set of names, any flags): `Typing`,
`MemoryIsTheFile`, `MarkersAreExclusive`, `AttachmentSurvives`,
`RenameStaysOnChosen`. The invariant adds to the types only that a store that
could not be opened is empty (`ClosedIsEmpty`). The action properties are proved
per writing operation: each has a lemma on what it leaves in memory and in the
file when the persist succeeds, is refused or is cut short, and steps that only
read are done once.

**SchemaExplorerProofs** (any catalogs whose names differ, any filters and
bookmarks): `Typing`, `CursorShowsSelection`, `ListsAreOfSelection`,
`PagesAreOfSelection`. `Consistent` holds of the explorer between keys: indices
are in range and lead to the selection, the lists and relationships are those some
catalog has for it. A handler is a chain of reloads, and in between `Consistent`
does not hold: the lemmas say what each reload needs and restores, in the order in
which the code calls them.

**WorkbenchProofs** (any answers whose rows are equally long, any headers and any
wizard fields): `Typing`, `CursorsStayOnCells`, `SearchStaysOverResults`,
`EditsBelongToFields`. Cursors are proved per operator of ResultsView (`GoodView`
in, `GoodView` out), so that a step of Workbench needs only the list of operators it
applies. The wizard's buffer is that of the current field exactly while it is
edited (`FormOwnsBuffer`). `SearchVisitsEveryHit`: pressing Enter in the search as
often as there are rows puts the cursor on every row that matches. The search goes
to the first hit behind the cursor, round the end, so each Enter reaches a given
hit or gets nearer to it (`Gap`, `FirstFromNears`).

**QueryEditorProofs** (any alphabet in which no byte both starts and continues a
character, any history cap): `Typing` and `CursorStaysOnBoundary`. Every
operation on the text is shown to give a well-formed text and to put the cursor
before one of its characters or at the end; the clamp in the code is shown never
to be needed (`CursorType`).

Induction. The library's induction theorems take an operator as parameter, which
the provers at hand cannot instantiate. Where an argument over numbers is needed
(sums of lengths, sequences strung together, the text of a statement read
character by character), it goes by sets: a set of numbers
that is not all of them has a least one outside (`LeastNatural`, from the
well-foundedness of the order, then `InductionOnSet`).

Model-checked only:

* liveness, `Settles` and `Terminates`: fairness is out of this prover's reach;
* the failing runs, which are counterexamples.

## 6. What is not modelled

Left out of the modules above: health diagnostics beyond their failure, the
performance overlay, the demo rows of pagination, the schema queries and the
connection set-up of `mysql.rs`, the saving of bookmarks, and the text of the
one-line inputs (filter, rename, search, palette), which are a set of names, a
set of values or only open or not.

Modelled as one step of something else: the connection manager, which each worker
owns, uses once in sequence and then drops (Session has its outcome); the age of
the schema cache (SchemaExplorer lets every call be answered by any catalog).

Sequential parts without a hazard of their own: the bookmark store, which repeats
the profile store without markers and migration; the ranking of actions, which
orders a list; the command line, whose subcommands each make one connect and one
call.

Not planned: rendering (a pure function of the state), export (sequential
formatting and I/O), the benchmark binary, the TOML and JSON encodings, SQL
quoting, and the MySQL protocol, which is the client library's. Time appears only
as the events it causes.
