------------------------------ MODULE Pagination ------------------------------
(***************************************************************************)
(* Paging through the preview of one table: the page transition waiting    *)
(* for its statement, the statement's outcome, and everything that comes   *)
(* between them: failures that are retried, parked or re-run from the      *)
(* error panel, cancellation, reconnects and moves of the schema cursor.   *)
(*                                                                         *)
(* The table is a sequence of key values in the server's order and does    *)
(* not change; a statement is the set of row positions the server answers  *)
(* it with.  Session models the workers and the retry counters; here a     *)
(* failure may be retried, parked or shown, whichever Session allows.      *)
(***************************************************************************)
EXTENDS Naturals, Sequences, FiniteSets, FiniteSetsExt

CONSTANTS
  Keys,     \* the key column's values, by row position
  PageSize  \* PREVIEW_PAGE_SIZE

Positions == DOMAIN Keys

ASSUME KeysAssumption ==
  /\ Keys \in Seq(Nat \ {0})
  /\ \A i, j \in Positions : i < j => Keys[i] <= Keys[j]
ASSUME PageSizeAssumption == PageSize \in Nat \ {0}

NoKey     == 0        \* first_key or last_key is None
OtherRows == {Len(Keys) + 1}  \* any statement that is not a page of the table
None      == {0}   \* no statement
NoPages   == [plan |-> "none"]

VARIABLES
  pages,      \* pagination_state
  pending,    \* pending_page_transition
  results,    \* the rows of TuiApp.results
  running,    \* query_running
  inflight,   \* the statement whose outcome query_result_rx will carry
  cancel,     \* "asked": cancel_requested; "token": and its token is raised
  lastFailed, \* last_failed_query
  parked,     \* pending_retry_query
  panel,      \* error_panel
  restarted   \* history: the last statement was started again after a failure

pageVars   == <<pages, pending>>
replayVars == <<lastFailed, parked>>
vars == <<pages, pending, results, running, inflight, cancel, lastFailed, parked,
          panel, restarted>>

Key  == panel = "none"
Idle == Key /\ ~running

-----------------------------------------------------------------------------
(* The server: what each generated statement selects. *)

Lowest(S, n)  == {i \in S : Cardinality({j \in S : j <= i}) <= n}
Highest(S, n) == {i \in S : Cardinality({j \in S : j >= i}) <= n}

KeysetFirstPage    == Lowest(Positions, PageSize)

(* Seeded fault: LIMIT asks for one row too many. *)
KeysetNextPageAndOne(k) == Lowest({i \in Positions : Keys[i] > k}, PageSize + 1)

KeysetNextPage(k) == Lowest({i \in Positions : Keys[i] > k}, PageSize)
KeysetPreviousPage(k) == Highest({i \in Positions : Keys[i] < k}, PageSize)
OffsetPage(index) ==
  {i \in Positions : index * PageSize < i /\ i <= (index + 1) * PageSize}

(* Whether pagination_sql finds the boundary it needs, and what it builds.  *)
HasSql(transition) ==
  pages.plan = "keyset" =>
    /\ transition = "next" => pages.last # NoKey
    /\ transition = "previous" => pages.first # NoKey

(* Seeded fault: the previous page is looked up from the page's last key.   *)
PageSqlFromLastKey(transition) ==
  IF pages.plan = "keyset"
  THEN IF transition = "next" THEN KeysetNextPage(pages.last)
       ELSE KeysetPreviousPage(pages.last)
  ELSE OffsetPage(IF transition = "next" THEN pages.index + 1 ELSE pages.index - 1)

PageSql(transition) ==
  IF pages.plan = "keyset"
  THEN IF transition = "next" THEN KeysetNextPage(pages.last)
       ELSE KeysetPreviousPage(pages.first)
  ELSE OffsetPage(IF transition = "next" THEN pages.index + 1 ELSE pages.index - 1)

(* Seeded fault: any shown page can be followed. *)
CanPageNextWhileRows == pages # NoPages /\ results # {}

(* pagination_capabilities, and the guard of run_pagination_transition *)
CanPageNext == pages # NoPages /\ results # {} /\ pages.count >= PageSize
CanPagePrevious == pages # NoPages /\ pages.index > 0
-----------------------------------------------------------------------------
PagesRecord(plans) ==
  [plan : plans, index : Nat, count : 0 .. PageSize,
   first : Nat, last : Nat]

TypeOK ==
  /\ pages = NoPages \/ pages \in PagesRecord({"keyset", "offset"})
  /\ pending \in {"none", "reset", "next", "previous"}
  /\ results \subseteq Positions \union OtherRows
  /\ running \in BOOLEAN
  /\ \A statement \in {inflight, lastFailed, parked} :
       statement = None \/ statement \subseteq Positions \union OtherRows
  /\ cancel \in {"no", "asked", "token"}
  /\ panel \in {"none", "query", "connection"}
  /\ restarted \in BOOLEAN

Init ==
  /\ pages = NoPages
  /\ pending = "none"
  /\ results = {}
  /\ running = FALSE
  /\ inflight = None
  /\ cancel = "no"
  /\ lastFailed = None
  /\ parked = None
  /\ panel = "none"
  /\ restarted = FALSE

(* start_query_internal as far as paging goes. *)
Launch(statement) ==
  /\ running' = TRUE
  /\ inflight' = statement
  /\ results' = {}
  /\ cancel' = "no"
  /\ panel' = "none"

Start(statement) ==
  /\ Launch(statement)
  /\ lastFailed' = None
  /\ parked' = None

(* start_preview_paged_query: candidate_key_column decides on the plan.     *)
PreviewTable(plan) ==
  /\ Idle
  /\ pages' = [plan |-> plan, index |-> 0, count |-> 0, first |-> NoKey, last |-> NoKey]
  /\ pending' = "reset"
  /\ Start(IF plan = "keyset" THEN KeysetFirstPage ELSE OffsetPage(0))
  /\ restarted' = FALSE

(* Seeded fault: moving the cursor forgets the table but not the transition. *)
ForgetTableOnly == pages' = NoPages /\ UNCHANGED pending

ForgetPages == pages' = NoPages /\ pending' = "none"

TurnPage(transition) ==
  /\ Idle
  /\ IF transition = "next" THEN CanPageNext ELSE CanPagePrevious
  /\ HasSql(transition)
  /\ pending' = transition
  /\ Start(PageSql(transition))
  /\ restarted' = FALSE
  /\ UNCHANGED pages

(* Any other statement the guard lets through. *)
RunOther ==
  /\ Idle
  /\ ForgetPages
  /\ Start(OtherRows)
  /\ restarted' = FALSE

(* The schema cursor, a schema filter, a related table or a bookmark; also  *)
(* a statement the guard blocks or asks about.                              *)
MoveSelection ==
  /\ Key
  /\ ForgetPages
  /\ UNCHANGED <<results, running, inflight, cancel, replayVars, panel, restarted>>

CancelWorker ==
  /\ Key /\ running
  /\ inflight # None
  /\ cancel' = "token"
  /\ UNCHANGED <<pageVars, results, running, inflight, replayVars, panel, restarted>>

CancelAction ==
  /\ Key /\ running
  /\ running' = FALSE
  /\ cancel' = IF cancel = "no" THEN "asked" ELSE cancel
  /\ UNCHANGED <<pageVars, results, inflight, replayVars, panel, restarted>>

RunHealthDiagnostics ==
  /\ Idle
  /\ panel' \in {"query", "connection"}
  /\ UNCHANGED <<pageVars, results, running, inflight, cancel, replayVars, restarted>>

DismissPanel ==
  /\ ~Key
  /\ panel' = "none"
  /\ UNCHANGED <<pageVars, results, running, inflight, cancel, replayVars, restarted>>

RetryFromPanel ==
  /\ panel = "query"
  /\ lastFailed # None
  /\ Start(lastFailed)
  /\ restarted' = TRUE
  /\ UNCHANGED pageVars
-----------------------------------------------------------------------------
(* The outcome: finalize_pagination_after_query over the rows that came.    *)

Turned(transition, rows) ==
  CASE transition = "reset" -> 0
    [] transition # "reset" /\ rows = {} -> pages.index
    [] transition = "next" /\ rows # {} -> pages.index + 1
    [] transition = "previous" /\ rows # {} ->
         IF pages.index = 0 THEN 0 ELSE pages.index - 1

(* extract_key_bounds *)
FirstKey(rows) == IF rows = {} THEN NoKey ELSE Keys[Min(rows)]
LastKey(rows)  == IF rows = {} THEN NoKey ELSE Keys[Max(rows)]

Finalized(rows) ==
  IF pending = "none" \/ pages = NoPages
  THEN pages
  ELSE [plan  |-> pages.plan,
        index |-> Turned(pending, rows),
        count |-> Cardinality(rows),
        first |-> IF pages.plan = "keyset" THEN FirstKey(rows) ELSE pages.first,
        last  |-> IF pages.plan = "keyset" THEN LastKey(rows) ELSE pages.last]

(* A raised token lets through the rows that arrived before it was seen.    *)
Answers == IF cancel = "token" THEN {Lowest(inflight, n) : n \in 0 .. Cardinality(inflight)}
           ELSE {inflight}

QuerySucceeded ==
  /\ inflight # None
  /\ \E rows \in Answers :
       /\ results' = rows
       /\ pages' = Finalized(rows)
  /\ pending' = "none"
  /\ running' = FALSE
  /\ inflight' = None
  /\ cancel' = "no"
  /\ lastFailed' = None
  /\ UNCHANGED <<parked, panel, restarted>>

(* Seeded fault: a failure leaves the transition to whatever runs next. *)
TransitionKept == pending

(* pending_page_transition after a failure. *)
TransitionAfterFailure == "none"

QueryRetried ==
  /\ inflight # None
  /\ cancel = "no"
  /\ pending' = TransitionAfterFailure
  /\ Launch(inflight)
  /\ restarted' = TRUE
  /\ UNCHANGED <<pages, replayVars>>

QueryParked ==
  /\ inflight # None
  /\ cancel = "no"
  /\ pending' = TransitionAfterFailure
  /\ running' = FALSE
  /\ parked' = inflight
  /\ inflight' = None
  /\ panel' = "none"
  /\ UNCHANGED <<pages, results, cancel, lastFailed, restarted>>

QueryFailed ==
  /\ inflight # None
  /\ pending' = TransitionAfterFailure
  /\ running' = FALSE
  /\ lastFailed' = inflight
  /\ parked' = None
  /\ inflight' = None
  /\ cancel' = "no"
  /\ panel' = "query"
  /\ UNCHANGED <<pages, results, restarted>>

(* A connection comes up, asked for by the user or by a parked statement.   *)
ConnectSucceeded ==
  /\ ForgetPages
  /\ \/ /\ parked # None
        /\ Start(parked)
        /\ restarted' = TRUE
     \/ /\ panel' = "none"
        /\ UNCHANGED <<results, running, inflight, cancel, replayVars, restarted>>

ConnectFailed ==
  /\ parked' = None
  /\ panel' = "connection"
  /\ UNCHANGED <<pageVars, results, running, inflight, cancel, lastFailed, restarted>>

Next ==
  \/ \E plan \in {"keyset", "offset"} : PreviewTable(plan)
  \/ \E transition \in {"next", "previous"} : TurnPage(transition)
  \/ RunOther \/ MoveSelection
  \/ CancelWorker \/ CancelAction
  \/ RunHealthDiagnostics \/ DismissPanel \/ RetryFromPanel
  \/ QuerySucceeded \/ QueryRetried \/ QueryParked \/ QueryFailed
  \/ ConnectSucceeded \/ ConnectFailed

Spec == Init /\ [][Next]_vars

-----------------------------------------------------------------------------
(* The page the header names (pane_results.rs:35-40) is the page shown, or  *)
(* the part of it that arrived before a cancel, unless the statement was    *)
(* started again after a failure.                                           *)
ShowsNamedPage ==
  pages # NoPages =>
    \E n \in 0 .. PageSize : results = Lowest(OffsetPage(pages.index), n)

NamedPageShown == ~restarted => ShowsNamedPage

(* Whatever page is shown, in full or in part, by key or by offset, the     *)
(* page before it and the page after it are what the keys turn to.          *)
TurnsAreContiguous ==
  results # {} /\ ~restarted =>
    /\ CanPageNext =>
         HasSql("next") /\ PageSql("next") = OffsetPage(pages.index + 1)
    /\ CanPagePrevious =>
         HasSql("previous") /\ PageSql("previous") = OffsetPage(pages.index - 1)

(* A transition is pending exactly for the statement it was asked for: no   *)
(* failure, cancel or cursor move leaves one to a later statement.          *)
TransitionHasItsStatement ==
  pending # "none" =>
    /\ pages # NoPages
    /\ inflight = IF pending = "reset" THEN OffsetPage(0) ELSE PageSql(pending)
=============================================================================
