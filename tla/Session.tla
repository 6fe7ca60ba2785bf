------------------------------- MODULE Session -------------------------------
(***************************************************************************)
(* The runtime of the terminal UI: the connection it holds, the statement  *)
(* it executes, and the two kinds of worker threads that do the waiting.   *)
(*                                                                         *)
(* One UI thread owns every field of TuiApp.  It handles one key at a time *)
(* and, every TICK_RATE, a Tick that polls the connect worker's channel,   *)
(* then the query worker's channel, then the demo countdown.  Workers run  *)
(* concurrently and may deliver between any two of those polls, so a Tick  *)
(* is three steps here and "phase" says which comes next.                  *)
(*                                                                         *)
(* What the user's panes, palettes and cursors only route is abstracted: a *)
(* key action is enabled whenever some sequence of pane changes makes the  *)
(* handler reachable.  Statements are members of Sql; all that matters of  *)
(* one is whether safe_mode.rs assesses it as read-only.                   *)
(***************************************************************************)
EXTENDS Naturals, FiniteSets

CONSTANTS
  Sql,                \* the statements that occur
  ReadSql,            \* those assess_sql_safety finds no risk in
  NoSql,              \* None, or an empty editor
  Profiles,           \* connection profiles
  ReadOnly,           \* the profiles with read_only = true
  NoProfile,
  QueryRetryLimit,    \* QUERY_RETRY_LIMIT
  AutoReconnectLimit, \* AUTO_RECONNECT_LIMIT
  DemoTicks           \* QUERY_DURATION_TICKS

ASSUME SqlAssumption ==
  /\ ReadSql \subseteq Sql
  /\ ReadSql # {}
  /\ NoSql \notin Sql
ASSUME ProfileAssumption ==
  /\ ReadOnly \subseteq Profiles
  /\ NoProfile \notin Profiles
ASSUME LimitAssumption ==
  /\ QueryRetryLimit \in Nat
  /\ AutoReconnectLimit \in Nat
  /\ DemoTicks \in Nat

VARIABLES
  phase,             \* what the UI thread does next
  editor,            \* query_editor_text
  safeMode,          \* safe_mode_guard.is_enabled()
  pendingConfirm,    \* the statement of pending_confirmation
  active,            \* active_connection_profile; data_backend is open on it
  lastProfile,       \* last_connect_profile
  connect,           \* connect_requested, connect_intent and the connect worker
  worker,            \* the query worker behind query_result_rx
  orphans,           \* what workers execute whose receiver was dropped
  running,           \* query_running
  cancelRequested,   \* cancel_requested
  ticks,             \* query_ticks_remaining
  inflight,          \* inflight_query_sql
  lastFailed,        \* last_failed_query
  pendingRetry,      \* pending_retry_query
  retryAttempts,     \* query_retry_attempts
  reconnectAttempts, \* reconnect_attempts
  panel,             \* the kind of the open error panel
  consented,         \* history: risky statements the user let through
  ledger,            \* history: per statement, audit records started and ended
  bypassed           \* history: a run was started or disowned over a live one

vars == <<phase, editor, safeMode, pendingConfirm, active, lastProfile, connect,
          worker, orphans, running, cancelRequested, ticks, inflight, lastFailed,
          pendingRetry, retryAttempts, reconnectAttempts, panel, consented,
          ledger, bypassed>>

guardVars   == <<safeMode, pendingConfirm>>
profileVars == <<active, lastProfile>>
threadVars  == <<worker, orphans>>
replayVars  == <<lastFailed, pendingRetry>>
countVars   == <<retryAttempts, reconnectAttempts>>
history     == <<consented, ledger, bypassed>>

SqlOrNone     == Sql \union {NoSql}
ProfileOrNone == Profiles \union {NoProfile}

(***************************************************************************)
(* How a query worker can end: the streamed result, the cancelled stream,  *)
(* QUERY_TIMEOUT, an error naming a lost connection, an error naming one   *)
(* that was never there, any other error, or a thread that died with its   *)
(* channel (TryRecvError::Disconnected).                                   *)
(***************************************************************************)
Completed == {"ok", "cancelled"}
Failed    == {"timeout", "lost", "notConnected", "rejected", "died"}

Transient(f)      == f \in {"timeout", "lost"}
ConnectionLost(f) == f \in {"lost", "notConnected"}

WorkerRecord == [status : {"none", "running"} \union Completed \union Failed,
                 sql : SqlOrNone, on : ProfileOrNone, cancelled : BOOLEAN]

NoWorker == [status |-> "none", sql |-> NoSql, on |-> NoProfile, cancelled |-> FALSE]

(* What a worker does to the server it is connected to. *)
Execution(w) == [sql |-> w.sql, on |-> w.on]

Fresh(s, p) == [status |-> "running", sql |-> s, on |-> p, cancelled |-> FALSE]

ConnectRecord == [status : {"idle", "pending", "ok", "failed"},
                  profile : ProfileOrNone, intent : {"manual", "auto"}]

NoConnect == [status |-> "idle", profile |-> NoProfile, intent |-> "manual"]

TypeOK ==
  /\ phase \in {"keys", "query", "demo"}
  /\ editor \in SqlOrNone
  /\ safeMode \in BOOLEAN
  /\ pendingConfirm \in SqlOrNone
  /\ active \in ProfileOrNone
  /\ lastProfile \in ProfileOrNone
  /\ connect \in ConnectRecord
  /\ worker \in WorkerRecord
  /\ orphans \subseteq [sql : SqlOrNone, on : ProfileOrNone]
  /\ running \in BOOLEAN
  /\ cancelRequested \in BOOLEAN
  /\ ticks \in 0 .. DemoTicks
  /\ inflight \in SqlOrNone
  /\ lastFailed \in SqlOrNone
  /\ pendingRetry \in SqlOrNone
  /\ retryAttempts \in 0 .. QueryRetryLimit
  /\ reconnectAttempts \in 0 .. AutoReconnectLimit
  /\ panel \in {"none", "connection", "query"}
  /\ consented \subseteq Sql
  /\ ledger \in [Sql -> {"closed", "open", "broken"}]
  /\ bypassed \in BOOLEAN

Init ==
  /\ phase = "keys"
  /\ editor \in ReadSql
  /\ safeMode = TRUE
  /\ pendingConfirm = NoSql
  /\ active = NoProfile
  /\ lastProfile = NoProfile
  /\ connect = NoConnect
  /\ worker = NoWorker
  /\ orphans = {}
  /\ running = FALSE
  /\ cancelRequested = FALSE
  /\ ticks = 0
  /\ inflight = NoSql
  /\ lastFailed = NoSql
  /\ pendingRetry = NoSql
  /\ retryAttempts = 0
  /\ reconnectAttempts = 0
  /\ panel = "none"
  /\ consented = {}
  /\ ledger = [s \in Sql |-> "closed"]
  /\ bypassed = FALSE

-----------------------------------------------------------------------------
(* The audit trail, as what its records say of one statement: every Started *)
(* must be followed by exactly one record that ends it.                     *)

Opened(l, s) ==
  [l EXCEPT ![s] = IF @ = "closed" THEN "open" ELSE "broken"]

Ended(l, s) ==
  IF s = NoSql THEN l
  ELSE [l EXCEPT ![s] = IF @ = "open" THEN "closed" ELSE "broken"]

(* Seeded fault: the editor's text is taken for the statement that ran. *)
AuditedFromEditor == editor

(* The statement a worker's outcome is attributed to, and re-run as. *)
Audited == IF inflight # NoSql THEN inflight ELSE editor

(* Dropping query_result_rx does not stop the thread behind it. *)
Detach ==
  IF worker.status = "running" THEN orphans \union {Execution(worker)} ELSE orphans

(* Seeded fault: the panel the statement was started from stays open. *)
LaunchKeepsPanel(s, p) ==
  /\ inflight' = s /\ editor' = s
  /\ running' = TRUE /\ cancelRequested' = FALSE
  /\ panel' = panel
  /\ worker' = IF p = NoProfile THEN NoWorker ELSE Fresh(s, p)
  /\ ticks' = IF p = NoProfile THEN DemoTicks ELSE 0

(* The part of start_query_internal common to first runs and retries: with  *)
(* a backend it spawns a worker, without one it starts the demo countdown.  *)
Launch(s, p) ==
  /\ inflight' = s
  /\ editor' = s
  /\ running' = TRUE
  /\ cancelRequested' = FALSE
  /\ panel' = "none"
  /\ worker' = IF p = NoProfile THEN NoWorker ELSE Fresh(s, p)
  /\ ticks' = IF p = NoProfile THEN DemoTicks ELSE 0

StartQuery(s, p) ==
  /\ Launch(s, p)
  /\ retryAttempts' = 0
  /\ reconnectAttempts' = 0
  /\ lastFailed' = NoSql
  /\ pendingRetry' = NoSql
  /\ orphans' = Detach
  /\ ledger' = Opened(ledger, s)
  /\ bypassed' = (bypassed \/ running \/ worker # NoWorker)

StartConnect(p, intent) ==
  /\ connect' = [status |-> "pending", profile |-> p, intent |-> intent]
  /\ lastProfile' = p

ReconnectProfile == IF active # NoProfile THEN active ELSE lastProfile

CurrentProfileReadOnly == ReconnectProfile \in ReadOnly

-----------------------------------------------------------------------------
(* Keys.  All of them need the error panel closed but the panel's own.      *)

Key      == phase = "keys" /\ panel = "none"
PanelKey == phase = "keys" /\ panel # "none"

(* Typing, history recall, snippets, bookmarks and schema navigation all    *)
(* replace the editor's text; none of them looks at pending_confirmation.   *)
EditStatement(s) ==
  /\ Key
  /\ editor' = s
  /\ UNCHANGED <<phase, guardVars, profileVars, connect, threadVars, running,
                 cancelRequested, ticks, inflight, replayVars, countVars, panel,
                 history>>

(* What RunCurrentQuery takes from the editor, and the actions that generate *)
(* a read-only statement (preview, paging, describe, explain, count).        *)
Runnable == ReadSql \union ({editor} \ {NoSql})

(* Seeded fault: switching safe mode off lifts the profile's block too. *)
BlockedInSafeMode(s) == safeMode /\ CurrentProfileReadOnly /\ s \notin ReadSql

Blocked(s) == CurrentProfileReadOnly /\ s \notin ReadSql

StatementBlocked(s) ==
  /\ Key /\ ~running /\ s \in Runnable
  /\ Blocked(s)
  /\ pendingConfirm' = NoSql
  /\ UNCHANGED <<phase, editor, safeMode, profileVars, connect, threadVars,
                 running, cancelRequested, ticks, inflight, replayVars, countVars,
                 panel, history>>

Allowed(s) == s \in ReadSql \/ ~safeMode

StatementAllowed(s) ==
  /\ Key /\ ~running /\ s \in Runnable
  /\ ~Blocked(s)
  /\ Allowed(s)
  /\ pendingConfirm' = NoSql
  /\ StartQuery(s, active)
  /\ consented' = IF safeMode \/ s \in ReadSql THEN consented ELSE consented \union {s}
  /\ UNCHANGED <<phase, safeMode, profileVars, connect>>

StatementNeedsConfirmation(s) ==
  /\ Key /\ ~running /\ s \in Runnable
  /\ ~Blocked(s)
  /\ ~Allowed(s)
  /\ pendingConfirm' = s
  /\ editor' = s
  /\ UNCHANGED <<phase, safeMode, profileVars, connect, threadVars, running,
                 cancelRequested, ticks, inflight, replayVars, countVars, panel,
                 history>>

(* Enter in the editor while a confirmation is pending: it runs the pending *)
(* statement whatever the editor, the profile or query_running now say.     *)
ConfirmStatement ==
  /\ Key
  /\ pendingConfirm # NoSql
  /\ pendingConfirm' = NoSql
  /\ StartQuery(pendingConfirm, active)
  /\ consented' = consented \union {pendingConfirm}
  /\ UNCHANGED <<phase, safeMode, profileVars, connect>>

ToggleSafeMode ==
  /\ Key
  /\ safeMode' = ~safeMode
  /\ pendingConfirm' = NoSql
  /\ UNCHANGED <<phase, editor, profileVars, connect, threadVars, running,
                 cancelRequested, ticks, inflight, replayVars, countVars, panel,
                 history>>

(* F5 in the wizard or in the manager. *)
Connect(p) ==
  /\ Key
  /\ connect = NoConnect
  /\ StartConnect(p, "manual")
  /\ reconnectAttempts' = 0
  /\ UNCHANGED <<phase, editor, guardVars, active, threadVars, running,
                 cancelRequested, ticks, inflight, replayVars, retryAttempts, panel,
                 history>>

(* Enter on a profile of the manager only loads it into the wizard. *)
OpenProfile(p) ==
  /\ Key
  /\ lastProfile' = p
  /\ UNCHANGED <<phase, editor, guardVars, active, connect, threadVars, running,
                 cancelRequested, ticks, inflight, replayVars, countVars, panel,
                 history>>

(* Ctrl+C with a worker attached raises the worker's token... *)
CancelWorker ==
  /\ Key /\ running
  /\ worker # NoWorker
  /\ cancelRequested' = TRUE
  /\ worker' = [worker EXCEPT !.cancelled = TRUE]
  /\ UNCHANGED <<phase, editor, guardVars, profileVars, connect, orphans, running,
                 ticks, inflight, replayVars, countVars, panel, history>>

(* ...and without one ends the demo query on the spot. *)
CancelDemo ==
  /\ Key /\ running
  /\ worker = NoWorker
  /\ cancelRequested' = TRUE
  /\ running' = FALSE
  /\ ticks' = 0
  /\ ledger' = Ended(ledger, inflight)
  /\ UNCHANGED <<phase, editor, guardVars, profileVars, connect, threadVars,
                 inflight, replayVars, countVars, panel, consented, bypassed>>

(* The cancel action of the palette and of the footer: it clears            *)
(* query_running and writes the record, but leaves the receiver and the     *)
(* token alone.                                                             *)
CancelAction ==
  /\ Key /\ running
  /\ cancelRequested' = TRUE
  /\ running' = FALSE
  /\ ticks' = 0
  /\ ledger' = Ended(ledger, inflight)
  /\ bypassed' = (bypassed \/ worker # NoWorker)
  /\ UNCHANGED <<phase, editor, guardVars, profileVars, connect, threadVars,
                 inflight, replayVars, countVars, panel, consented>>

(* Health diagnostics run a smoke query on the UI thread and report. *)
RunHealthDiagnostics ==
  /\ Key /\ ~running
  /\ panel' \in IF active = NoProfile THEN {"connection"}
                ELSE {"none", "connection", "query"}
  /\ UNCHANGED <<phase, editor, guardVars, profileVars, connect, threadVars, running,
                 cancelRequested, ticks, inflight, replayVars, countVars, history>>

-----------------------------------------------------------------------------
(* The error panel's keys. *)

DismissPanel ==
  /\ PanelKey
  /\ panel' = "none"
  /\ UNCHANGED <<phase, editor, guardVars, profileVars, connect, threadVars, running,
                 cancelRequested, ticks, inflight, replayVars, countVars, history>>

RetryFailedQuery ==
  /\ PanelKey
  /\ panel = "query" /\ lastFailed # NoSql
  /\ StartQuery(lastFailed, active)
  /\ UNCHANGED <<phase, guardVars, profileVars, connect, consented>>

(* F5, or the primary action when there is no failed query to re-run: the   *)
(* profile is the active one, else the last one, else the wizard's form.    *)
ReconnectFromPanel ==
  /\ PanelKey
  /\ connect = NoConnect
  /\ \E p \in IF ReconnectProfile # NoProfile THEN {ReconnectProfile} ELSE Profiles :
       StartConnect(p, "manual")
  /\ panel' = "none"
  /\ reconnectAttempts' = 0
  /\ UNCHANGED <<phase, editor, guardVars, active, threadVars, running,
                 cancelRequested, ticks, inflight, replayVars, retryAttempts,
                 history>>
-----------------------------------------------------------------------------
(* Tick, first poll: the connect worker's channel. *)

ConnectNotReady ==
  /\ phase = "keys"
  /\ connect.status \in {"idle", "pending"}
  /\ phase' = "query"
  /\ UNCHANGED <<editor, guardVars, profileVars, connect, threadVars, running,
                 cancelRequested, ticks, inflight, replayVars, countVars, panel,
                 history>>

(* apply_connected_profile swaps the backend and profile, and may put the   *)
(* selected table's SELECT into the editor; a parked statement, if this was *)
(* an auto-reconnect, starts again at once.                                 *)
ConnectSucceeded ==
  /\ phase = "keys"
  /\ connect.status = "ok"
  /\ phase' = "query"
  /\ active' = connect.profile
  /\ lastProfile' = connect.profile
  /\ connect' = NoConnect
  /\ UNCHANGED guardVars
  /\ \/ /\ connect.intent = "auto" /\ pendingRetry # NoSql
        /\ StartQuery(pendingRetry, connect.profile)
        /\ UNCHANGED consented
     \/ /\ ~(connect.intent = "auto" /\ pendingRetry # NoSql)
        /\ editor' \in {editor} \union ReadSql
        /\ panel' = "none"
        /\ reconnectAttempts' = 0
        /\ UNCHANGED <<threadVars, running, cancelRequested, ticks, inflight,
                       replayVars, retryAttempts, history>>

ReconnectAgain ==
  /\ phase = "keys"
  /\ connect.status = "failed"
  /\ connect.intent = "auto" /\ reconnectAttempts < AutoReconnectLimit
  /\ phase' = "query"
  /\ reconnectAttempts' = reconnectAttempts + 1
  /\ StartConnect(ReconnectProfile, "auto")
  /\ panel' = "none"
  /\ UNCHANGED <<editor, guardVars, active, threadVars, running, cancelRequested,
                 ticks, inflight, replayVars, retryAttempts, history>>

(* Seeded fault: giving up leaves the statement parked. *)
GiveUpKeepsParked == pendingRetry

(* pending_retry_query after the last reconnect attempt failed. *)
GiveUpParked == NoSql

ConnectFailed ==
  /\ phase = "keys"
  /\ connect.status = "failed"
  /\ ~(connect.intent = "auto" /\ reconnectAttempts < AutoReconnectLimit)
  /\ phase' = "query"
  /\ connect' = NoConnect
  /\ pendingRetry' = GiveUpParked
  /\ reconnectAttempts' = 0
  /\ panel' = "connection"
  /\ UNCHANGED <<editor, guardVars, profileVars, threadVars, running,
                 cancelRequested, ticks, inflight, lastFailed, retryAttempts,
                 history>>

(* Second poll: the query worker's channel. *)

(* Seeded fault: a worker that died with its channel is waited for. *)
WaitingOnTheDead == {"none", "running", "died"}

(* There is no receiver, or try_recv finds it empty. *)
Waiting == {"none", "running"}

QueryNotReady ==
  /\ phase = "query"
  /\ worker.status \in Waiting
  /\ phase' = "demo"
  /\ UNCHANGED <<editor, guardVars, profileVars, connect, threadVars, running,
                 cancelRequested, ticks, inflight, replayVars, countVars, panel,
                 history>>

QuerySucceeded ==
  /\ phase = "query"
  /\ worker.status \in Completed
  /\ phase' = "demo"
  /\ worker' = NoWorker
  /\ running' = FALSE
  /\ cancelRequested' = FALSE
  /\ retryAttempts' = 0
  /\ reconnectAttempts' = 0
  /\ inflight' = NoSql
  /\ lastFailed' = NoSql
  /\ ledger' = Ended(ledger, Audited)
  /\ UNCHANGED <<editor, guardVars, profileVars, connect, orphans, ticks,
                 pendingRetry, panel, consented, bypassed>>

(* Seeded fault: a cancelled statement is retried like any other. *)
RetryEvenCancelled ==
  /\ Transient(worker.status)
  /\ retryAttempts < QueryRetryLimit
  /\ Audited # NoSql

(* Seeded fault: QUERY_RETRY_LIMIT is off by one. *)
RetryOnceMore ==
  /\ Transient(worker.status)
  /\ ~cancelRequested
  /\ retryAttempts <= QueryRetryLimit
  /\ Audited # NoSql

MayRetry ==
  /\ Transient(worker.status)
  /\ ~cancelRequested
  /\ retryAttempts < QueryRetryLimit
  /\ Audited # NoSql

(* Some profile to reconnect to is known whenever a query worker ran. *)
MayReconnect ==
  /\ ConnectionLost(worker.status)
  /\ ~cancelRequested
  /\ reconnectAttempts < AutoReconnectLimit
  /\ ReconnectProfile # NoProfile

QueryRetried ==
  /\ phase = "query"
  /\ worker.status \in Failed
  /\ MayRetry
  /\ phase' = "demo"
  /\ Launch(Audited, active)
  /\ retryAttempts' = retryAttempts + 1
  /\ ledger' = Opened(Ended(ledger, Audited), Audited)
  /\ UNCHANGED <<guardVars, profileVars, connect, orphans, replayVars,
                 reconnectAttempts, consented, bypassed>>

QueryParked ==
  /\ phase = "query"
  /\ worker.status \in Failed
  /\ ~MayRetry /\ MayReconnect
  /\ phase' = "demo"
  /\ worker' = NoWorker
  /\ running' = FALSE
  /\ cancelRequested' = FALSE
  /\ pendingRetry' = Audited
  /\ reconnectAttempts' = reconnectAttempts + 1
  /\ StartConnect(ReconnectProfile, "auto")
  /\ panel' = "none"
  /\ ledger' = Ended(ledger, Audited)
  /\ UNCHANGED <<editor, guardVars, active, orphans, ticks, inflight, lastFailed,
                 retryAttempts, consented, bypassed>>

QueryFailed ==
  /\ phase = "query"
  /\ worker.status \in Failed
  /\ ~MayRetry /\ ~MayReconnect
  /\ phase' = "demo"
  /\ worker' = NoWorker
  /\ running' = FALSE
  /\ cancelRequested' = FALSE
  /\ retryAttempts' = 0
  /\ reconnectAttempts' = 0
  /\ inflight' = NoSql
  /\ lastFailed' = Audited
  /\ pendingRetry' = NoSql
  /\ panel' = "query"
  /\ ledger' = Ended(ledger, Audited)
  /\ UNCHANGED <<editor, guardVars, profileVars, connect, orphans, ticks,
                 consented, bypassed>>

(* Last, the demo query that stands in for a worker while disconnected. *)

(* Seeded fault: the countdown does not ask whether there is a backend. *)
DemoRunningAnyway == running

DemoRunning == running /\ active = NoProfile

DemoIdle ==
  /\ phase = "demo"
  /\ ~DemoRunning
  /\ phase' = "keys"
  /\ UNCHANGED <<editor, guardVars, profileVars, connect, threadVars, running,
                 cancelRequested, ticks, inflight, replayVars, countVars, panel,
                 history>>

DemoCountdown ==
  /\ phase = "demo"
  /\ DemoRunning /\ ticks > 0
  /\ phase' = "keys"
  /\ ticks' = ticks - 1
  /\ UNCHANGED <<editor, guardVars, profileVars, connect, threadVars, running,
                 cancelRequested, inflight, replayVars, countVars, panel, history>>

DemoCompleted ==
  /\ phase = "demo"
  /\ DemoRunning /\ ticks = 0
  /\ phase' = "keys"
  /\ running' = FALSE
  /\ retryAttempts' = 0
  /\ inflight' = NoSql
  /\ lastFailed' = NoSql
  /\ ledger' = Ended(ledger, inflight)
  /\ UNCHANGED <<editor, guardVars, profileVars, connect, threadVars,
                 cancelRequested, ticks, pendingRetry, reconnectAttempts, panel,
                 consented, bypassed>>

-----------------------------------------------------------------------------
(* The worker threads.  CONNECT_TIMEOUT and QUERY_TIMEOUT bound both.       *)

ConnectEnds ==
  /\ connect.status = "pending"
  /\ \E result \in {"ok", "failed"} : connect' = [connect EXCEPT !.status = result]
  /\ UNCHANGED <<phase, editor, guardVars, profileVars, threadVars, running,
                 cancelRequested, ticks, inflight, replayVars, countVars, panel,
                 history>>

WorkerEnds(result) ==
  /\ worker.status = "running"
  /\ result = "cancelled" => worker.cancelled
  /\ worker' = [worker EXCEPT !.status = result]
  /\ UNCHANGED <<phase, editor, guardVars, profileVars, connect, orphans, running,
                 cancelRequested, ticks, inflight, replayVars, countVars, panel,
                 history>>

(* An orphan's outcome is sent into a closed channel and lost. *)
OrphanEnds ==
  /\ \E o \in orphans : orphans' = orphans \ {o}
  /\ UNCHANGED <<phase, editor, guardVars, profileVars, connect, worker, running,
                 cancelRequested, ticks, inflight, replayVars, countVars, panel,
                 history>>

-----------------------------------------------------------------------------
RunStatement ==
  \E s \in Sql : StatementBlocked(s) \/ StatementAllowed(s) \/ StatementNeedsConfirmation(s)

UserKey ==
  \/ \E s \in SqlOrNone : EditStatement(s)
  \/ RunStatement
  \/ ConfirmStatement
  \/ ToggleSafeMode
  \/ \E p \in Profiles : Connect(p) \/ OpenProfile(p)
  \/ CancelWorker
  \/ CancelDemo
  \/ CancelAction
  \/ RunHealthDiagnostics
  \/ DismissPanel
  \/ RetryFailedQuery
  \/ ReconnectFromPanel

Tick ==
  \/ ConnectNotReady \/ ConnectSucceeded \/ ReconnectAgain \/ ConnectFailed
  \/ QueryNotReady \/ QuerySucceeded \/ QueryRetried \/ QueryParked \/ QueryFailed
  \/ DemoIdle \/ DemoCountdown \/ DemoCompleted

QueryEnds == \E result \in Completed \union Failed : WorkerEnds(result)

Next == UserKey \/ Tick \/ ConnectEnds \/ QueryEnds \/ OrphanEnds

(* The event loop ticks for as long as the program runs and every worker    *)
(* ends by its timeout; nothing makes the user press a key.                 *)
Fairness ==
  /\ WF_vars(Tick)
  /\ WF_vars(ConnectEnds)
  /\ WF_vars(QueryEnds)
  /\ WF_vars(OrphanEnds)

Spec == Init /\ [][Next]_vars

FairSpec == Spec /\ Fairness

-----------------------------------------------------------------------------
(* Everything a server executes for this program. *)
Executing ==
  orphans \union (IF worker.status = "running" THEN {Execution(worker)} ELSE {})

(* A statement that is not read-only reaches a server only if the user let  *)
(* exactly that statement through: confirmed it, or ran it with safe mode   *)
(* off.  Retries, replays after a reconnect and the error panel all start   *)
(* statements without asking the guard again (query.rs:127, connect.rs:132, *)
(* error_panel.rs:25).                                                      *)
RiskyStatementsConsented ==
  \A x \in Executing : x.sql \in ReadSql \union consented

(* The outcome polled next belongs to the statement it will be recorded,    *)
(* retried and parked as, whatever was typed meanwhile (query.rs:63-67).    *)
OutcomeMatchesInflight ==
  worker # NoWorker => inflight = worker.sql

(* Unless a run was started over another or disowned by the cancel action,  *)
(* every statement has an open audit record exactly while it is the one     *)
(* that runs (append_audit_event at the start and at every end of a run).   *)
AuditExact ==
  ~bypassed =>
    \A s \in Sql : ledger[s] = IF running /\ inflight = s THEN "open" ELSE "closed"

(* Under the same condition no thread executes a statement the UI does not  *)
(* know of, and no outcome waits for a UI that believes nothing runs.       *)
OneExecutionAtATime ==
  ~bypassed => orphans = {} /\ (worker # NoWorker => running)

(* A statement parked by a lost connection has a reconnect under way that   *)
(* will replay it or drop it with an error panel (query.rs:142-144,         *)
(* connect.rs:131, connect.rs:153): it is never forgotten.                  *)
ParkedStatementHasReconnect ==
  pendingRetry # NoSql => connect # NoConnect /\ connect.intent = "auto"

(* The query error panel, whose primary action starts a statement without   *)
(* looking at query_running, is never open over a running one.              *)
QueryPanelOverIdle ==
  panel = "query" => ~running

(* While the current profile is read-only the guard admits no statement:    *)
(* all that can still pass is a confirmation asked for before the profile   *)
(* became current (query_execution.rs:105, query.rs:21).                    *)
ReadOnlyAdmitsNothing ==
  [][CurrentProfileReadOnly =>
       /\ pendingConfirm' \in {pendingConfirm, NoSql}
       /\ consented' \subseteq consented \union {pendingConfirm}]_vars

(* Once Ctrl+C raised a worker's token, that run is over when the worker    *)
(* ends: it is neither retried nor parked for a reconnect, unless the user  *)
(* starts something over it (query.rs:120, query.rs:134).                   *)
CancelIsFinal ==
  [][worker.cancelled =>
       \/ worker'.cancelled
       \/ worker' = NoWorker /\ connect' = connect /\ ~running'
       \/ bypassed']_vars

Idle == ~running /\ worker = NoWorker /\ connect = NoConnect

(* A connection comes back while a demo query counts down: query_running is *)
(* left with neither a worker nor a countdown to clear it (handle.rs:202).  *)
Stranded == running /\ worker = NoWorker /\ active # NoProfile

(* Left alone, the runtime comes to rest: unless connections keep being     *)
(* lost, keys keep being pressed or a demo query was stranded, every        *)
(* statement, retry and reconnect comes to an end.                          *)
Settles ==
  \/ []<><<QueryParked>>_vars
  \/ []<><<UserKey>>_vars
  \/ <>Stranded
  \/ <>[]Idle

-----------------------------------------------------------------------------
(* What the documents say that the code does not do. *)

(* README.md: a read-only profile blocks write and DDL statements.          *)
ReadOnlyBlocksWrites ==
  \A x \in Executing : x.on \in ReadOnly => x.sql \in ReadSql
=============================================================================
