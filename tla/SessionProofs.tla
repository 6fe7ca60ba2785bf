---------------------------- MODULE SessionProofs ----------------------------
(* Proofs about Session, for any statements, profiles and retry limits.     *)
EXTENDS Session, TLAPS

USE SqlAssumption, ProfileAssumption, LimitAssumption
  DEF SqlAssumption, ProfileAssumption, LimitAssumption

Ledgers == [Sql -> {"closed", "open", "broken"}]

-----------------------------------------------------------------------------
(* What the operators the actions share preserve. *)

(* Every counter can be reset.                                              *)
LEMMA ZeroInBounds ==
  /\ 0 \in 0 .. QueryRetryLimit
  /\ 0 \in 0 .. AutoReconnectLimit
  /\ 0 \in 0 .. DemoTicks
  /\ DemoTicks \in 0 .. DemoTicks
  OBVIOUS

(* Without a connect worker nothing reconnects.                            *)
LEMMA NoConnectIdle == NoConnect.status = "idle" /\ NoConnect.intent = "manual"
  BY DEF NoConnect

(* No worker is a state of the query worker.                               *)
LEMMA NoWorkerType == NoWorker \in WorkerRecord
  BY DEF NoWorker, WorkerRecord, SqlOrNone, ProfileOrNone

(* Opening or ending a record keeps the ledger one state per statement.     *)
LEMMA LedgerTypes ==
  ASSUME NEW l \in Ledgers, NEW s \in SqlOrNone
  PROVE  /\ s # NoSql => Opened(l, s) \in Ledgers
         /\ Ended(l, s) \in Ledgers
<1> USE DEF Ledgers, SqlOrNone
<1>1. ASSUME s # NoSql PROVE Opened(l, s) \in Ledgers
  <2>1. (IF l[s] = "closed" THEN "open" ELSE "broken") \in {"closed", "open", "broken"}
    OBVIOUS
  <2> QED
    BY <2>1 DEF Opened
<1>2. Ended(l, s) \in Ledgers
  <2>1. (IF l[s] = "open" THEN "closed" ELSE "broken") \in {"closed", "open", "broken"}
    OBVIOUS
  <2> QED
    BY <2>1 DEF Ended
<1> QED
  BY <1>1, <1>2

(* The fields Launch assigns.                                               *)
LEMMA LaunchTypes ==
  ASSUME NEW s \in Sql, NEW p \in ProfileOrNone, Launch(s, p)
  PROVE  /\ inflight' \in SqlOrNone
         /\ editor' \in SqlOrNone
         /\ running' \in BOOLEAN
         /\ cancelRequested' \in BOOLEAN
         /\ panel' \in {"none", "connection", "query"}
         /\ worker' \in WorkerRecord
         /\ ticks' \in 0 .. DemoTicks
<1>1. worker' \in WorkerRecord
  <2>1. NoWorker \in WorkerRecord /\ Fresh(s, p) \in WorkerRecord
    BY DEF NoWorker, Fresh, WorkerRecord, SqlOrNone, ProfileOrNone
  <2> QED
    BY <2>1 DEF Launch
<1>2. ticks' \in 0 .. DemoTicks
  BY ZeroInBounds DEF Launch
<1> QED
  BY <1>1, <1>2 DEF Launch, SqlOrNone

(* The fields StartQuery assigns besides.                                   *)
LEMMA StartQueryTypes ==
  ASSUME TypeOK, NEW s \in Sql, NEW p \in ProfileOrNone, StartQuery(s, p)
  PROVE  /\ Launch(s, p)
         /\ retryAttempts' \in 0 .. QueryRetryLimit
         /\ reconnectAttempts' \in 0 .. AutoReconnectLimit
         /\ lastFailed' \in SqlOrNone
         /\ pendingRetry' \in SqlOrNone
         /\ orphans' \subseteq [sql : SqlOrNone, on : ProfileOrNone]
         /\ ledger' \in Ledgers
         /\ bypassed' \in BOOLEAN
<1>1. ledger' \in Ledgers
  BY LedgerTypes DEF TypeOK, Ledgers, StartQuery, SqlOrNone
<1>2. orphans' \subseteq [sql : SqlOrNone, on : ProfileOrNone]
  BY DEF TypeOK, StartQuery, Detach, Execution, WorkerRecord
<1>3. bypassed' \in BOOLEAN
  BY Zenon DEF StartQuery
<1> QED
  BY <1>1, <1>2, <1>3 DEF StartQuery, SqlOrNone

-----------------------------------------------------------------------------
(* Type correctness. *)

(* The fields have their types at the start.                               *)
LEMMA InitTypeOK == Init => TypeOK
<1> SUFFICES ASSUME Init PROVE TypeOK
  OBVIOUS
<1> USE DEF Init
<1>1. connect \in ConnectRecord
  BY DEF NoConnect, ConnectRecord, ProfileOrNone
<1>2. worker \in WorkerRecord
  BY DEF NoWorker, WorkerRecord, SqlOrNone, ProfileOrNone
<1>3. editor \in SqlOrNone /\ ticks \in 0 .. DemoTicks
  BY DEF SqlOrNone
<1>4. retryAttempts \in 0 .. QueryRetryLimit /\ reconnectAttempts \in 0 .. AutoReconnectLimit
  OBVIOUS
<1>5. ledger \in [Sql -> {"closed", "open", "broken"}]
  OBVIOUS
<1> QED
  BY <1>1, <1>2, <1>3, <1>4, <1>5 DEF TypeOK, SqlOrNone, ProfileOrNone

(* Every step preserves them.                                              *)
LEMMA StepTypeOK == TypeOK /\ [Next]_vars => TypeOK'
<1> SUFFICES ASSUME TypeOK, [Next]_vars PROVE TypeOK'
  OBVIOUS
<1> USE DEF TypeOK, guardVars, profileVars, threadVars, replayVars, countVars,
            history, SqlOrNone, ProfileOrNone, Completed, Failed
<1>1. ASSUME NEW s \in SqlOrNone, EditStatement(s) PROVE TypeOK'
  BY <1>1 DEF EditStatement
<1>2. ASSUME NEW s \in Sql, StatementBlocked(s) PROVE TypeOK'
  BY <1>2 DEF StatementBlocked
<1>3. ASSUME NEW s \in Sql, StatementAllowed(s) PROVE TypeOK'
  <2>1. StartQuery(s, active) /\ active \in ProfileOrNone
    BY <1>3 DEF StatementAllowed
  <2>2. consented' \subseteq Sql
    BY <1>3 DEF StatementAllowed
  <2> QED
    BY <1>3, <2>1, <2>2, StartQueryTypes, LaunchTypes DEF StatementAllowed, Ledgers
<1>4. ASSUME NEW s \in Sql, StatementNeedsConfirmation(s) PROVE TypeOK'
  BY <1>4 DEF StatementNeedsConfirmation
<1>5. CASE ConfirmStatement
  <2>1. pendingConfirm \in Sql /\ StartQuery(pendingConfirm, active)
    BY <1>5 DEF ConfirmStatement
  <2>2. consented' \subseteq Sql
    BY <1>5, <2>1 DEF ConfirmStatement
  <2> QED
    BY <1>5, <2>1, <2>2, StartQueryTypes, LaunchTypes DEF ConfirmStatement, Ledgers
<1>6. CASE ToggleSafeMode
  BY <1>6 DEF ToggleSafeMode
<1>7. ASSUME NEW p \in Profiles, Connect(p) PROVE TypeOK'
  BY <1>7, ZeroInBounds DEF Connect, StartConnect, ConnectRecord
<1>8. ASSUME NEW p \in Profiles, OpenProfile(p) PROVE TypeOK'
  BY <1>8 DEF OpenProfile
<1>9. CASE CancelWorker
  <2>1. worker' \in WorkerRecord
    BY <1>9 DEF CancelWorker, WorkerRecord
  <2>2. cancelRequested' \in BOOLEAN
    BY <1>9, Zenon DEF CancelWorker
  <2> QED
    BY <1>9, <2>1, <2>2 DEF CancelWorker
<1>10. CASE CancelDemo
  <2>1. ledger' \in Ledgers
    BY <1>10, LedgerTypes DEF CancelDemo, Ledgers
  <2>2. cancelRequested' \in BOOLEAN /\ running' \in BOOLEAN
    BY <1>10, Zenon DEF CancelDemo
  <2> QED
    BY <1>10, <2>1, <2>2, ZeroInBounds DEF CancelDemo, Ledgers
<1>11. CASE CancelAction
  <2>1. ledger' \in Ledgers
    BY <1>11, LedgerTypes DEF CancelAction, Ledgers
  <2>2. bypassed' \in BOOLEAN
    BY <1>11, Zenon DEF CancelAction
  <2>3. cancelRequested' \in BOOLEAN /\ running' \in BOOLEAN
    BY <1>11, Zenon DEF CancelAction
  <2> QED
    BY <1>11, <2>1, <2>2, <2>3, ZeroInBounds DEF CancelAction, Ledgers
<1>12. CASE RunHealthDiagnostics
  BY <1>12 DEF RunHealthDiagnostics
<1>13. CASE DismissPanel
  BY <1>13 DEF DismissPanel
<1>14. CASE RetryFailedQuery
  <2>1. lastFailed \in Sql /\ StartQuery(lastFailed, active)
    BY <1>14 DEF RetryFailedQuery
  <2> QED
    BY <1>14, <2>1, StartQueryTypes, LaunchTypes DEF RetryFailedQuery, Ledgers
<1>15. CASE ReconnectFromPanel
  BY <1>15, ZeroInBounds DEF ReconnectFromPanel, StartConnect, ConnectRecord, ReconnectProfile
<1>16. CASE ConnectNotReady
  BY <1>16 DEF ConnectNotReady
<1>17. CASE ConnectSucceeded
  <2>1. connect.profile \in ProfileOrNone
    BY DEF ConnectRecord
  <2>2. connect' \in ConnectRecord
    BY <1>17 DEF ConnectSucceeded, NoConnect, ConnectRecord
  <2>3. ASSUME pendingRetry # NoSql, StartQuery(pendingRetry, connect.profile),
               UNCHANGED consented
        PROVE  TypeOK'
    <3>1. pendingRetry \in Sql
      BY <2>3
    <3> QED
      BY <1>17, <2>1, <2>2, <2>3, <3>1, StartQueryTypes, LaunchTypes
         DEF ConnectSucceeded, Ledgers
  <2>4. ASSUME editor' \in {editor} \union ReadSql, panel' = "none",
               reconnectAttempts' = 0,
               UNCHANGED <<threadVars, running, cancelRequested, ticks, inflight,
                           replayVars, retryAttempts, history>>
        PROVE  TypeOK'
    BY <1>17, <2>1, <2>2, <2>4, ZeroInBounds DEF ConnectSucceeded
  <2> QED
    BY <1>17, <2>3, <2>4 DEF ConnectSucceeded
<1>18. CASE ReconnectAgain
  BY <1>18 DEF ReconnectAgain, StartConnect, ConnectRecord, ReconnectProfile
<1>19. CASE ConnectFailed
  BY <1>19, ZeroInBounds DEF ConnectFailed, NoConnect, ConnectRecord, GiveUpParked
<1>20. CASE QueryNotReady
  BY <1>20 DEF QueryNotReady
<1>21. CASE QuerySucceeded
  <2>1. Audited \in SqlOrNone
    BY DEF Audited
  <2>2. ledger' \in Ledgers
    BY <1>21, <2>1, LedgerTypes DEF QuerySucceeded, Ledgers
  <2> QED
    BY <1>21, <2>2, ZeroInBounds, NoWorkerType DEF QuerySucceeded, Ledgers
<1>22. CASE QueryRetried
  <2>1. Audited \in Sql
    BY <1>22 DEF QueryRetried, MayRetry, Audited
  <2>2. Ended(ledger, Audited) \in Ledgers
    BY <2>1, LedgerTypes DEF Ledgers
  <2>3. ledger' \in Ledgers
    BY <1>22, <2>1, <2>2, LedgerTypes DEF QueryRetried
  <2>4. retryAttempts' \in 0 .. QueryRetryLimit
    BY <1>22 DEF QueryRetried, MayRetry
  <2> QED
    BY <1>22, <2>1, <2>3, <2>4, LaunchTypes DEF QueryRetried, Ledgers
<1>23. CASE QueryParked
  <2>1. Audited \in SqlOrNone
    BY DEF Audited
  <2>2. ledger' \in Ledgers
    BY <1>23, <2>1, LedgerTypes DEF QueryParked, Ledgers
  <2>3. connect' \in ConnectRecord /\ lastProfile' \in ProfileOrNone
    BY <1>23 DEF QueryParked, StartConnect, ConnectRecord, ReconnectProfile
  <2>4. reconnectAttempts' \in 0 .. AutoReconnectLimit
    BY <1>23 DEF QueryParked, MayReconnect
  <2> QED
    BY <1>23, <2>1, <2>2, <2>3, <2>4, NoWorkerType DEF QueryParked, Ledgers
<1>24. CASE QueryFailed
  <2>1. Audited \in SqlOrNone
    BY DEF Audited
  <2>2. ledger' \in Ledgers
    BY <1>24, <2>1, LedgerTypes DEF QueryFailed, Ledgers
  <2>3. /\ worker' \in WorkerRecord
        /\ retryAttempts' \in 0 .. QueryRetryLimit
        /\ reconnectAttempts' \in 0 .. AutoReconnectLimit
    BY <1>24, ZeroInBounds, NoWorkerType DEF QueryFailed
  <2> QED
    BY <1>24, <2>1, <2>2, <2>3 DEF QueryFailed, Ledgers
<1>25. CASE DemoIdle
  BY <1>25 DEF DemoIdle
<1>26. CASE DemoCountdown
  BY <1>26 DEF DemoCountdown
<1>27. CASE DemoCompleted
  <2>1. ledger' \in Ledgers
    BY <1>27, LedgerTypes DEF DemoCompleted, Ledgers
  <2>2. /\ phase' = "keys" /\ running' = FALSE
        /\ inflight' \in SqlOrNone /\ lastFailed' \in SqlOrNone
        /\ retryAttempts' \in 0 .. QueryRetryLimit
    BY <1>27, ZeroInBounds DEF DemoCompleted
  <2>3. UNCHANGED <<editor, guardVars, profileVars, connect, threadVars, cancelRequested, ticks,
                    pendingRetry, reconnectAttempts, panel, consented, bypassed>>
    BY <1>27 DEF DemoCompleted
  <2>4. connect' \in ConnectRecord /\ worker' \in WorkerRecord
        /\ orphans' \subseteq [sql : SqlOrNone, on : ProfileOrNone]
    BY <2>3
  <2> HIDE DEF SqlOrNone, ProfileOrNone, Completed, Failed
  <2> QED
    BY <2>1, <2>2, <2>3, <2>4 DEF Ledgers
<1>28. CASE ConnectEnds
  BY <1>28 DEF ConnectEnds, ConnectRecord
<1>29. ASSUME NEW r \in Completed \union Failed, WorkerEnds(r) PROVE TypeOK'
  BY <1>29 DEF WorkerEnds, WorkerRecord
<1>30. CASE OrphanEnds
  BY <1>30 DEF OrphanEnds
<1>31. CASE UNCHANGED vars
  BY <1>31 DEF vars
<1> QED
  BY <1>1, <1>2, <1>3, <1>4, <1>5, <1>6, <1>7, <1>8, <1>9, <1>10, <1>11, <1>12,
     <1>13, <1>14, <1>15, <1>16, <1>17, <1>18, <1>19, <1>20, <1>21, <1>22, <1>23,
     <1>24, <1>25, <1>26, <1>27, <1>28, <1>29, <1>30, <1>31
     DEF Next, UserKey, RunStatement, Tick, QueryEnds

(* Every variable keeps the type its field has in the code. *)
THEOREM TypeCorrect == Spec => []TypeOK
  BY InitTypeOK, StepTypeOK, PTL DEF Spec

-----------------------------------------------------------------------------
(* The kinds of steps.  Half of the actions do not touch what a statement   *)
(* or a connection is doing, and five different ones start a statement: the *)
(* proofs below argue about kinds, not about each key.                      *)

idleVars == <<active, connect, worker, orphans, running, cancelRequested, inflight,
              lastFailed, pendingRetry, consented, ledger, bypassed>>

Quiet ==
  /\ UNCHANGED idleVars
  /\ lastProfile' \in {lastProfile} \union Profiles
  /\ panel' = "query" => panel = "query" \/ ~running

Connecting ==
  /\ connect = NoConnect
  /\ \E p \in Profiles : StartConnect(p, "manual")
  /\ panel' = "none" \/ panel' = panel
  /\ UNCHANGED <<active, worker, orphans, running, cancelRequested, inflight,
                 lastFailed, pendingRetry, consented, ledger, bypassed>>

(* Starting a statement the user just ran or confirmed, or the one that     *)
(* failed, on the connection there is.                                      *)
Starting(s) ==
  /\ StartQuery(s, active)
  /\ s \in ReadSql \union consented' \union {lastFailed}
  /\ consented \subseteq consented'
  /\ UNCHANGED <<active, lastProfile, connect>>

(* Replaying the parked statement on a connection that came back.           *)
Replaying ==
  /\ connect.status = "ok"
  /\ pendingRetry # NoSql
  /\ StartQuery(pendingRetry, connect.profile)
  /\ active' = connect.profile
  /\ lastProfile' = connect.profile
  /\ connect' = NoConnect
  /\ UNCHANGED consented

Connected ==
  /\ connect.status = "ok"
  /\ ~(connect.intent = "auto" /\ pendingRetry # NoSql)
  /\ active' = connect.profile
  /\ lastProfile' = connect.profile
  /\ connect' = NoConnect
  /\ panel' = "none"
  /\ UNCHANGED <<worker, orphans, running, cancelRequested, inflight, lastFailed,
                 pendingRetry, consented, ledger, bypassed>>

Cancelling == CancelWorker \/ CancelDemo \/ CancelAction

Concluding == QuerySucceeded \/ QueryRetried \/ QueryParked \/ QueryFailed

(* Every step is of one of the kinds.                                       *)
LEMMA StepKinds ==
  ASSUME TypeOK, [Next]_vars
  PROVE  \/ Quiet \/ Connecting \/ (\E s \in Sql : Starting(s)) \/ Replaying
         \/ Connected \/ Cancelling \/ ReconnectAgain \/ ConnectFailed
         \/ Concluding \/ DemoCompleted \/ ConnectEnds \/ QueryEnds \/ OrphanEnds
<1> USE DEF guardVars, profileVars, threadVars, replayVars, countVars, history,
            idleVars
<1>1. ASSUME NEW s \in SqlOrNone, EditStatement(s) PROVE Quiet
  BY <1>1 DEF EditStatement, Quiet
<1>2. ASSUME NEW s \in Sql, StatementBlocked(s) PROVE Quiet
  BY <1>2 DEF StatementBlocked, Quiet
<1>3. ASSUME NEW s \in Sql, StatementAllowed(s) PROVE Starting(s)
  BY <1>3 DEF StatementAllowed, Starting, Allowed
<1>4. ASSUME NEW s \in Sql, StatementNeedsConfirmation(s) PROVE Quiet
  BY <1>4 DEF StatementNeedsConfirmation, Quiet
<1>5. ASSUME ConfirmStatement PROVE \E s \in Sql : Starting(s)
  <2>1. pendingConfirm \in Sql
    BY <1>5 DEF ConfirmStatement, TypeOK, SqlOrNone
  <2>2. Starting(pendingConfirm)
    BY <1>5 DEF ConfirmStatement, Starting
  <2> QED
    BY <2>1, <2>2
<1>6. ASSUME ToggleSafeMode PROVE Quiet
  BY <1>6 DEF ToggleSafeMode, Quiet
<1>7. ASSUME NEW p \in Profiles, Connect(p) PROVE Connecting
  BY <1>7 DEF Connect, Connecting
<1>8. ASSUME NEW p \in Profiles, OpenProfile(p) PROVE Quiet
  BY <1>8 DEF OpenProfile, Quiet
<1>9. ASSUME RunHealthDiagnostics PROVE Quiet
  BY <1>9 DEF RunHealthDiagnostics, Quiet
<1>10. ASSUME DismissPanel PROVE Quiet
  BY <1>10 DEF DismissPanel, Quiet
<1>11. ASSUME RetryFailedQuery PROVE \E s \in Sql : Starting(s)
  <2>1. lastFailed \in Sql
    BY <1>11 DEF RetryFailedQuery, TypeOK, SqlOrNone
  <2>2. Starting(lastFailed)
    BY <1>11 DEF RetryFailedQuery, Starting
  <2> QED
    BY <2>1, <2>2
<1>12. ASSUME ReconnectFromPanel PROVE Connecting
  <2>1. (IF ReconnectProfile # NoProfile THEN {ReconnectProfile} ELSE Profiles)
          \subseteq Profiles
    BY DEF ReconnectProfile, TypeOK, ProfileOrNone
  <2> QED
    BY <1>12, <2>1 DEF ReconnectFromPanel, Connecting
<1>13. ASSUME ConnectNotReady PROVE Quiet
  BY <1>13 DEF ConnectNotReady, Quiet
<1>14. ASSUME ConnectSucceeded PROVE Replaying \/ Connected
  BY <1>14 DEF ConnectSucceeded, Replaying, Connected
<1>15. ASSUME QueryNotReady PROVE Quiet
  BY <1>15 DEF QueryNotReady, Quiet
<1>16. ASSUME DemoIdle PROVE Quiet
  BY <1>16 DEF DemoIdle, Quiet
<1>17. ASSUME DemoCountdown PROVE Quiet
  BY <1>17 DEF DemoCountdown, Quiet
<1>18. ASSUME UNCHANGED vars PROVE Quiet
  BY <1>18 DEF vars, Quiet
<1> QED
  BY <1>1, <1>2, <1>3, <1>4, <1>5, <1>6, <1>7, <1>8, <1>9, <1>10, <1>11, <1>12,
     <1>13, <1>14, <1>15, <1>16, <1>17, <1>18
     DEF Next, UserKey, RunStatement, Tick, Cancelling, Concluding

-----------------------------------------------------------------------------
(* Connections. *)

(* A connect worker was given a profile, which lastProfile remembers.       *)
ConnectShape ==
  connect.status # "idle" => connect.profile \in Profiles /\ lastProfile \in Profiles

ConnectInv == TypeOK /\ ConnectShape /\ ParkedStatementHasReconnect

(* At the start nothing is parked.                                         *)
LEMMA InitConnectInv == Init => ConnectInv
  BY InitTypeOK DEF Init, ConnectInv, ConnectShape, ParkedStatementHasReconnect, NoConnect

(* Every step keeps a parked statement with its reconnect.                 *)
LEMMA StepConnectInv == ConnectInv /\ [Next]_vars => ConnectInv'
<1> SUFFICES ASSUME ConnectInv, [Next]_vars
             PROVE  ConnectShape' /\ ParkedStatementHasReconnect'
  BY StepTypeOK DEF ConnectInv
<1>a. TypeOK /\ TypeOK'
  BY StepTypeOK DEF ConnectInv
<1> USE DEF ConnectInv, ConnectShape, ParkedStatementHasReconnect
<1>1. CASE Quiet
  BY <1>1 DEF Quiet, idleVars
<1>2. CASE Connecting
  BY <1>2 DEF Connecting, StartConnect, NoConnect
<1>3. ASSUME NEW s \in Sql, Starting(s) PROVE ConnectShape' /\ ParkedStatementHasReconnect'
  BY <1>3 DEF Starting, StartQuery
<1>4. CASE Replaying
  BY <1>4 DEF Replaying, StartQuery, NoConnect
<1>5. CASE Connected
  BY <1>5 DEF Connected, NoConnect, TypeOK, ConnectRecord
<1>6. CASE Cancelling
  BY <1>6 DEF Cancelling, CancelWorker, CancelDemo, CancelAction, profileVars, replayVars
<1>7. CASE ReconnectAgain
  <2>1. ReconnectProfile \in Profiles
    BY <1>7, <1>a DEF ReconnectAgain, ReconnectProfile, TypeOK, ProfileOrNone
  <2> QED
    BY <1>7, <2>1, NoConnectIdle DEF ReconnectAgain, StartConnect
<1>8. CASE ConnectFailed
  BY <1>8 DEF ConnectFailed, GiveUpParked, NoConnect
<1>9. CASE Concluding
  <2>1. CASE QuerySucceeded
    BY <2>1 DEF QuerySucceeded, profileVars
  <2>2. CASE QueryRetried
    BY <2>2 DEF QueryRetried, profileVars, replayVars
  <2>3. CASE QueryParked
    <3>1. ReconnectProfile \in Profiles
      BY <2>3, <1>a DEF QueryParked, MayReconnect, ReconnectProfile, TypeOK, ProfileOrNone
    <3> QED
      BY <2>3, <3>1, NoConnectIdle DEF QueryParked, StartConnect
  <2>4. CASE QueryFailed
    BY <2>4 DEF QueryFailed, profileVars
  <2> QED
    BY <1>9, <2>1, <2>2, <2>3, <2>4 DEF Concluding
<1>10. CASE DemoCompleted
  BY <1>10 DEF DemoCompleted, profileVars
<1>11. CASE ConnectEnds
  <2>1. PICK result \in {"ok", "failed"} : connect' = [connect EXCEPT !.status = result]
    BY <1>11 DEF ConnectEnds
  <2>2. connect'.status = result /\ connect'.profile = connect.profile
          /\ connect'.intent = connect.intent
    BY <2>1, <1>a DEF TypeOK, ConnectRecord
  <2> QED
    BY <1>11, <2>1, <2>2, NoConnectIdle
       DEF ConnectEnds, profileVars, replayVars
<1>12. CASE QueryEnds
  BY <1>12 DEF QueryEnds, WorkerEnds, profileVars, replayVars
<1>13. CASE OrphanEnds
  BY <1>13 DEF OrphanEnds, profileVars, replayVars
<1> QED
  BY <1>a, <1>1, <1>2, <1>3, <1>4, <1>5, <1>6, <1>7, <1>8, <1>9, <1>10, <1>11,
     <1>12, <1>13, StepKinds

(* For any profiles and limits, a statement parked by a lost connection is  *)
(* not forgotten: a reconnect that replays or drops it is under way.        *)
THEOREM ParkedNotForgotten == Spec => []ParkedStatementHasReconnect
<1>1. ConnectInv => ParkedStatementHasReconnect
  BY DEF ConnectInv
<1> QED
  BY <1>1, InitConnectInv, StepConnectInv, PTL DEF Spec

-----------------------------------------------------------------------------
(* Runs. *)

(* A worker exists only on an open connection and with a statement; a run   *)
(* has a statement; a raised token was requested.                           *)
RunShape ==
  /\ worker.status = "none" => worker = NoWorker
  /\ worker # NoWorker => worker.sql \in Sql /\ active # NoProfile
  /\ running => inflight \in Sql
  /\ worker.cancelled => cancelRequested /\ worker # NoWorker

LetThrough == ReadSql \union consented

(* Every statement that can start again without asking the guard is one     *)
(* the guard or the user let through when it first started.                 *)
OnlyLetThrough ==
  /\ {inflight, lastFailed, pendingRetry, worker.sql} \subseteq LetThrough \union {NoSql}
  /\ \A o \in orphans : o.sql \in LetThrough

RunInv ==
  /\ ConnectInv
  /\ RunShape
  /\ OutcomeMatchesInflight
  /\ OnlyLetThrough
  /\ QueryPanelOverIdle
  /\ OneExecutionAtATime
  /\ AuditExact

(* At the start nothing runs.                                              *)
LEMMA InitRunInv == Init => RunInv
<1> SUFFICES ASSUME Init PROVE RunInv
  OBVIOUS
<1> USE DEF Init
<1>1. RunShape /\ OutcomeMatchesInflight /\ QueryPanelOverIdle /\ OneExecutionAtATime
  BY DEF RunShape, NoWorker, OutcomeMatchesInflight, QueryPanelOverIdle, OneExecutionAtATime
<1>2. OnlyLetThrough
  BY DEF OnlyLetThrough, NoWorker
<1>3. AuditExact
  BY DEF AuditExact
<1> QED
  BY <1>1, <1>2, <1>3, InitConnectInv DEF RunInv

(* What a start, from a key or a replay, leaves behind.                     *)
LEMMA StartKeepsRunInv ==
  ASSUME RunInv, NEW s \in Sql, NEW p \in ProfileOrNone, StartQuery(s, p),
         active' = p, consented \subseteq consented',
         s \in ReadSql \union consented'
  PROVE  /\ RunShape' /\ OutcomeMatchesInflight' /\ OnlyLetThrough'
         /\ QueryPanelOverIdle' /\ OneExecutionAtATime' /\ AuditExact'
<1> USE DEF StartQuery, Launch
<1>1. RunShape' /\ OutcomeMatchesInflight' /\ QueryPanelOverIdle'
  BY DEF RunShape, OutcomeMatchesInflight, QueryPanelOverIdle, Fresh, NoWorker
<1>2. OnlyLetThrough'
  <2>1. worker.status = "running" => worker.sql \in LetThrough
    BY DEF RunInv, OnlyLetThrough, RunShape, NoWorker, OutcomeMatchesInflight
  <2>2. \A o \in orphans' : o.sql \in LetThrough'
    BY <2>1 DEF Detach, Execution, RunInv, OnlyLetThrough, LetThrough
  <2>3. worker'.sql \in {s, NoSql}
    BY DEF Fresh, NoWorker
  <2> QED
    BY <2>2, <2>3 DEF OnlyLetThrough, LetThrough
<1>a. ~bypassed' => ~bypassed /\ ~running /\ worker = NoWorker
  BY Zenon
<1>3. OneExecutionAtATime'
  BY <1>a DEF RunInv, OneExecutionAtATime, Detach, NoWorker
<1>4. AuditExact'
  <2> SUFFICES ASSUME ~bypassed', NEW t \in Sql
               PROVE  ledger'[t] = IF running' /\ inflight' = t THEN "open" ELSE "closed"
    BY DEF AuditExact
  <2>1. ledger \in Ledgers /\ \A u \in Sql : ledger[u] = "closed"
    BY <1>a DEF RunInv, AuditExact, ConnectInv, TypeOK, Ledgers
  <2> QED
    BY <2>1 DEF Opened, Ledgers
<1> QED
  BY <1>1, <1>2, <1>3, <1>4

(* What the end of a run leaves of the ledger.                              *)
LEMMA EndClosesLedger ==
  ASSUME RunInv, ~bypassed, running,
         ledger' = Ended(ledger, inflight)
  PROVE  \A s \in Sql : ledger'[s] = "closed"
<1>1. inflight \in Sql /\ inflight # NoSql
  BY DEF RunInv, RunShape
<1>2. ledger \in Ledgers
  BY DEF RunInv, ConnectInv, TypeOK, Ledgers
<1>3. \A s \in Sql : ledger[s] = IF inflight = s THEN "open" ELSE "closed"
  BY DEF RunInv, AuditExact
<1> QED
  BY <1>1, <1>2, <1>3 DEF Ended, Ledgers

(* What the outcome being polled is attributed to.                          *)
LEMMA AuditedIsInflight ==
  ASSUME RunInv, worker.status \in Completed \union Failed
  PROVE  /\ worker # NoWorker
         /\ Audited = inflight
         /\ inflight \in Sql
         /\ inflight \in LetThrough
         /\ ~bypassed => running
<1>1. worker # NoWorker
  BY DEF NoWorker, Completed, Failed
<1> QED
  BY <1>1 DEF RunInv, RunShape, OutcomeMatchesInflight, Audited, OnlyLetThrough,
              OneExecutionAtATime

(* Every kind of step preserves the invariant of the runs.                 *)
LEMMA StepRunInv == RunInv /\ [Next]_vars => RunInv'
<1> SUFFICES ASSUME RunInv, [Next]_vars
             PROVE  /\ RunShape' /\ OutcomeMatchesInflight' /\ OnlyLetThrough'
                    /\ QueryPanelOverIdle' /\ OneExecutionAtATime' /\ AuditExact'
  BY StepConnectInv DEF RunInv
<1>a. TypeOK /\ TypeOK' /\ ConnectInv
  BY StepTypeOK DEF RunInv, ConnectInv
<1>1. CASE Quiet
  BY <1>1 DEF Quiet, idleVars, RunInv, RunShape, OutcomeMatchesInflight, OnlyLetThrough,
              LetThrough, QueryPanelOverIdle, OneExecutionAtATime, AuditExact
<1>2. CASE Connecting
  BY <1>2 DEF Connecting, RunInv, RunShape, OutcomeMatchesInflight, OnlyLetThrough,
              LetThrough, QueryPanelOverIdle, OneExecutionAtATime, AuditExact
<1>3. ASSUME NEW s \in Sql, Starting(s)
      PROVE  /\ RunShape' /\ OutcomeMatchesInflight' /\ OnlyLetThrough'
             /\ QueryPanelOverIdle' /\ OneExecutionAtATime' /\ AuditExact'
  <2>1. s \in ReadSql \union consented'
    BY <1>3 DEF Starting, RunInv, OnlyLetThrough, LetThrough
  <2>2. active \in ProfileOrNone /\ active' = active
    BY <1>3, <1>a DEF Starting, TypeOK
  <2> QED
    BY <1>3, <2>1, <2>2, StartKeepsRunInv DEF Starting
<1>4. CASE Replaying
  <2>1. pendingRetry \in Sql
    BY <1>4, <1>a DEF Replaying, TypeOK, SqlOrNone
  <2>2. connect.profile \in ProfileOrNone
    BY <1>a DEF TypeOK, ConnectRecord
  <2>3. pendingRetry \in ReadSql \union consented'
    BY <1>4, <2>1 DEF Replaying, RunInv, OnlyLetThrough, LetThrough
  <2> QED
    BY <1>4, <2>1, <2>2, <2>3, StartKeepsRunInv DEF Replaying
<1>5. CASE Connected
  <2>1. active' # NoProfile
    BY <1>5 DEF Connected, RunInv, ConnectInv, ConnectShape
  <2> QED
    BY <1>5, <2>1 DEF Connected, RunInv, RunShape, OutcomeMatchesInflight,
       OnlyLetThrough, LetThrough, QueryPanelOverIdle, OneExecutionAtATime, AuditExact
<1>6. CASE CancelWorker
  <2>1. worker' = [worker EXCEPT !.cancelled = TRUE] /\ worker \in WorkerRecord
    BY <1>6, <1>a DEF CancelWorker, TypeOK
  <2>2. worker'.sql = worker.sql /\ worker'.status = worker.status
          /\ worker'.cancelled = TRUE
    BY <2>1 DEF WorkerRecord
  <2>3. worker' # NoWorker /\ worker.status # "none"
    BY <1>6, <2>2 DEF NoWorker, CancelWorker, RunInv, RunShape
  <2>4. RunShape'
    BY <1>6, <2>2, <2>3 DEF CancelWorker, RunInv, RunShape, profileVars
  <2>5. OutcomeMatchesInflight' /\ QueryPanelOverIdle'
    BY <1>6, <2>2 DEF CancelWorker, RunInv, OutcomeMatchesInflight, QueryPanelOverIdle
  <2>6. OnlyLetThrough'
    BY <1>6, <2>2 DEF CancelWorker, RunInv, OnlyLetThrough, LetThrough, replayVars, history
  <2>7. OneExecutionAtATime' /\ AuditExact'
    BY <1>6 DEF CancelWorker, RunInv, OneExecutionAtATime, AuditExact, history
  <2> QED
    BY <2>4, <2>5, <2>6, <2>7
<1>7. CASE CancelDemo \/ CancelAction
  <2>1. UNCHANGED <<worker, orphans, active, inflight, lastFailed, pendingRetry, panel, consented>>
          /\ cancelRequested' /\ running /\ ~running'
    BY <1>7 DEF CancelDemo, CancelAction, profileVars, threadVars, replayVars
  <2>2. ledger' = Ended(ledger, inflight)
    BY <1>7 DEF CancelDemo, CancelAction
  <2>3. ~bypassed' => ~bypassed /\ worker = NoWorker
    BY <1>7, Zenon DEF CancelDemo, CancelAction
  <2>4. RunShape' /\ OutcomeMatchesInflight' /\ OnlyLetThrough' /\ QueryPanelOverIdle'
    BY <2>1 DEF RunInv, RunShape, OutcomeMatchesInflight, OnlyLetThrough, LetThrough,
                QueryPanelOverIdle
  <2>5. OneExecutionAtATime'
    BY <2>1, <2>3 DEF RunInv, OneExecutionAtATime
  <2>6. AuditExact'
    BY <2>1, <2>2, <2>3, EndClosesLedger DEF AuditExact
  <2> QED
    BY <2>4, <2>5, <2>6
<1>8. CASE ReconnectAgain
  BY <1>8 DEF ReconnectAgain, RunInv, RunShape, OutcomeMatchesInflight, OnlyLetThrough,
     LetThrough, QueryPanelOverIdle, OneExecutionAtATime, AuditExact, threadVars,
     replayVars, history
<1>9. CASE ConnectFailed
  BY <1>9 DEF ConnectFailed, GiveUpParked, RunInv, RunShape, OutcomeMatchesInflight,
     OnlyLetThrough, LetThrough, QueryPanelOverIdle, OneExecutionAtATime, AuditExact,
     profileVars, threadVars, history
<1>10. CASE QuerySucceeded \/ QueryParked \/ QueryFailed
  <2>1. /\ worker.status \in Completed \union Failed
        /\ worker' = NoWorker /\ ~running' /\ inflight' \in {inflight, NoSql}
        /\ {lastFailed', pendingRetry'} \subseteq {lastFailed, pendingRetry, Audited, NoSql}
        /\ ledger' = Ended(ledger, Audited)
        /\ UNCHANGED <<orphans, active, consented, bypassed>>
    BY <1>10 DEF QuerySucceeded, QueryParked, QueryFailed, profileVars, replayVars
  <2>2. RunShape' /\ OutcomeMatchesInflight' /\ QueryPanelOverIdle'
    BY <2>1 DEF RunShape, OutcomeMatchesInflight, QueryPanelOverIdle, NoWorker
  <2>3. OnlyLetThrough'
    BY <2>1, AuditedIsInflight DEF RunInv, OnlyLetThrough, LetThrough, NoWorker
  <2>4. OneExecutionAtATime'
    BY <2>1 DEF RunInv, OneExecutionAtATime
  <2>5. AuditExact'
    BY <2>1, AuditedIsInflight, EndClosesLedger DEF AuditExact
  <2> QED
    BY <2>2, <2>3, <2>4, <2>5
<1>11. CASE QueryRetried
  <2>1. /\ Launch(inflight, active) /\ inflight \in Sql /\ inflight \in LetThrough
        /\ ~bypassed => running
        /\ ledger' = Opened(Ended(ledger, inflight), inflight)
        /\ UNCHANGED <<orphans, active, lastFailed, pendingRetry, consented, bypassed>>
        /\ worker # NoWorker
    BY <1>11, AuditedIsInflight DEF QueryRetried, profileVars, replayVars
  <2>2. RunShape' /\ OutcomeMatchesInflight' /\ QueryPanelOverIdle'
    BY <2>1 DEF RunShape, OutcomeMatchesInflight, QueryPanelOverIdle, Launch, Fresh, NoWorker
  <2>3. OnlyLetThrough'
    BY <2>1 DEF RunInv, OnlyLetThrough, LetThrough, Launch, Fresh, NoWorker
  <2>4. OneExecutionAtATime'
    BY <2>1 DEF RunInv, OneExecutionAtATime, Launch
  <2>5. ASSUME ~bypassed' PROVE AuditExact'
    <3>1. \A s \in Sql : ledger[s] = IF inflight = s THEN "open" ELSE "closed"
      BY <2>1, <2>5 DEF RunInv, AuditExact
    <3>2. ledger \in Ledgers /\ inflight # NoSql
      BY <1>a, <2>1 DEF TypeOK, Ledgers
    <3>3. Ended(ledger, inflight) = [s \in Sql |-> "closed"]
      BY <2>1, <3>1, <3>2 DEF Ended, Ledgers
    <3>4. \A s \in Sql : ledger'[s] = IF inflight = s THEN "open" ELSE "closed"
      BY <2>1, <3>3 DEF Opened
    <3> QED
      BY <2>1, <3>4 DEF AuditExact, Launch
  <2>6. AuditExact'
    BY <2>5 DEF AuditExact
  <2> QED
    BY <2>2, <2>3, <2>4, <2>6
<1>12. CASE DemoCompleted
  <2>1. /\ running /\ active = NoProfile /\ ~running' /\ inflight' = NoSql
        /\ ledger' = Ended(ledger, inflight) /\ lastFailed' = NoSql
        /\ UNCHANGED <<worker, orphans, active, cancelRequested, pendingRetry, panel,
                       consented, bypassed>>
    BY <1>12 DEF DemoCompleted, DemoRunning, profileVars, threadVars
  <2>2. worker = NoWorker
    BY <2>1 DEF RunInv, RunShape
  <2>3. RunShape' /\ OutcomeMatchesInflight' /\ QueryPanelOverIdle' /\ OnlyLetThrough'
    BY <2>1, <2>2 DEF RunInv, RunShape, OutcomeMatchesInflight, QueryPanelOverIdle,
                      OnlyLetThrough, LetThrough, NoWorker
  <2>4. OneExecutionAtATime'
    BY <2>1, <2>2 DEF RunInv, OneExecutionAtATime
  <2>5. AuditExact'
    BY <2>1, EndClosesLedger DEF AuditExact
  <2> QED
    BY <2>3, <2>4, <2>5
<1>13. CASE ConnectEnds
  BY <1>13 DEF ConnectEnds, RunInv, RunShape, OutcomeMatchesInflight, OnlyLetThrough,
     LetThrough, QueryPanelOverIdle, OneExecutionAtATime, AuditExact, profileVars,
     threadVars, replayVars, history
<1>14. CASE QueryEnds
  <2>1. PICK result \in Completed \union Failed : WorkerEnds(result)
    BY <1>14 DEF QueryEnds
  <2>2. worker'.sql = worker.sql /\ worker'.status = result
          /\ worker'.cancelled = worker.cancelled
    BY <2>1, <1>a DEF WorkerEnds, TypeOK, WorkerRecord
  <2>3. worker # NoWorker /\ worker' # NoWorker
    BY <2>1, <2>2 DEF WorkerEnds, NoWorker, Completed, Failed
  <2>4. RunShape' /\ OutcomeMatchesInflight'
    BY <2>1, <2>2, <2>3 DEF WorkerEnds, RunInv, RunShape, OutcomeMatchesInflight,
       profileVars, Completed, Failed
  <2>5. OnlyLetThrough'
    BY <2>1, <2>2 DEF WorkerEnds, RunInv, OnlyLetThrough, LetThrough, replayVars, history
  <2>6. QueryPanelOverIdle' /\ OneExecutionAtATime' /\ AuditExact'
    BY <2>1, <2>3 DEF WorkerEnds, RunInv, QueryPanelOverIdle, OneExecutionAtATime,
       AuditExact, history
  <2> QED
    BY <2>4, <2>5, <2>6
<1>15. CASE OrphanEnds
  BY <1>15 DEF OrphanEnds, RunInv, RunShape, OutcomeMatchesInflight, OnlyLetThrough,
     LetThrough, QueryPanelOverIdle, OneExecutionAtATime, AuditExact, profileVars,
     replayVars, history
<1> QED
  BY <1>a, <1>1, <1>2, <1>3, <1>4, <1>5, <1>6, <1>7, <1>8, <1>9, <1>10, <1>11, <1>12,
     <1>13, <1>14, <1>15, StepKinds DEF Cancelling, Concluding

(* It holds throughout.                                                    *)
LEMMA RunInvariant == Spec => []RunInv
  BY InitRunInv, StepRunInv, PTL DEF Spec

(* For any statements and profiles, what a server executes is read-only or  *)
(* was let through by the user, retries and replays included.               *)
THEOREM ConsentHolds == Spec => []RiskyStatementsConsented
<1>1. RunInv => RiskyStatementsConsented
  <2> SUFFICES ASSUME RunInv PROVE RiskyStatementsConsented
    OBVIOUS
  <2>1. worker.status = "running" => worker.sql \in LetThrough
    BY DEF RunInv, RunShape, OnlyLetThrough, NoWorker
  <2> QED
    BY <2>1 DEF RunInv, OnlyLetThrough, RiskyStatementsConsented, Executing, Execution,
                LetThrough
<1> QED
  BY <1>1, RunInvariant, PTL

(* An outcome is recorded for the statement whose worker produced it.       *)
THEOREM OutcomesAttributed == Spec => []OutcomeMatchesInflight
<1>1. RunInv => OutcomeMatchesInflight
  BY DEF RunInv
<1> QED
  BY <1>1, RunInvariant, PTL

(* Unless a run was started over another or disowned, audit records open    *)
(* and close exactly with the runs they describe.                           *)
THEOREM AuditHolds == Spec => []AuditExact
<1>1. RunInv => AuditExact
  BY DEF RunInv
<1> QED
  BY <1>1, RunInvariant, PTL

(* Under the same condition at most one thread executes a statement.        *)
THEOREM NoSecondExecution == Spec => []OneExecutionAtATime
<1>1. RunInv => OneExecutionAtATime
  BY DEF RunInv
<1> QED
  BY <1>1, RunInvariant, PTL

(* The query error panel is never open over a running statement.            *)
THEOREM PanelMeansIdle == Spec => []QueryPanelOverIdle
<1>1. RunInv => QueryPanelOverIdle
  BY DEF RunInv
<1> QED
  BY <1>1, RunInvariant, PTL

(* A step never retries or parks the run whose token Ctrl+C raised.         *)
LEMMA StepCancelIsFinal ==
  ASSUME RunInv, [Next]_vars, worker.cancelled
  PROVE  \/ worker'.cancelled
         \/ worker' = NoWorker /\ connect' = connect /\ ~running'
         \/ bypassed'
<1>a. TypeOK /\ cancelRequested /\ worker # NoWorker
  BY DEF RunInv, ConnectInv, RunShape
<1>1. CASE UNCHANGED worker
  BY <1>1
<1>2. ASSUME NEW s \in Sql, NEW p \in ProfileOrNone, StartQuery(s, p) PROVE bypassed'
  BY <1>2, <1>a, Zenon DEF StartQuery
<1>3. ASSUME NEW s \in Sql, Starting(s) PROVE bypassed'
  BY <1>2, <1>3, <1>a DEF Starting, TypeOK
<1>4. CASE Replaying
  BY <1>2, <1>4, <1>a DEF Replaying, TypeOK, SqlOrNone, ConnectRecord
<1>5. CASE CancelWorker
  BY <1>5, <1>a DEF CancelWorker, TypeOK, WorkerRecord
<1>6. CASE QuerySucceeded
  BY <1>6 DEF QuerySucceeded
<1>7. CASE QueryRetried
  BY <1>7, <1>a DEF QueryRetried, MayRetry
<1>8. CASE QueryParked
  BY <1>8, <1>a DEF QueryParked, MayReconnect
<1>9. CASE QueryFailed
  BY <1>9 DEF QueryFailed
<1>10. CASE QueryEnds
  BY <1>10, <1>a DEF QueryEnds, WorkerEnds, TypeOK, WorkerRecord
<1>11. Quiet \/ Connecting \/ Connected \/ CancelDemo \/ CancelAction \/ ReconnectAgain
         \/ ConnectFailed \/ DemoCompleted \/ ConnectEnds \/ OrphanEnds => UNCHANGED worker
  BY DEF Quiet, idleVars, Connecting, Connected, CancelDemo, CancelAction, ReconnectAgain,
     ConnectFailed, DemoCompleted, ConnectEnds, OrphanEnds, threadVars
<1> QED
  BY <1>a, <1>1, <1>3, <1>4, <1>5, <1>6, <1>7, <1>8, <1>9, <1>10, <1>11, StepKinds
     DEF Cancelling, Concluding

(* Cancelling with Ctrl+C is final, whatever the limits.                    *)
THEOREM CancelFinal == Spec => CancelIsFinal
<1>1. RunInv /\ [Next]_vars =>
        [worker.cancelled =>
           \/ worker'.cancelled
           \/ worker' = NoWorker /\ connect' = connect /\ ~running'
           \/ bypassed']_vars
  BY StepCancelIsFinal
<1> QED
  BY <1>1, RunInvariant, PTL DEF Spec, CancelIsFinal

-----------------------------------------------------------------------------
(* The guard. *)

(* The steps that change what is asked about or what was let through: all   *)
(* of them keys, and every other step leaves both alone.                    *)
LEMMA GuardSteps ==
  ASSUME [Next]_vars
  PROVE  \/ \E s \in Sql : \/ StatementBlocked(s) \/ StatementAllowed(s)
                          \/ StatementNeedsConfirmation(s)
         \/ ConfirmStatement
         \/ ToggleSafeMode
         \/ UNCHANGED <<pendingConfirm, consented>>
<1> USE DEF guardVars, history
<1>1. ASSUME NEW s \in SqlOrNone, EditStatement(s) PROVE UNCHANGED <<pendingConfirm, consented>>
  BY <1>1 DEF EditStatement
<1>2. ASSUME NEW p \in Profiles, Connect(p) \/ OpenProfile(p)
      PROVE  UNCHANGED <<pendingConfirm, consented>>
  BY <1>2 DEF Connect, OpenProfile
<1>3. CancelWorker \/ CancelDemo \/ CancelAction \/ RunHealthDiagnostics \/ DismissPanel
      \/ RetryFailedQuery \/ ReconnectFromPanel
      => UNCHANGED <<pendingConfirm, consented>>
  BY DEF CancelWorker, CancelDemo, CancelAction, RunHealthDiagnostics, DismissPanel,
     RetryFailedQuery, ReconnectFromPanel
<1>4. ConnectNotReady \/ ConnectSucceeded \/ ReconnectAgain \/ ConnectFailed
      => UNCHANGED <<pendingConfirm, consented>>
  BY DEF ConnectNotReady, ConnectSucceeded, ReconnectAgain, ConnectFailed
<1>5. QueryNotReady \/ QuerySucceeded \/ QueryRetried \/ QueryParked \/ QueryFailed
      => UNCHANGED <<pendingConfirm, consented>>
  BY DEF QueryNotReady, QuerySucceeded, QueryRetried, QueryParked, QueryFailed
<1>6. DemoIdle \/ DemoCountdown \/ DemoCompleted \/ ConnectEnds \/ QueryEnds \/ OrphanEnds
      => UNCHANGED <<pendingConfirm, consented>>
  BY DEF DemoIdle, DemoCountdown, DemoCompleted, ConnectEnds, QueryEnds, WorkerEnds, OrphanEnds
<1>7. UNCHANGED vars => UNCHANGED <<pendingConfirm, consented>>
  BY DEF vars
<1> QED
  BY <1>1, <1>2, <1>3, <1>4, <1>5, <1>6, <1>7 DEF Next, UserKey, RunStatement, Tick

(* With a read-only profile current, whichever profiles those are, a step   *)
(* asks about no statement and lets none through but one that was asked     *)
(* about before.                                                            *)
THEOREM GuardHolds == Spec => ReadOnlyAdmitsNothing
<1>1. [Next]_vars =>
        [CurrentProfileReadOnly =>
           /\ pendingConfirm' \in {pendingConfirm, NoSql}
           /\ consented' \subseteq consented \union {pendingConfirm}]_vars
  <2> SUFFICES ASSUME [Next]_vars, CurrentProfileReadOnly
               PROVE  /\ pendingConfirm' \in {pendingConfirm, NoSql}
                      /\ consented' \subseteq consented \union {pendingConfirm}
    OBVIOUS
  <2> USE DEF history
  <2>1. ASSUME NEW s \in Sql, StatementBlocked(s)
        PROVE  pendingConfirm' = NoSql /\ consented' = consented
    BY <2>1 DEF StatementBlocked
  <2>2. ASSUME NEW s \in Sql, StatementAllowed(s)
        PROVE  pendingConfirm' = NoSql /\ consented' = consented
    BY <2>2 DEF StatementAllowed, Blocked
  <2>3. ASSUME NEW s \in Sql PROVE ~StatementNeedsConfirmation(s)
    BY DEF StatementNeedsConfirmation, Blocked, Allowed
  <2>4. ConfirmStatement =>
          pendingConfirm' = NoSql /\ consented' = consented \union {pendingConfirm}
    BY DEF ConfirmStatement
  <2>5. ToggleSafeMode => pendingConfirm' = NoSql /\ consented' = consented
    BY DEF ToggleSafeMode
  <2> QED
    BY <2>1, <2>2, <2>3, <2>4, <2>5, GuardSteps
<1> QED
  BY <1>1, PTL DEF Spec, ReadOnlyAdmitsNothing

=============================================================================
