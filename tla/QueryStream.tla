----------------------------- MODULE QueryStream -----------------------------
(***************************************************************************)
(* One query worker: QueryRunner::execute_streaming pulling rows of the    *)
(* MySQL stream into a ResultsRingBuffer under QUERY_TIMEOUT, while the UI *)
(* thread may raise the cancellation token at any moment.                  *)
(*                                                                         *)
(* The token is looked at between two pulls only; the timeout fires only   *)
(* where the worker awaits the server.  Rows are numbered as they arrive.  *)
(***************************************************************************)
EXTENDS Naturals, Sequences

CONSTANTS
  Capacity, \* RESULT_BUFFER_CAPACITY
  MaxRows   \* bound: the most rows a server sends

ASSUME CapacityAssumption == Capacity \in Nat \ {0}
ASSUME RowsAssumption == MaxRows \in Nat

VARIABLES
  pc,        \* where the worker stands
  token,     \* the shared CancellationToken
  arrived,   \* the rows the stream yielded, oldest first
  buffer,    \* ResultsRingBuffer.rows
  totalSeen, \* ResultsRingBuffer.total_rows_seen
  streamed,  \* rows_streamed
  result,    \* the rows of the QueryWorkerOutcome
  late       \* history: rows pushed since the token was raised

vars == <<pc, token, arrived, buffer, totalSeen, streamed, result, late>>

Awaiting == {"start", "pull"}
Over     == {"ok", "cancelled", "failed", "timeout"}

TypeOK ==
  /\ pc \in Awaiting \union {"check", "cancel"} \union Over
  /\ token \in BOOLEAN
  /\ arrived \in Seq(1 .. MaxRows) /\ Len(arrived) <= MaxRows
  /\ buffer \in Seq(1 .. MaxRows) /\ Len(buffer) <= Capacity
  /\ totalSeen \in 0 .. MaxRows
  /\ streamed \in 0 .. MaxRows
  /\ result \in Seq(1 .. MaxRows)
  /\ late \in Nat

Init ==
  /\ pc = "start"
  /\ token = FALSE
  /\ arrived = <<>>
  /\ buffer = <<>>
  /\ totalSeen = 0
  /\ streamed = 0
  /\ result = <<>>
  /\ late = 0

StartSucceeds ==
  /\ pc = "start"
  /\ pc' = "check"
  /\ UNCHANGED <<token, arrived, buffer, totalSeen, streamed, result, late>>

(* Seeded fault: the token is only looked at before the first row. *)
StopAskedAtFirst == token /\ streamed = 0

StopAsked == token

CheckToken ==
  /\ pc = "check"
  /\ pc' = IF StopAsked THEN "cancel" ELSE "pull"
  /\ UNCHANGED <<token, arrived, buffer, totalSeen, streamed, result, late>>

(* Seeded fault: a full buffer drops the row that arrives. *)
PushDropsNewest(b, r) == IF Len(b) = Capacity THEN b ELSE Append(b, r)

(* Seeded fault: eviction happens one row too late. *)
PushOverCapacity(b, r) == Append(IF Len(b) > Capacity THEN Tail(b) ELSE b, r)

Push(b, r) == Append(IF Len(b) = Capacity THEN Tail(b) ELSE b, r)

RowArrives ==
  /\ pc = "pull"
  /\ Len(arrived) < MaxRows
  /\ LET row == Len(arrived) + 1
     IN  /\ arrived' = Append(arrived, row)
         /\ buffer' = Push(buffer, row)
  /\ totalSeen' = totalSeen + 1
  /\ streamed' = streamed + 1
  /\ late' = IF token THEN late + 1 ELSE late
  /\ pc' = "check"
  /\ UNCHANGED <<token, result>>

(* earliest_buffered_index: the index of buffer's first row in the stream. *)
Earliest == totalSeen - Len(buffer)

Finish(ending) ==
  /\ pc' = ending
  /\ result' = IF ending \in {"ok", "cancelled"} THEN buffer ELSE <<>>
  /\ UNCHANGED <<arrived, buffer, totalSeen, streamed, late>>

RowsEnd ==
  /\ pc = "pull"
  /\ Finish("ok")
  /\ UNCHANGED token

(* Dropping the MySQL stream cannot fail. *)
StreamCancelled ==
  /\ pc = "cancel"
  /\ Finish("cancelled")
  /\ UNCHANGED token

(* start_query, the network or the conversion of a row. *)
BackendFails ==
  /\ pc \in Awaiting
  /\ Finish("failed")
  /\ UNCHANGED token

(* Seeded fault: the timeout only covers the start of the query. *)
MayTimeOutAtStart == pc = "start"

MayTimeOut == pc \in Awaiting

TimesOut ==
  /\ MayTimeOut
  /\ token' = TRUE
  /\ Finish("timeout")

(* Ctrl+C; the outcome may already be on its way. *)
RaiseToken ==
  /\ ~token
  /\ token' = TRUE
  /\ UNCHANGED <<pc, arrived, buffer, totalSeen, streamed, result, late>>

Worker ==
  \/ StartSucceeds \/ CheckToken \/ RowArrives \/ RowsEnd \/ StreamCancelled
  \/ BackendFails \/ TimesOut

Next == Worker \/ RaiseToken

Spec == Init /\ [][Next]_vars

(* The worker's own steps are taken and the timer fires; a server need      *)
(* never answer and nobody need cancel.                                     *)
Fairness ==
  /\ WF_vars(CheckToken)
  /\ WF_vars(StreamCancelled)
  /\ WF_vars(TimesOut)

FairSpec == Spec /\ Fairness

-----------------------------------------------------------------------------
(* The index arithmetic callers use to name a buffered row is right however *)
(* many rows were evicted (results_buffer.rs:45-54).                        *)
IndicesLocateRows ==
  \A i \in 1 .. Len(buffer) : buffer[i] = arrived[Earliest + i]

(* After the token is raised at most the row being awaited is still pushed  *)
(* (query_runner.rs:118, between two pulls).                                *)
StopsWithinOneRow == late <= 1

(* A worker comes to an end whatever the server does.                       *)
Terminates == <>(pc \in Over)

Contract ==
  INSTANCE QueryContract WITH
    Row <- 1 .. MaxRows,
    status <- IF pc \in Over THEN pc ELSE "running",
    cancelled <- token,
    rows <- arrived

(* The worker does what the event loop assumes of it; in particular the     *)
(* ring buffer publishes exactly the last Capacity rows.                    *)
ImplementsContract == Contract!Spec
=============================================================================
