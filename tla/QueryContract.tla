---------------------------- MODULE QueryContract ----------------------------
(***************************************************************************)
(* What the event loop may assume of a query worker: rows arrive in order, *)
(* the run ends once, and the published result is the last Capacity rows   *)
(* that arrived, or nothing at all if the run failed.                      *)
(***************************************************************************)
EXTENDS Naturals, Sequences

CONSTANTS
  Row,      \* what a server may send
  Capacity  \* the most rows an outcome carries, a positive number

VARIABLES
  status,    \* how the run stands
  cancelled, \* its cancellation token
  rows,      \* every row that arrived, oldest first
  result     \* what the outcome carries

contractVars == <<status, cancelled, rows, result>>

Published == {"ok", "cancelled"}
Endings   == Published \union {"failed", "timeout"}

Last(s, n) == IF Len(s) <= n THEN s ELSE SubSeq(s, Len(s) - n + 1, Len(s))

Init ==
  /\ status = "running"
  /\ cancelled = FALSE
  /\ rows = <<>>
  /\ result = <<>>

Arrive(r) ==
  /\ status = "running"
  /\ rows' = Append(rows, r)
  /\ UNCHANGED <<status, cancelled, result>>

Cancel ==
  /\ ~cancelled
  /\ cancelled' = TRUE
  /\ UNCHANGED <<status, rows, result>>

End(ending) ==
  /\ status = "running"
  /\ ending = "cancelled" => cancelled
  /\ status' = ending
  /\ cancelled' = (cancelled \/ ending = "timeout")
  /\ result' = IF ending \in Published THEN Last(rows, Capacity) ELSE <<>>
  /\ UNCHANGED rows

Next ==
  \/ \E r \in Row : Arrive(r)
  \/ Cancel
  \/ \E ending \in Endings : End(ending)

Spec == Init /\ [][Next]_contractVars
=============================================================================
