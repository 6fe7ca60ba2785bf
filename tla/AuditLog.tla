------------------------------- MODULE AuditLog -------------------------------
(***************************************************************************)
(* What an audit trail with retention promises: records are only added at  *)
(* the end, in the order they were made, and only the oldest are forgotten.*)
(* An append that ends early leaves its line open.  The next one goes on   *)
(* with that line, so its record is not kept although it is acknowledged;  *)
(* no other acknowledged record is lost.                                   *)
(***************************************************************************)
EXTENDS Naturals, Sequences

CONSTANT Record  \* numbered in the order they are made

VARIABLES
  log,   \* the records kept, oldest first
  line,  \* the records begun on the line that is open
  acked  \* the last record whose append succeeded, or 0

vars == <<log, line, acked>>

Init == log = <<>> /\ line = {} /\ acked = 0

Begin(r) ==
  /\ acked < r /\ \A s \in line : s < r
  /\ \A i \in 1 .. Len(log) : log[i] < r
  /\ line' = line \union {r}
  /\ UNCHANGED <<log, acked>>

(* The last record begun completes the line. *)
Acknowledge(r) ==
  /\ r \in line /\ \A s \in line : s <= r
  /\ acked' = r
  /\ line' = {}
  /\ log' = IF line = {r} THEN Append(log, r) ELSE log

(* The file that ends in the open line is put away. *)
PutAway == line' = {} /\ UNCHANGED <<log, acked>>

Forget(n) ==
  /\ log' = SubSeq(log, n + 1, Len(log))
  /\ UNCHANGED <<line, acked>>

Next ==
  \/ \E r \in Record : Begin(r) \/ Acknowledge(r)
  \/ PutAway
  \/ \E n \in 1 .. Len(log) : Forget(n)

Spec == Init /\ [][Next]_vars
=============================================================================
