-------------------------- MODULE MCReceiptPipeline --------------------------
(* Instances of ReceiptPipeline, and of its work left, for TLC. *)
EXTENDS ReceiptWork, TLC

\* Receipts, workers and requests are interchangeable.
Interchangeable ==
  Permutations(Receipts) \cup Permutations(Workers) \cup Permutations(Requests)

\* No row is lost by these: redelivery and the compensated INSERT.
RecoveredFaults == {"worker_dies", "insert_fails"}

\* Faults that drop a message: nothing carries the row any more.
KillFaults == {"child_killed"}
NoFaults == {}
=============================================================================
