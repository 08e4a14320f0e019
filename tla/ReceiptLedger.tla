---------------------------- MODULE ReceiptLedger ----------------------------
(***************************************************************************)
(* What the receipt pipeline promises about money: each stored receipt is  *)
(* booked as an expense at most once at a time, only while it exists, and  *)
(* a deleted receipt never comes back.  The expense survives its receipt.  *)
(***************************************************************************)
EXTENDS Naturals

CONSTANT Receipts

VARIABLES
  shelf,    \* "none", "live" or "deleted" for each receipt
  expenses  \* expenses booked from each receipt that still exist

vars == <<shelf, expenses>>

Init ==
  /\ shelf = [r \in Receipts |-> "none"]
  /\ expenses = [r \in Receipts |-> 0]

Store(r) ==
  /\ shelf[r] = "none"
  /\ shelf' = [shelf EXCEPT ![r] = "live"]
  /\ UNCHANGED expenses

Discard(r) ==
  /\ shelf[r] = "live"
  /\ shelf' = [shelf EXCEPT ![r] = "deleted"]
  /\ UNCHANGED expenses

BookExpense(r) ==
  /\ shelf[r] = "live" /\ expenses[r] = 0
  /\ expenses' = [expenses EXCEPT ![r] = 1]
  /\ UNCHANGED shelf

RemoveExpense(r) ==
  /\ expenses[r] = 1
  /\ expenses' = [expenses EXCEPT ![r] = 0]
  /\ UNCHANGED shelf

Next == \E r \in Receipts : Store(r) \/ Discard(r) \/ BookExpense(r) \/ RemoveExpense(r)

Spec == Init /\ [][Next]_vars
=============================================================================
