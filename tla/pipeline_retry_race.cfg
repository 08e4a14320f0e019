SPECIFICATION Spec
CONSTANTS
  Receipts = {r1}
  NoReceipt = NoReceipt
  Workers = {w1, w2}
  Requests = {a1, a2}
  MaxRetries = 1
  MaxUserRetries = 1
  Faults <- NoFaults
  MaxFaults = 1
INVARIANT FailedHasNoExpense
CHECK_DEADLOCK FALSE
