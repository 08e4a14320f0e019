SPECIFICATION Spec
CONSTANTS
  Receipts = {r1}
  NoReceipt = NoReceipt
  Workers = {w1, w2}
  Requests = {a1, a2}
  MaxRetries = 1
  MaxUserRetries = 1
  Faults <- KillFaults
  MaxFaults = 1
INVARIANT InFlightIsCarried
CHECK_DEADLOCK FALSE
