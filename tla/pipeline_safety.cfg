SPECIFICATION Spec
CONSTANTS
  Receipts = {r1}
  NoReceipt = NoReceipt
  Workers = {w1, w2}
  Requests = {a1, a2}
  MaxRetries = 2
  MaxUserRetries = 1
  Faults <- FaultKinds
  MaxFaults = 2
SYMMETRY Interchangeable
INVARIANTS
  TypeOK
  RowHasBlob
  OneExpensePerReceipt
  CategorisedWasBooked
  JobsNameCommittedRows
PROPERTY ImplementsLedger
CHECK_DEADLOCK FALSE
