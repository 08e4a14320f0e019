SPECIFICATION FairSpec
CONSTANTS
  Receipts = {r1}
  NoReceipt = NoReceipt
  Workers = {w1, w2}
  Requests = {a1, a2}
  MaxRetries = 1
  MaxUserRetries = 1
  Faults <- RecoveredFaults
  MaxFaults = 1
INVARIANTS
  InFlightIsCarried
  NoOrphanBlob
PROPERTIES
  SettlesOrIsGivenUp
  StrandedForGood
  WorkIsSpent
CHECK_DEADLOCK FALSE
