SPECIFICATION Spec
CONSTANTS
  e1 = e1
  e2 = e2
  Expenses <- MCExpenses
  ruled = ruled
  unruled = unruled
  food = food
  travel = travel
  Merchants <- MCMerchants
  Categories <- MCCategories
  Unset = Unset
  NoRow = NoRow
  Deleted = Deleted
  Rule <- MCRule
  Patches <- MCPatches
  Stored <- MCStored
  Corrected <- MCCorrected
  Clients = {c1, c2}
  Bookers = {}
  MaxStamp = 2
PROPERTY StaleWritesAreRefused
CHECK_DEADLOCK FALSE
