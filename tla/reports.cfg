SPECIFICATION Spec
CONSTANTS
  food = food
  travel = travel
  MaxTrendsMonths = 60
  MinBaselineSamples = 2
  MaxAnomalyResults = 1
  ExpenseIds = {1, 2, 3, 4}
  Categories <- MCCategories
  Amounts = {10, 13, 20, 40}
  Days <- MCDays
  NoRow = NoRow
  Stored <- MCStored
  Unfiltered = Unfiltered
  Filters <- MCFilters
  PageSizes = {2}
  MaxPageSize = 100
  NoCursor = NoCursor
  MaxWrites = 1
  p = p
  q = q
  BudgetIds <- MCBudgetIds
  StoredBudgets <- MCStoredBudgets
  BudgetCategories <- MCCategories
  Limits = {20, 26}
  Thresholds = {76}
  NoBudget = NoBudget
  GoneBudget = GoneBudget
  Absent = Absent
  Null = Null
  NewBudgets <- MCNewBudgets
  BudgetPatches <- MCPatches
  BudgetClients = {b1, b2}
  MaxBudgetWrites = 2
  Today <- MCToday
  Windows = {14}
  BaselineDays = 400
  LookbackDays = 4
  ZThreshold <- MCZ
SYMMETRY BudgetClientSymmetry
INVARIANTS
  TypeOK
  OwedRowsAreAhead
  SeenRowsAreBehind
  TrendsAgreeWithBreakdowns
  ChartHoldsAllSpend
  RecentRowsDoNotScoreEachOther
  OneBudgetPerCategory
  StatusAgreesWithBreakdown
PROPERTIES
  PatchesMerge
CHECK_DEADLOCK FALSE
