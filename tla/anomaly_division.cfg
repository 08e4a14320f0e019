SPECIFICATION Spec
CONSTANTS
  food = food
  travel = travel
  MaxTrendsMonths = 60
  MinBaselineSamples = 5
  MaxAnomalyResults = 50
  ExpenseIds <- SteadyIds
  Categories <- MCCategories
  Amounts = {1000, 1001, 1500}
  Days <- MCDays
  NoRow = NoRow
  Stored <- SteadyStored
  Unfiltered = Unfiltered
  Filters = {}
  PageSizes = {2}
  MaxPageSize = 100
  NoCursor = NoCursor
  MaxWrites = 1
  p = p
  q = q
  BudgetIds = {}
  StoredBudgets <- NoBudgets
  BudgetCategories <- MCCategories
  Limits = {20, 26}
  Thresholds = {76}
  NoBudget = NoBudget
  GoneBudget = GoneBudget
  Absent = Absent
  Null = Null
  NewBudgets = {}
  BudgetPatches = {}
  BudgetClients = {}
  MaxBudgetWrites = 0
  Today <- MCToday
  Windows = {14}
  BaselineDays = 400
  LookbackDays = 4
  ZThreshold <- MCZ
INVARIANTS
  AnomalyReportIsMade
CHECK_DEADLOCK FALSE
