SPECIFICATION Spec
CONSTANTS
  N = 3
  MaxRules = 2
  UnitCosts = {1, 2, 4}
  Files <- AllFiles
  MaxTokens = 500
  Budgets = {0, 2}
INVARIANTS AcceptedConfigWorks OptimizesToCheapest
CHECK_DEADLOCK FALSE
