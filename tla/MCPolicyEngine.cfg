SPECIFICATION PolicySpec
CONSTANTS
  Requests = {r1, r2, r3, r4}
  Tenants = {"a", "b", "free", "stranger"}
  Known = {"a", "b", "free"}
  Limit <- LimitAB
  MaxSecond = 2
  Tools = {"search", "shell"}
  Fields = {"max_steps", "estimated_agent_cost"}
  WholeFields = {"max_steps"}
  Asks <- FewAsks
  Absent = Absent
  Caps <- CapsA
  AllowedTools <- ToolsA
  Budget <- BudgetA
  AgentEnabled = TRUE
  MaxInt = 3
SYMMETRY Symmetry
INVARIANTS GrantsBounded DenialEarned AllowedWithinTenant
PROPERTIES LimiterKept
CHECK_DEADLOCK FALSE
