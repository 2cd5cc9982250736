SPECIFICATION Spec
CONSTANTS
  Requests = {r1}
  GateSettings <- OneSlot
  Backends = {big, small}
  None = None
  SqlStore = TRUE
  StoreFaults = FALSE
  Kinds = {"inference", "rag"}
  Rules <- OneRule
  FallbackEnabled = TRUE
  DeadlineErrors <- FewDeadlines
  Replies <- FewAnswers
  big = big
  small = small
  spare = spare
INVARIANTS BudgetAnswers504
CHECK_DEADLOCK FALSE
