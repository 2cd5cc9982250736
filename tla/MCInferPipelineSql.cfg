SPECIFICATION Spec
CONSTANTS
  Requests = {r1}
  GateSettings <- OneSlot
  Backends = {big, small, spare}
  None = None
  SqlStore = TRUE
  StoreFaults = TRUE
  Kinds = {"inference", "rag", "agent"}
  Rules <- Chain
  FallbackEnabled = TRUE
  DeadlineErrors <- Deadlines
  Replies <- Answers
  big = big
  small = small
  spare = spare
INVARIANTS PipelineTypeOK RowTellsOutcome OneVerdict StepsFollowPlan LedgerReplaysRun
  Answer504Justified ExactReplayFollowsRoute ExportTellsRun
PROPERTIES LedgerKept EveryRequestAnswered
CHECK_DEADLOCK FALSE
