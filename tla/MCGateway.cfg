SPECIFICATION GatewaySpec
CONSTANTS
  Requests = {r1, r2}
  GateSettings <- OneSlot
  Backends = {only}
  None = None
  SqlStore = TRUE
  StoreFaults = FALSE
  Kinds = {"inference"}
  Rules <- NoRules
  FallbackEnabled = FALSE
  DeadlineErrors <- OneDeadline
  Replies <- OneReply
  KeyRequired = TRUE
  MaxStarts = 2
  only = only
INVARIANTS SlotHeldInside GracefulStop UnfinishedRowExplained CountersBracket
PROPERTIES OverloadIsReal StopsOnSignal
CHECK_DEADLOCK FALSE
