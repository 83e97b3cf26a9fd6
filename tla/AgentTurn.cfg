\* A turn of up to two answers with up to two calls each, in every agent mode,
\* with and without a confirm token.
CONSTANTS
  search = search
  distribute = distribute
  danger = danger
  ghost = ghost
  Tools = {search, distribute, danger, ghost}
  Registered = {search, distribute, danger}
  Permission <- Levels
  Mutating = {distribute, danger}
  Modes = {"process", "analyze", "preview"}
  Approvals <- Confirmed
  Pasts <- StoredPast
  MaxSteps = 2
  MaxCalls = 2
  ProtectLastN = 2
SPECIFICATION Spec
INVARIANTS SentHistoryPaired AnswersInOrder GatesHold ReportFaithful
PROPERTIES BudgetStops CallsSettle
CHECK_DEADLOCK FALSE
