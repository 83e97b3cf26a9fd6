\* Two processes that share the breaker: the API's chats and streams beside the
\* worker's completions and embeddings, and a log whose writes may fail.
CONSTANTS
  api = api
  worker = worker
  Callers = {api, worker}
  MayCall <- Uses
  Route <- Models
  Cached = {worker}
  Fallbacks = {"complete"}
  LogFails = TRUE
  Threshold = 2
  MaxAttempts = 2
SPECIFICATION FairSpec
INVARIANTS Audited
PROPERTIES OpenUntilProven CallEnds Recovers
CHECK_DEADLOCK FALSE
