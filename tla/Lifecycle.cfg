\* Two workers, a batch of one task and one schedule; no PATCH requests, and
\* every run shorter than the TTL of its lock.
CONSTANTS
  Workers = {w1, w2}
  Tasks = {t1}
  PlainKeys = {s1}
  MaxMsgs = 2
  MaxTicks = 1
  MaxRetries = 1
  Faults = {"redelivery", "configError", "abortResult"}
  Apis = {}
  ApiActions = {}
  SourceOf <- OneSource
  MaxRequests = 0
SPECIFICATION FairSpec
INVARIANTS TypeOK MarkerSettles
PROPERTIES LifecycleHolds RunningSettles
CHECK_DEADLOCK FALSE
