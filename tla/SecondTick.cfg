\* One worker, one schedule that fires twice, no faults.
CONSTANTS
  Workers = {w1}
  Tasks = {t1}
  PlainKeys = {s1}
  MaxMsgs = 3
  MaxTicks = 2
  MaxRetries = 0
  Faults = {}
  Apis = {}
  ApiActions = {}
  SourceOf <- OneSource
  MaxRequests = 0
SPECIFICATION Spec
INVARIANTS OnlyRedeliveriesSkipped
CHECK_DEADLOCK FALSE
