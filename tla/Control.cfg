\* Two workers, a client that pauses, resumes and cancels one task and a schedule
\* that ticks twice, in an environment that kills workers, outlives locks and
\* drops writes.
CONSTANTS
  Workers = {w1, w2}
  Tasks = {t1}
  PlainKeys = {s1}
  MaxMsgs = 2
  MaxTicks = 2
  MaxRetries = 0
  Faults = {"crash", "slowRun", "storeError", "brokerDown",
            "abortResult"}
  Apis = {a1}
  ApiActions = {"pause", "resume", "cancel"}
  SourceOf <- OneSource
  MaxRequests = 3
SPECIFICATION Spec
INVARIANTS UniqueRunner LockAccounted PauseHalts SuccessReturned
PROPERTIES ParentNotHijacked
SYMMETRY WorkerSymmetry
CHECK_DEADLOCK FALSE
