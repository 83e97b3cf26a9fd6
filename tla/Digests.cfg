\* Two digest tasks that may overlap, three items, a query that lists two of
\* them and a template that shows one, and the faults of the tasks.
CONSTANTS
  rt = rt
  daily = daily
  Subs = {daily}
  Contents = {c1, c2, c3}
  Rules <- StrictAndLoose
  About <- AllNews
  Frequency <- RealtimeAndDaily
  Channel <- Email
  Adapters = {daily}
  Runs = {p1}
  MaxCalls = 0
  MaxAttempts = 1
  PushFaults = {"stop", "sendError", "lostReply"}
  Beats = {b1, b2}
  Interval <- ThreeInstants
  QuietSubs = {daily}
  WindowLimit = 2
  Section <- OneSection
  PerSection <- ShowOne
  MaxBeats = 3
  MaxTime = 6
SPECIFICATION Spec
INVARIANTS SentWasDelivered LossExplained
PROPERTIES IntervalKept
SYMMETRY Interchangeable
CHECK_DEADLOCK FALSE
