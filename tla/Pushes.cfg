\* Two processes that distribute one item to two realtime subscribers, in an
\* environment where sends fail, replies get lost and processes stop.
CONSTANTS
  rt = rt
  daily = daily
  Subs = {rt, daily}
  Contents = {c1}
  Rules <- StrictAndLoose
  About <- AllNews
  Frequency <- AllRealtime
  Channel <- WechatAndEmail
  Adapters = {rt, daily}
  Runs = {p1, p2}
  MaxCalls = 2
  MaxAttempts = 2
  PushFaults = {"stop", "sendError", "lostReply"}
  Beats = {}
  Interval <- ThreeInstants
  QuietSubs = {}
  WindowLimit = 1
  Section <- OneSection
  PerSection <- ShowOne
  MaxBeats = 0
  MaxTime = 2
SPECIFICATION FairSpec
INVARIANTS DuplicatesExplained DeadTokenExplained
PROPERTIES PushSettles
CHECK_DEADLOCK FALSE
