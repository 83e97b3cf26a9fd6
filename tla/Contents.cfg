\* A schedule whose steps are retried, and a run of another source whose steps
\* are not, now and then in batch mode.
CONSTANTS
  s = s
  t = t
  x = x
  y = y
  daily = daily
  other = other
  Sources = {s, t}
  Items = {x, y}
  Listings <- Lists
  Runs = {daily, other}
  SourceOf <- Of
  OnFailure <- Mode
  Schedules = {daily}
  MaxRetries = 1
SPECIFICATION Spec
INVARIANTS SuccessIsWhole
PROPERTIES EmbeddingKept ListedIsOffered
CHECK_DEADLOCK FALSE
