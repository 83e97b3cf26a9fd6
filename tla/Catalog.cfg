\* Sources and subscriptions of two names, two sessions, at most three requests,
\* and files that change at any time.
CONSTANTS
  a = a
  b = b
  c1 = c1
  c2 = c2
  Names = {a, b}
  Clients = {c1, c2}
  SourceDirs <- Files
  SubDirs <- SubFiles
  Packs <- Topics
  MaxRows = 3
  MaxWrites = 3
SPECIFICATION Spec
INVARIANTS SyncIsExact SnapshotsSound
PROPERTIES PausedStays
SYMMETRY Same
CHECK_DEADLOCK FALSE
