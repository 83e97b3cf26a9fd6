\* One row of each table, two overlapping requests, three in all.
CONSTANTS
  Clients = {c1, c2}
  MaxRequests = 3
  c1 = c1
  c2 = c2
SPECIFICATION Spec
SYMMETRY Interchangeable
PROPERTIES PatchIsExact RowsLoad DeletedStays
CHECK_DEADLOCK FALSE
