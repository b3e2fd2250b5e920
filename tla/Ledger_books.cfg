\* The books of two users, with purges that may pass a second boundary.
SPECIFICATION Spec
CONSTANTS
  u1 = u1
  u2 = u2
  c1 = c1
  c2 = c2
  k1 = k1
  Users = {u1, u2}
  Calls = {c1, c2}
  Codes = {k1}
  MaxBills = 1
  MaxCost = 1
  Faces = {1}
  Expiries = {2, 5}
  Amounts <- MCAmounts
  DayLen = 2
  Retention = 1
  MaxLag = 1
  MaxNow = 4
  MaxLogs = 2
  MaxEntries = 2
  NULL = NULL
SYMMETRY Symmetry
INVARIANTS BooksAccount TodayIsUnpurged StatementReadable CodesBookedOnce OverdraftBounded
CHECK_DEADLOCK FALSE
