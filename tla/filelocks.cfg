SPECIFICATION FeedbackSpec
CONSTANTS
  Customers = {c1, c2}
  Managers = {m1, m2}
  Threads = {c1, c2, m1, m2}
  Records = {0, 1}
  MaxRecords = 2
  MaxFaults = 1
SYMMETRY Symmetry
INVARIANTS FeedbackTypeOK NoLockLeft IdsUntilOverlap
PROPERTIES OnlyMarks
