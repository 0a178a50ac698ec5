SPECIFICATION Spec
CONSTANTS
  Accounts = {1, 2, 3}
  Users = {"alice", "bob"}
  Employees = {}
  Managers = {"mark"}
  Owner <- MCOwnerOfTwo
  InitialBalance <- MCBalance
  Amounts = {1}
  Serial = FALSE
  MaxBuffer = 9
  JournalLimit = 9
  MaxOps = 3
  MaxCrashes = 0
  MaxFaults = 0
INVARIANTS UncontendedExact WriteAhead HistoryExplains
CHECK_DEADLOCK FALSE
