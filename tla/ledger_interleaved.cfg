SPECIFICATION Spec
CONSTANTS
  Accounts = {1, 2, 3, 4}
  Users = {"alice", "bob"}
  Employees = {}
  Managers = {}
  Owner <- MCOwnerOfTwo
  InitialBalance <- MCBalance
  Amounts = {1}
  Serial = FALSE
  MaxBuffer = 9
  JournalLimit = 9
  MaxOps = 2
  MaxCrashes = 1
  MaxFaults = 0
PROPERTY RestartExact
CHECK_DEADLOCK FALSE
