SPECIFICATION Spec
CONSTANTS
  Accounts = {1, 2}
  Users = {"alice", "bob"}
  Employees = {"emma"}
  Managers = {"mark"}
  Owner <- MCOwner
  InitialBalance <- MCBalance
  Amounts = {1}
  Serial = FALSE
  MaxBuffer = 6
  JournalLimit = 6
  MaxOps = 2
  MaxCrashes = 1
  MaxFaults = 1
INVARIANTS TypeOK NoOverdraft
CHECK_DEADLOCK FALSE
