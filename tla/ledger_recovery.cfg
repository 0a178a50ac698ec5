SPECIFICATION FairSpec
CONSTANTS
  Accounts = {1, 2}
  Users = {"alice", "bob"}
  Employees = {"emma"}
  Managers = {"mark"}
  Owner <- MCOwner
  InitialBalance <- MCBalance
  Amounts = {1}
  Serial = TRUE
  MaxBuffer = 9
  JournalLimit = 9
  MaxOps = 3
  MaxCrashes = 2
  MaxFaults = 0
INVARIANTS DiskRecovers
PROPERTIES ImplementsBank RecoveryCompletes HandlersReturn
CHECK_DEADLOCK FALSE
