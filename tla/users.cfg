SPECIFICATION Spec
CONSTANTS
  Customers = {2}
  Employees = {3, 5}
  Managers = {4}
  Admins = {1}
  InitialUsers <- MCInitialUsers
  InitialAccounts <- MCInitialAccounts
  Contacts = {"p1", "p2", "p3", "p4", "p5", "p6"}
  Passwords = {"old", "new"}
  TypedContacts = {"p2", "p6"}
  TypedPasswords = {"new"}
  TypedRoles = {"CUSTOMER", "EMPLOYEE"}
  Skip = Skip
  Free = Free
  MaxUsers = 6
  MaxAccounts = 4
  MaxOps = 3
  MaxTroubles = 1
INVARIANTS TypeOK UserIdsExact CreatedUnique OneCreationCut MutexOwned AccountIdsUntilOverlap UnracedExact RolesGranted AccountsFollowUser
CHECK_DEADLOCK FALSE
