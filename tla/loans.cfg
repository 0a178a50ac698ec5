SPECIFICATION Spec
CONSTANTS
  Customers = {c1, c2}
  Employees = {e1, e2}
  Managers = {m1, m2}
  Nobody = Nobody
  MaxLoans = 2
  MaxCrashes = 1
  MaxFaults = 1
SYMMETRY Symmetry
INVARIANTS TypeOK CreditsExplained CopyCurrent IdsUntilOverlap
PROPERTY LoansOnlyAdvance
CHECK_DEADLOCK FALSE
