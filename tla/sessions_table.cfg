SPECIFICATION Spec
CONSTANTS
  Conns = {c1, c2, c3}
  Users = {"carl", "emma", "mark"}
  Role <- MCRole
  MaxSessions = 2
  NoConn = NoConn
  NoUser = "nobody"
  MaxDeaths = 1
SYMMETRY Symmetry
INVARIANTS TypeOK OneSessionPerUser TableExact EntryFound NobodyStranded
CHECK_DEADLOCK FALSE
