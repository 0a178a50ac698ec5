SPECIFICATION FairSpec
CONSTANTS
  Conns = {c1, c2}
  Users = {"carl", "mark"}
  Role <- MCRole
  MaxSessions = 1
  NoConn = NoConn
  NoUser = "nobody"
  MaxDeaths = 1
PROPERTIES OrphansRemoved LoginDecided
CHECK_DEADLOCK FALSE
