SPECIFICATION Spec
CONSTANTS
  Conns = {c1, c2}
  Users = {"carl", "emma"}
  Role <- MCRole
  MaxSessions = 2
  NoConn = NoConn
  NoUser = "nobody"
  MaxDeaths = 1
PROPERTY DisconnectContained
CHECK_DEADLOCK FALSE
