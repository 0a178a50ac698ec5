SPECIFICATION Spec
CONSTANTS
  Limit = 4
  Data <- MCData
PROPERTY Reprompts
CHECK_DEADLOCK FALSE
