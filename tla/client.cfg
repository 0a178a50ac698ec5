SPECIFICATION FairSpec
CONSTANTS
  Limit = 4
  Data <- MCData
INVARIANTS TypeOK AnswersInStep NoMutualWait
PROPERTY AnswerLeadsOn
CHECK_DEADLOCK FALSE
