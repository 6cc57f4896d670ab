SPECIFICATION FairSpec
CONSTANTS
  MaxCalls = 4
  Kinds = {"small", "bigRequest", "bigAnswer"}
INVARIANTS
  AnswerMatchesCall
  HandledInOrder
PROPERTY CallsReturn
CHECK_DEADLOCK FALSE
