SPECIFICATION Spec
CONSTANTS
  None = None
  Namespaces = {0, 1, 14, 15}
  Titles <- MCTitles
  Expressions <- MCExpressions
  Listing <- MCListing
  Resolved <- MCResolved
  DefaultLimit = 5
INVARIANTS
  TypeOK
  OperandsDefined
  AnswersQuery
  LimitsKept
  NothingRedundant
CHECK_DEADLOCK FALSE
