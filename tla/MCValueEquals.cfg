\* Both limits are crossed: six steps make two values three levels deep,
\* or two sets of four, with equal elements in every order.
CONSTANTS
  Scalar <- MCScalar
  MaxHeight = 6
  MaxValueEqualsDepth = 2
  MaxElts = 3
  Budget = 6
SPECIFICATION Spec
CHECK_DEADLOCK FALSE
INVARIANTS
  AnswersRight
  TotalWithinLimits
  SidesExchange
