\* Three policies at most and a list that starts with one cell: 1, 2 and 4
\* cells are reached, and an allocation can fail at the first, second and
\* third match.
CONSTANTS
  Policy <- MCPolicy
  Context <- MCContext
  MaxPolicies = 3
  InitialCap = 1
SPECIFICATION FairSpec
INVARIANTS
  TypeOK
  DecisionSound
  ReasonsSound
  ListInBounds
PROPERTIES
  Refines
  Terminates
