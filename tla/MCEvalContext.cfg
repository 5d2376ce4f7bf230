\* Nesting may reach the ceiling of 2 and would pass it with the nodes there
\* are; two names make every duplicate possible.
CONSTANTS
  Root = {context}
  Node = {n1, n2, n3, n4}
  Name = {x, y}
  Scalar = {"STRING"}
  MaxMemberChain = 2
  MaxElements = 2
  NoRef = NoRef
SPECIFICATION Spec
SYMMETRY Symmetry
CHECK_DEADLOCK FALSE
INVARIANTS
  TypeOK
  UniqueNames
  OneOwner
  DepthIsNesting
  WalkWithinCeiling
