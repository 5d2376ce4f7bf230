CONSTANTS
  Token <- MCToken
  Text <- MCText
  MinLong <- MCMinLong
  MaxLong <- MCMaxLong
  MaxParseDepth = 3
  MaxPolicies = 2
  MaxConditions = 2
  MaxSetElements = 2
  MaxAnnotations = 2
  MaxTypeParts = 2
  MaxRecordEntries = 2
  MaxMemberChain = 2
  MaxBinopChain = 2
SPECIFICATION FairSpec
INVARIANTS
  ParsesGrammar
  CountersExact
  RecursionBounded
  NoNullLinked
  NeverPastError
PROPERTIES
  Terminates
CHECK_DEADLOCK FALSE
