\* The limits of the code on nesting, chains and members, each divided by 16.
CONSTANTS
  Token <- MCLargeToken
  Text <- MCDeepText
  MinLong <- MCMinLong
  MaxLong = 3
  MaxParseDepth = 4
  MaxPolicies = 16
  MaxConditions = 1
  MaxSetElements = 16
  MaxAnnotations = 1
  MaxTypeParts = 1
  MaxRecordEntries = 4
  MaxMemberChain = 1
  MaxBinopChain = 16
  Context <- MCContext
  Datum = {}
  Equals <- MCEquals
  LikeMatches <- MCLikeMatches
  MakeExtension <- MCMakeExtension
  AskDatetime <- MCMethod
  AskDatetimeWith <- MCMethodWith
  AskDuration <- MCMethod
  AskIp <- MCMethod
  InIpRange <- MCCidrContains
  MaxEvalDepth = 8
SPECIFICATION Both
INVARIANT NeverCutOff
CHECK_DEADLOCK FALSE
