\* Two levels of nesting, two operators in a chain, one member step; the
\* evaluator's limit is the height these allow.
CONSTANTS
  Token <- MCSmallToken
  Text <- MCSmallText
  MinLong <- MCMinLong
  MaxLong = 3
  MaxParseDepth = 2
  MaxPolicies = 1
  MaxConditions = 1
  MaxSetElements = 2
  MaxAnnotations = 1
  MaxTypeParts = 1
  MaxRecordEntries = 1
  MaxMemberChain = 1
  MaxBinopChain = 2
  Context <- MCContext
  Datum = {}
  Equals <- MCEquals
  LikeMatches <- MCLikeMatches
  MakeExtension <- MCMakeExtension
  AskDatetime <- MCMethod
  AskDatetimeWith <- MCMethodWith
  AskDuration <- MCMethod
  AskIp <- MCMethod
  InIpRange <- MCCidrContains
  MaxEvalDepth = 22
SPECIFICATION Both
INVARIANT LimitsSuffice
CHECK_DEADLOCK FALSE
