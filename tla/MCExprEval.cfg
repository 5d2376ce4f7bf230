\* A width of three bits for Long, and a limit on depth one below the tallest
\* of the trees.
CONSTANTS
  Node <- MCNode
  Context <- MCContext
  Datum <- MCDatum
  Equals <- MCEquals
  LikeMatches <- MCLikeMatches
  MakeExtension <- MCMakeExtension
  AskDatetime <- MCDatetimeMethod
  AskDatetimeWith <- MCDatetimeMethodWith
  AskDuration <- MCDurationMethod
  AskIp <- MCIpMethod
  InIpRange <- MCCidrContains
  SameAs <- MCSameAs
  Comparable <- MCComparable
  ExtensionMeaning <- MCExtensionMeaning
  MaxHeight = 8
  MinLong <- MCMinLong
  MaxLong = 3
  MaxEvalDepth = 5
SPECIFICATION Spec
INVARIANTS
  TypeOK
  SlotSound
  FaultsErr
  HasGuards
  ScopeAgrees
  AnswerMeans
  CutOffOnlyDeep
