\* The comment on the slots, with the constants of MCExprEval.cfg.
CONSTANTS
  Node <- MCNode
  Context <- MCContext
  Datum <- MCDatum
  Equals <- MCEquals
  LikeMatches <- MCLikeMatches
  MakeExtension <- MCMakeExtension
  AskDatetime <- MCDatetimeMethod
  AskDatetimeWith <- MCDatetimeMethodWith
  AskDuration <- MCDurationMethod
  AskIp <- MCIpMethod
  InIpRange <- MCCidrContains
  SameAs <- MCSameAs
  Comparable <- MCComparable
  ExtensionMeaning <- MCExtensionMeaning
  MaxHeight = 8
  MinLong <- MCMinLong
  MaxLong = 3
  MaxEvalDepth = 5
SPECIFICATION Spec
INVARIANT StampedOnlyByVar
