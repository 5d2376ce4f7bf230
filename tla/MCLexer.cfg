\* Texts of up to four words, or a string of up to two pieces.
CONSTANTS
  Code <- MCCode
  HexValue <- MCHexValue
  Letter <- MCLetter
  Keywords <- MCKeywords
  CodeChunks = 4
  StringChunks = 2
SPECIFICATION MCSpec
INVARIANTS
  MaximalMunch
  EscapesExact
CHECK_DEADLOCK FALSE
