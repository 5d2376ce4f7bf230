\* Four pieces against five characters: two wildcards with a letter before,
\* between or after them, and subjects that make the matcher go back twice.
\* A call ends; the next one starts from an initial state.
CONSTANTS
  Char <- MCChar
  Text <- MCText
  Subject <- MCSubject
  MaxText = 4
  MaxSubject = 5
SPECIFICATION Spec
CHECK_DEADLOCK FALSE
INVARIANTS
  TypeOK
  WorkBounded
  AnswerRight
PROPERTIES
  Terminates
