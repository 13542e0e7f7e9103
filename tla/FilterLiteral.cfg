\* The same texts; the pattern may have the characters of LIKE.
SPECIFICATION Spec
CONSTANTS
  Alphabet <- MCAlphabet
  MaxTopic = 3
  MaxPattern = 2
INVARIANTS
  PatternIsLiteral
CHECK_DEADLOCK FALSE
