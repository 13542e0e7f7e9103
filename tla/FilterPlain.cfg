\* Texts over both cases of a letter, another letter and the characters of LIKE.
SPECIFICATION Spec
CONSTANTS
  Alphabet <- MCAlphabet
  MaxTopic = 3
  MaxPattern = 2
INVARIANTS
  PlainPatternIsSubstring
CHECK_DEADLOCK FALSE
