\* One unit is ten seconds, the timeouts and the buffer are those of the source.
SPECIFICATION Spec
CONSTANTS
  Callers = {g1, g2, g3}
  NoOne = NoOne
  OauthTimeout = 3
  ApiTimeout = 1
  Buffer = 6
  Lifetimes = {9, 12}
  MaxTime = 26
SYMMETRY Symmetry
INVARIANTS
  TypeOK
  TokenOutlivesRequest
PROPERTIES
  OneRefreshPerToken
CHECK_DEADLOCK FALSE
