\* Two tenants, two keys, three starts and two requests at once.
SPECIFICATION Spec
CONSTANTS
  t1 = t1
  x = x
  y = y
  Empty = Empty
  Nothing = Nothing
  NoKey = NoKey
  Refused = Refused
  Tenants = {t1, t2}
  Texts = {x, y}
  Keys = {k1, k2}
  Workers = {w1, w2}
  InitCells <- MCCells
  MaxStarts = 3
  MaxRequests = 2
  MaxErrors = 1
INVARIANTS
  TypeOK
  NeverGarbage
  SealedWhileServing
  OneKeyOpensAll
PROPERTIES
  WrongKeyDoesNoHarm
  KeepsSecrets
SYMMETRY MCSymmetry
CHECK_DEADLOCK FALSE
