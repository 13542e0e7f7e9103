\* The service is started with another key and the workspace reinstalls the app.
SPECIFICATION Spec
CONSTANTS
  t1 = t1
  x = x
  y = y
  Empty = Empty
  Nothing = Nothing
  NoKey = NoKey
  Refused = Refused
  Tenants = {t1}
  Texts = {x, y}
  Keys = {k1, k2}
  Workers = {w1}
  InitCells <- MCCells
  MaxStarts = 2
  MaxRequests = 1
  MaxErrors = 0
PROPERTIES
  ReinstallRecovers
CHECK_DEADLOCK FALSE
