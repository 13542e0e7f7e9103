\* A delivery of two messages and one of one, and two connections lost for each.
SPECIFICATION Spec
CONSTANTS
  s1 = s1
  s2 = s2
  s3 = s3
  d1 = d1
  d2 = d2
  Sends = {s1, s2, s3}
  Complete = {s1, s3}
  Deliveries = {d1, d2}
  SendsOf <- MCSendsOf
  MaxDrops = 2
INVARIANTS
  TypeOK
  HeardOnce
  ReturnedMeansSilent
PROPERTIES
  HandlersEnd
CHECK_DEADLOCK FALSE
