\* Two goroutines, three requests of any kind, one failed statement.
SPECIFICATION Spec
CONSTANTS
  ann = ann
  bob = bob
  k1 = k1
  k2 = k2
  k3 = k3
  s1 = s1
  s2 = s2
  p1 = p1
  p2 = p2
  c1 = c1
  a1 = a1
  a2 = a2
  t1 = t1
  t2 = t2
  z1 = z1
  z2 = z2
  None = None
  Blank = Blank
  Users = {ann, bob}
  Keys = {k1, k2, k3}
  Suffixes = {s1, s2, Blank}
  Patterns = {p1, p2}
  Channels = {c1}
  Accounts = {a1, a2}
  Tokens = {t1, t2}
  Creds = {z1, z2}
  Requests <- MCRequests
  InitTables <- MCTables
  Workers = {w1, w2}
  MaxRequests = 3
  MaxErrors = 1
INVARIANTS
  TypeOK
  RetiredStaysRetired
PROPERTIES
  AtomicUnlessClash
  AnAdminRemains
CHECK_DEADLOCK FALSE
