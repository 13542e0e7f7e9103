\* Dispatches one after the other, one settings request of any kind, one failed statement.
SPECIFICATION Spec
CONSTANTS
  m1 = m1
  pa = pa
  pb = pb
  s1 = s1
  s2 = s2
  k1 = k1
  v1 = v1
  c1 = c1
  x1 = x1
  x2 = x2
  None = None
  Dispatchers = {d1}
  Topics = {t1}
  Meetings = {m1, m2}
  Patterns = {pa, pb}
  Contains <- MCContains
  Suffixes = {s1, s2}
  Tokens = {k1, k2}
  Servers = {v1, v2}
  Creds = {c1, c2}
  Targets = {x1, x2}
  Subscriptions <- MCRows
  InitSettings <- MCAllSettings
  InitFilters = 2
  MaxFilters = 3
  MaxChanges = 1
  MaxErrors = 1
INVARIANTS
  TypeOK
  PassedWhileAllowed
  OneChangeIsAtomic
CHECK_DEADLOCK FALSE
