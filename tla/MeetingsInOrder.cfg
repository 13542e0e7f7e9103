\* Two meetings, each in order; events repeated, one restart.
SPECIFICATION Spec
CONSTANTS
  p1 = p1
  n1 = n1
  n2 = n2
  Tenants = {t1}
  Meetings = {m1, m2}
  Persons = {p1, p2}
  Names = {n1, n2}
  NameOf <- OwnNames
  Handlers = {h1, h2}
  NoTenant = NoTenant
  InitTenants = {t1}
  InitRunning = {}
  InOrder = TRUE
  MaxEvents = 4
  MaxDeliveries = 2
  MaxStoreErrors = 0
  MaxCrashes = 1
  MaxTenantOps = 0
SYMMETRY Symmetry
INVARIANTS
  ShowsWhoIsIn
  AnsweredMeansTold
PROPERTIES
  LeaveWrittenOnce
  KeepsAttendance
CHECK_DEADLOCK FALSE
