\* Each meeting in order; one request reads in two statements.
SPECIFICATION SpecQueries
CONSTANTS
  p1 = p1
  n1 = n1
  n2 = n2
  Tenants = {t1,t2}
  Meetings = {m1}
  Persons = {p1, p2}
  Names = {n1, n2}
  NameOf <- OwnNames
  Handlers = {h1, h2}
  Queries = {q1}
  NoTenant = NoTenant
  InitTenants = {t1,t2}
  InitRunning = {m1}
  InOrder = TRUE
  MaxEvents = 4
  MaxDeliveries = 2
  MaxStoreErrors = 0
  MaxCrashes = 0
  MaxTenantOps = 0
SYMMETRY Symmetry
PROPERTIES
  AnswersAreCurrent
CHECK_DEADLOCK FALSE
