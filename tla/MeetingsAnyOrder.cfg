\* Any order, every goroutine runs to its end; one statement fails, two tenant requests.
SPECIFICATION FairSpec
CONSTANTS
  p1 = p1
  n1 = n1
  n2 = n2
  Tenants = {t1, t2}
  Meetings = {m1}
  Persons = {p1}
  Names = {n1, n2}
  NameOf <- OwnNames
  Handlers = {h1, h2}
  NoTenant = NoTenant
  InitTenants = {t1}
  InitRunning = {m1}
  InOrder = FALSE
  MaxEvents = 2
  MaxDeliveries = 1
  MaxStoreErrors = 1
  MaxCrashes = 0
  MaxTenantOps = 2
INVARIANTS
  TypeOK
  NoOrphans
  RowsHaveCause
PROPERTIES
  OwnerStable
  EveryTenantIsTold
CHECK_DEADLOCK FALSE
