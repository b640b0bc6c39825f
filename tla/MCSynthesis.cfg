SPECIFICATION Spec

CONSTANTS
  Tenants = {t1, t2}
  Urls = {u1}
  Contents = {c1, c2}
  None = None
  CliWorkers = {w1}
  HttpWorkers = {h1}
  Server = server
  Poison = {}
  BatchLimit = 1
  MaxHarvests = 3
  MaxFaults = 1
  MaxTracked = 1

SYMMETRY Symmetry

INVARIANTS
  TypeOK
  DistillationMatchesContent
  NoRepeatedWork

PROPERTIES
  RowsKeepIdentity
  TenantIsolation
  ImplementsLibrary
