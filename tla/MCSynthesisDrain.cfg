SPECIFICATION FairSpec

CONSTANTS
  Tenants = {t1}
  Urls = {u1, u2}
  Contents = {c1}
  None = None
  CliWorkers = {w1, w2}
  HttpWorkers = {}
  Server = server
  Poison = {u2}
  BatchLimit = 2
  MaxHarvests = 3
  MaxFaults = 2
  MaxTracked = 2

PROPERTIES
  BatchesServe
