SPECIFICATION FairSpec

CONSTANTS
  Clients <- TwoClients
  Default = "default"
  Emails = {e1}
  Requests = {r1, r2}
  Commands = {c1}
  Threads <- AllThreads
  Environments <- Machines
  Overrides <- NoOverrideOrDefault
  DomainOf <- Domains
  Config <- WorkConfig
  MaxFlows = 1
  MaxGrants = 1
  MaxFaults = 1

INVARIANTS
  TypeOK
  NoForeignToken
  LatestWriteCounts

PROPERTIES
  OpenAnswers

CHECK_DEADLOCK FALSE
