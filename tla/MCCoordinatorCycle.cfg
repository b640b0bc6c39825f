SPECIFICATION FairSpec

CONSTANTS
  Users = {ana}
  Providers = {bluesky, youtube}
  SharedClient = {youtube}
  ClientUser = ana
  NoCred = NoCred
  Urls = {u1, u2}
  NoUrl = NoUrl
  Poison = {u2}
  Ticker = ticker
  Requests = {}
  MaxRetries = 2
  MaxLinks = 1
  MaxFaults = 1

INVARIANTS
  TypeOK
  FlaggedWasRevoked

PROPERTIES
  ImplementsDelivery
  EventuallyHarvested
  FlaggedGoesQuiet
