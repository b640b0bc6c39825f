SPECIFICATION Spec

CONSTANTS
  Users = {ana, ben}
  Providers = {youtube}
  SharedClient = {youtube}
  ClientUser = ana
  NoCred = NoCred
  Urls = {u1}
  NoUrl = NoUrl
  Poison = {}
  Ticker = ticker
  Requests = {}
  MaxRetries = 2
  MaxLinks = 1
  MaxFaults = 1

SYMMETRY Symmetry

INVARIANTS
  SignalsFromOwnFeeds
