SPECIFICATION Spec

CONSTANTS
  Users = {ana}
  Providers = {bluesky}
  SharedClient = {}
  ClientUser = ana
  NoCred = NoCred
  Urls = {u1}
  NoUrl = NoUrl
  Poison = {}
  Ticker = ticker
  Requests = {}
  MaxRetries = 3
  MaxLinks = 2
  MaxFaults = 1

SYMMETRY Symmetry

INVARIANTS
  FreshTokenIsActive
