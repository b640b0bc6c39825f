SPECIFICATION FairSpec

CONSTANTS
  Users = {u1, u2}
  Myself = bot
  Sizes = {1, 3, 5}
  ReplySizes = {2}
  Budget = 5
  MaxToolRounds = 2
  MaxCalls = 1
  MaxMessages = 2
  MaxEvents = 3
  MaxCrashes = 1

INVARIANTS
  TypeOK
  ModelSeesQuestion

PROPERTIES
  ImplementsInbox
  EveryoneIsServed

CHECK_DEADLOCK FALSE
