SPECIFICATION Spec

CONSTANTS
  Processes = {p1, p2, p3}
  Rows = {google, rotating}
  Rotating = {rotating}
  Files = {session}
  MaxTokens = 3

INVARIANTS
  TypeOK
  DeadOnlyIfUnsaved
  LastSignInStands
