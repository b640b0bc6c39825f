SPECIFICATION Spec

CONSTANTS
  Processes = {p1, p2}
  Wishes <- ThreeWishes
  MaxLinks = 2
  MaxCodes = 2

SYMMETRY Symmetry

INVARIANTS
  TypeOK
  GrantIsAsRequested
  ReadonlyIsReadonly

CHECK_DEADLOCK FALSE
