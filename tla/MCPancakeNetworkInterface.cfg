\* Files of up to ten elements, which say more or less of two interfaces.
CONSTANTS
  Cell = {x1, x2, x3}
  Domain = {d1, d2}
  Protocol = {HTTP}
  Families = {"ip4", "ip6", "unix"}
  MaxElements = 10
  MaxContexts = 3
  NULL = NULL
SPECIFICATION Spec
SYMMETRY Symmetry
INVARIANTS
  ListensAsSaid
  PointersValid
  NegotiatedAsSaid
CHECK_DEADLOCK FALSE
