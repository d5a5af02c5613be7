\* Two requests of all kinds, over connections of every setup; the last entry
\* of the table is not cleared.
CONSTANTS
  Client = {c1, c2}
  Connection = {k1, k2}
  MaxRequestID = 3
  Initialized = 2
  Setups <- MCSetups
  Habits = {}
  NULL = NULL
  Garbage = Garbage
SPECIFICATION Spec
SYMMETRY Symmetry
INVARIANTS
  TableMatches
  ServerAgrees
  NobodyForgotten
  HandlersMatch
  CacheSound
