\* A server that multiplexes, and ends a request before it has said so.
CONSTANTS
  Client = {c1}
  Connection = {k1, k2}
  MaxRequestID = 3
  Initialized = 2
  Setups <- MCMultiplexes
  Habits = {"hasty"}
  NULL = NULL
  Garbage = Garbage
SPECIFICATION Spec
SYMMETRY Symmetry
INVARIANTS
  CacheSound
