\* A server that sends the headers in a record of their own.
CONSTANTS
  Client = {c1}
  Connection = {k1}
  MaxRequestID = 3
  Initialized = 2
  Setups <- MCGet
  Habits = {"flushes"}
  NULL = NULL
  Garbage = Garbage
SPECIFICATION Spec
SYMMETRY Symmetry
INVARIANTS
  HandlersMatch
