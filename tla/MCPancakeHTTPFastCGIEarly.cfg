\* A server that answers before it has the whole body.
CONSTANTS
  Client = {c1}
  Connection = {k1}
  MaxRequestID = 3
  Initialized = 2
  Setups <- MCPost
  Habits = {"early"}
  NULL = NULL
  Garbage = Garbage
SPECIFICATION Spec
SYMMETRY Symmetry
INVARIANTS
  ClientDataTransmitted
