\* The comment on closed sockets, when handlers close sockets of others.
CONSTANTS
  Socket = {l, s1, s2}
  Listening = {l}
  Early = {}
  MaxEvents = 2
  Relays = TRUE
  NULL = NULL
SYMMETRY Symmetry
SPECIFICATION Spec
INVARIANTS
  NoFurtherEvents
