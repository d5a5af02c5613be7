\* The sockets of the HTTP module: handlers act on their own socket.
CONSTANTS
  Socket = {l, w, s1, s2}
  Listening = {l}
  Early = {w}
  MaxEvents = 2
  Relays = FALSE
  NULL = NULL
SYMMETRY Symmetry
SPECIFICATION Spec
INVARIANTS
  TypeOK
  FlagsMatch
  InterestKept
  NoFurtherEvents
PROPERTIES
  ImplementsArchitecture
