\* A worker whose handlers act on their own socket, or relay.
CONSTANTS
  FDs <- MCFDs
  Listening <- MCListening
  Early <- MCEarly
  SetSize = 8
  NULL = NULL
SPECIFICATION Spec
INVARIANTS
  TableMatches
  NobodyDeaf
  NoFurtherEvents
  NobodySkipped
  NoForeignEvents
