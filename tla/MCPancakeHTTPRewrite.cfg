\* One request at a time, and files of up to five elements.
CONSTANTS
  Setting = {"ServerHeader", "DocumentRoot", "FastCGIClient"}
  Listed = {"DocumentRoot"}
  Request = {r1}
  MaxElements = 5
  Operations <- MCOperations
  Versions = {10, 11}
  NULL = NULL
SPECIFICATION Spec
INVARIANTS
  TypeOK
  SettingsMean
  RootInForce
  ScopesDestroyed
CHECK_DEADLOCK FALSE
